--------------------------- MODULE BlueGreen_proofs ---------------------------
(***************************************************************************)
(* What is proved of BlueGreen for every set of apps, nodes, domains and   *)
(* specs, every bound, and every set of failures a theorem does not        *)
(* exclude.                                                                *)
(***************************************************************************)
EXTENDS BlueGreen, SequenceTheorems, WellFoundedInduction, TLAPS

-----------------------------------------------------------------------------
(* The newest row of a set *)

LEMMA LeastExists ==
  ASSUME NEW T, T \subseteq Nat, T # {}
  PROVE  \E x \in T : \A y \in T : x <= y
<1> DEFINE R == OpToRel(<, Nat)
<1>1. IsWellFoundedOn(R, Nat)
  BY NatLessThanWellFounded
<1> HIDE DEF R
<1>2. PICK x \in T : \A y \in T : ~ (<<y, x>> \in R)
  BY <1>1, WFMin
<1>3. ASSUME NEW y \in T, y < x PROVE <<y, x>> \in R
  BY <1>3 DEF R, OpToRel
<1>4. ASSUME NEW y \in T PROVE x <= y
  <2>1. ~ (y < x)  BY <1>2, <1>3
  <2> QED  BY <2>1
<1> QED  BY <1>4

LEMMA NewestIn ==
  ASSUME NEW n \in Nat, NEW ids, ids \subseteq 1..n, ids # {}
  PROVE  Newest(ids) \in ids
<1> DEFINE T == {n - i : i \in ids}
<1>1. PICK x \in T : \A y \in T : x <= y
  <2>1. T \subseteq Nat
    <3>1. \A i \in 1..n : n - i \in Nat  OBVIOUS
    <3> QED  BY <3>1
  <2>2. T # {}
    <3>1. PICK i \in ids : TRUE  OBVIOUS
    <3>2. n - i \in T  OBVIOUS
    <3> QED  BY <3>2
  <2> HIDE DEF T
  <2> QED  BY <2>1, <2>2, LeastExists
<1>2. PICK i \in ids : x = n - i
  OBVIOUS
<1>3. ASSUME NEW j \in ids PROVE j <= i
  <2>1. n - i <= n - j  BY <1>1, <1>2
  <2> QED  BY <2>1
<1> QED  BY <1>3 DEF Newest

\* The current and the previous deployment of an app, if any, are rows of it.
LEMMA NewestRow ==
  ASSUME NEW R, rows \in Seq(R), NEW a, NEW st
  PROVE  LET i == Newest(WithStatus(a, st)) IN
           IF WithStatus(a, st) = {} THEN i = 0 ELSE i \in WithStatus(a, st) /\ i \in Nat \ {0}
<1>1. Len(rows) \in Nat /\ WithStatus(a, st) \subseteq 1..Len(rows)
  BY LenProperties DEF WithStatus, RowIds
<1>2. CASE WithStatus(a, st) = {}
  BY <1>2 DEF Newest
<1>3. CASE WithStatus(a, st) # {}
  <2>1. Newest(WithStatus(a, st)) \in WithStatus(a, st)
    BY <1>1, <1>3, NewestIn
  <2> QED  BY <2>1, <1>1, <1>3
<1> QED  BY <1>2, <1>3

-----------------------------------------------------------------------------
(* Containers and upstreams *)

LEMMA ContainersAppended ==
  ASSUME conts \in Seq(Container), NEW k \in Container, conts' = Append(conts, k)
  PROVE  /\ conts' \in Seq(Container)
         /\ Len(conts) + 1 \in ContIds'
         /\ ContIds \subseteq ContIds'
         /\ \A c \in ContIds : conts'[c] = conts[c]
         /\ conts'[Len(conts) + 1] = k
BY DEF ContIds

LEMMA ContainersRemoved ==
  ASSUME conts \in Seq(Container), NEW cs, conts' = WithoutConts(cs)
  PROVE  /\ conts' \in Seq(Container)
         /\ ContIds' = ContIds
         /\ \A c \in ContIds : conts'[c].app = conts[c].app /\ conts'[c].dep = conts[c].dep
                            /\ conts'[c].node = conts[c].node /\ conts'[c].idx = conts[c].idx
<1>1. conts \in [1..Len(conts) -> Container] /\ Len(conts) \in Nat
  BY LenProperties
<1>2. \A c \in 1..Len(conts) : conts[c] \in Container
  BY <1>1
<1>3. \A c \in 1..Len(conts) : [conts[c] EXCEPT !.state = "gone"] \in Container
  BY <1>2 DEF Container, ContState
<1>4. conts' \in [1..Len(conts) -> Container]
  BY <1>1, <1>2, <1>3 DEF WithoutConts, ContIds
<1>5. conts' \in Seq(Container)
  BY <1>1, <1>4, SeqDef
<1>6. ContIds' = ContIds
  BY <1>1, <1>4 DEF ContIds
<1>7. ASSUME NEW c \in ContIds
      PROVE  conts'[c].app = conts[c].app /\ conts'[c].dep = conts[c].dep
             /\ conts'[c].node = conts[c].node /\ conts'[c].idx = conts[c].idx
  <2>1. c \in 1..Len(conts)  BY <1>1 DEF ContIds
  <2>2. conts[c] \in Container  BY <1>2, <2>1
  <2>3. conts'[c] = IF c \in cs THEN [conts[c] EXCEPT !.state = "gone"] ELSE conts[c]
    BY DEF WithoutConts
  <2> QED  BY <2>2, <2>3 DEF Container
<1> QED  BY <1>5, <1>6, <1>7

LEMMA UpstreamsType ==
  ASSUME conts \in Seq(Container), NEW s, SeqSet(s) \subseteq ContIds
  PROVE  Upstreams(s) \subseteq Upstream
<1>1. ASSUME NEW c \in ContIds PROVE UpstreamOf(c) \in Upstream
  <2>1. conts[c] \in Container /\ c \in Nat
    BY LenProperties DEF ContIds
  <2> QED  BY <2>1, NodesAssumption DEF UpstreamOf, Upstream, Container
<1> QED  BY <1>1 DEF Upstreams, SeqSet

-----------------------------------------------------------------------------
(* What a step does to the containers, the table and the edge *)

ContsKept ==
  /\ conts' \in Seq(Container)
  /\ ContIds \subseteq ContIds'
  /\ \A c \in ContIds : /\ conts'[c].app = conts[c].app /\ conts'[c].dep = conts[c].dep
                       /\ conts'[c].node = conts[c].node /\ conts'[c].idx = conts[c].idx

EdgeTypeOK ==
  /\ routes \in [Domains -> SUBSET Upstream]
  /\ caddy \in [Domains -> SUBSET Upstream]
  /\ stage \subseteq Nat

LEMMA UnchangedConts ==
  ASSUME WorldTypeOK, UNCHANGED conts PROVE ContsKept
BY DEF WorldTypeOK, ContsKept, ContIds

LEMMA AppendConts ==
  ASSUME WorldTypeOK, NEW k \in Container, conts' = Append(conts, k) PROVE ContsKept
<1>1. conts \in Seq(Container)  BY DEF WorldTypeOK
<1> QED  BY <1>1, ContainersAppended DEF ContsKept

LEMMA RemoveConts ==
  ASSUME WorldTypeOK, NEW cs, conts' = WithoutConts(cs) PROVE ContsKept
<1>1. conts \in Seq(Container)  BY DEF WorldTypeOK
<1> QED  BY <1>1, ContainersRemoved DEF ContsKept

LEMMA RemoveEachConts ==
  ASSUME WorldTypeOK, NEW cs, RemoveEach(cs) PROVE ContsKept
BY RemoveConts DEF RemoveEach

LEMMA EdgeTyped ==
  ASSUME WorldTypeOK, NEW r \in [Domains -> SUBSET Upstream], NEW st \in SUBSET Nat,
         Applied(r, st) \/ Rejected \/ AppliedUnknown(r)
  PROVE  EdgeTypeOK'
BY DEF WorldTypeOK, EdgeTypeOK, Applied, Rejected, AppliedUnknown, edge

LEMMA BestEffortTyped ==
  ASSUME WorldTypeOK, NEW r \in [Domains -> SUBSET Upstream], NEW st \in SUBSET Nat,
         BestEffort(r, st)
  PROVE  EdgeTypeOK'
BY EdgeTyped DEF BestEffort

\* A step that keeps the table and the containers it lists.
LEMMA RowsUnchanged ==
  ASSUME WorldTypeOK, AskedTypeOK, ContsKept, EdgeTypeOK', UNCHANGED rows, asked' \subseteq asked
  PROVE  WorldTypeOK' /\ AskedTypeOK'
<1>1. WorldTypeOK'
  BY DEF WorldTypeOK, ContsKept, EdgeTypeOK, RowIds
<1>2. AskedTypeOK'
  BY DEF AskedTypeOK, RowIds
<1> QED  BY <1>1, <1>2

\* A step that appends a row.
LEMMA RowAppended ==
  ASSUME WorldTypeOK, AskedTypeOK, UNCHANGED conts, EdgeTypeOK', asked' \subseteq asked,
         NEW row \in Row, rows' = Append(rows, row), SeqSet(row.reps) \subseteq ContIds
  PROVE  WorldTypeOK' /\ AskedTypeOK'
<1>1. /\ rows' \in Seq(Row) /\ RowIds' = RowIds \cup {Len(rows) + 1}
      /\ \A i \in RowIds : rows'[i] = rows[i]
      /\ rows'[Len(rows) + 1] = row
  BY DEF WorldTypeOK, RowIds
<1>2. WorldTypeOK'
  <2>1. \A i \in RowIds' : SeqSet(rows'[i].reps) \subseteq ContIds'
    BY <1>1 DEF WorldTypeOK, ContIds
  <2> QED  BY <1>1, <2>1 DEF WorldTypeOK, EdgeTypeOK
<1>3. AskedTypeOK'
  BY <1>1 DEF AskedTypeOK
<1> QED  BY <1>2, <1>3

\* A step that sets the status of a row.
LEMMA StatusSet ==
  ASSUME WorldTypeOK, AskedTypeOK, UNCHANGED <<conts, asked>>, EdgeTypeOK',
         NEW i \in RowIds, NEW st \in Status, SetStatus(i, st)
  PROVE  /\ WorldTypeOK' /\ AskedTypeOK'
         /\ Len(rows') = Len(rows) /\ RowIds' = RowIds
         /\ \A k \in RowIds : rows'[k] = IF k = i THEN [rows[k] EXCEPT !.status = st] ELSE rows[k]
<1>1. rows \in Seq(Row) /\ i \in 1..Len(rows) /\ rows[i] \in Row
  BY DEF WorldTypeOK, RowIds
<1>2. [rows[i] EXCEPT !.status = st] \in Row
  BY <1>1 DEF Row
<1>3. rows' = [rows EXCEPT ![i] = [rows[i] EXCEPT !.status = st]]
  BY DEF SetStatus
<1>4. /\ rows' \in Seq(Row) /\ Len(rows') = Len(rows)
      /\ \A k \in 1..Len(rows) :
           rows'[k] = IF k = i THEN [rows[i] EXCEPT !.status = st] ELSE rows[k]
  BY <1>1, <1>2, <1>3, ExceptSeq
<1>5. RowIds' = RowIds /\ RowIds = 1..Len(rows)
  BY <1>1, <1>4 DEF RowIds
<1>6. \A k \in RowIds : rows'[k].reps = rows[k].reps /\ rows'[k].app = rows[k].app
  BY <1>1, <1>4, <1>5 DEF Row
<1>7. WorldTypeOK'
  BY <1>4, <1>5, <1>6 DEF WorldTypeOK, EdgeTypeOK, ContIds
<1>8. AskedTypeOK'
  BY <1>5 DEF AskedTypeOK
<1> QED  BY <1>4, <1>5, <1>7, <1>8

\* The edge does not move.
LEMMA EdgeUnchanged ==
  ASSUME WorldTypeOK, UNCHANGED edge PROVE EdgeTypeOK'
BY DEF WorldTypeOK, EdgeTypeOK, edge

\* The candidate of a deploy, when the holder only goes on to its next step.
LEMMA CandidateKept ==
  ASSUME CandidateOK, ContsKept, UNCHANGED <<rows, job>>
  PROVE  CandidateOK'
BY DEF CandidateOK, ContsKept, NextDeployID

-----------------------------------------------------------------------------
(* Every action preserves the inductive invariant *)

\* What the table says of an app: CurrentDeployment is a running row of it.
LEMMA CurrentRow ==
  ASSUME WorldTypeOK, NEW a, CurrentDeployment(a) # 0
  PROVE  CurrentDeployment(a) \in WithStatus(a, "running") /\ CurrentDeployment(a) \in RowIds
<1>1. CurrentDeployment(a) \in WithStatus(a, "running")
  BY NewestRow DEF WorldTypeOK, CurrentDeployment
<1> QED  BY <1>1 DEF WithStatus

LEMMA PreviousRow ==
  ASSUME WorldTypeOK, NEW a, PreviousDeployment(a) # 0
  PROVE  PreviousDeployment(a) \in WithStatus(a, "retired") /\ PreviousDeployment(a) \in RowIds
<1>1. PreviousDeployment(a) \in WithStatus(a, "retired")
  BY NewestRow DEF WorldTypeOK, PreviousDeployment
<1> QED  BY <1>1 DEF WithStatus

LEMMA NoCurrentRow ==
  ASSUME WorldTypeOK, NEW a, CurrentDeployment(a) = 0
  PROVE  WithStatus(a, "running") = {}
BY NewestRow DEF WorldTypeOK, CurrentDeployment

LEMMA CurrentTyped ==
  ASSUME WorldTypeOK, NEW a PROVE CurrentDeployment(a) \in Nat
<1>1. RowIds \subseteq Nat
  BY DEF WorldTypeOK, RowIds
<1>2. CASE CurrentDeployment(a) = 0
  BY <1>2
<1>3. CASE CurrentDeployment(a) # 0
  BY <1>1, <1>3, CurrentRow
<1> QED  BY <1>2, <1>3

\* A request waits: the holder is undisturbed.
LEMMA AskKept ==
  ASSUME IInv, UNCHANGED <<world, pc, job>>, AskedTypeOK'
  PROVE  IInv'
<1> USE DEF world
<1>1. WorldTypeOK'  BY DEF IInv, TypeOK, WorldTypeOK, RowIds, ContIds
<1>2. HolderTypeOK'  BY DEF IInv, TypeOK, HolderTypeOK
<1>3. HolderOK'
  BY DEF IInv, HolderOK, CandidateOK, NextDeployID, WithStatus, RowIds, ContIds
<1> QED  BY <1>1, <1>2, <1>3 DEF IInv, TypeOK

LEMMA AskRollbackStep ==
  ASSUME IInv, NEW a \in Apps, AskRollback(a) PROVE IInv'
<1>1. PreviousDeployment(a) \in RowIds /\ PreviousDeployment(a) \in Nat \ {0}
  <2>1. WorldTypeOK /\ PreviousDeployment(a) # 0  BY DEF IInv, TypeOK, AskRollback
  <2> QED  BY <2>1, PreviousRow DEF WorldTypeOK, RowIds
<1>2. AskedTypeOK'
  BY <1>1 DEF AskRollback, IInv, TypeOK, AskedTypeOK, Ask, world, RowIds
<1> QED  BY <1>2, AskKept DEF AskRollback

LEMMA AskScaleStep ==
  ASSUME IInv, NEW a \in Apps, NEW n \in Counts, AskScale(a, n) PROVE IInv'
<1>1. CurrentDeployment(a) \in RowIds /\ CurrentDeployment(a) \in Nat \ {0}
  <2>1. WorldTypeOK /\ CurrentDeployment(a) # 0  BY DEF IInv, TypeOK, AskScale
  <2> QED  BY <2>1, CurrentRow DEF WorldTypeOK, RowIds
<1>2. AskedTypeOK'
  BY <1>1, SpecsAssumption DEF AskScale, IInv, TypeOK, AskedTypeOK, Ask, world, RowIds
<1> QED  BY <1>2, AskKept DEF AskScale

LEMMA StartDeployStep ==
  ASSUME IInv, NEW s \in Spec0, NEW sched \in BOOLEAN, StartDeploy(s, sched), asked' \subseteq asked
  PROVE  IInv'
<1>1. PICK t \in Placements(s, sched) :
        job' = [app |-> s.app, spec |-> [s EXCEPT !.node = t[1]], sched |-> sched,
                id |-> NextDeployID, tgt |-> t, new |-> <<>>, row |-> 0, live |-> TRUE]
  BY DEF StartDeploy
<1>2. s.count \in Nat \ {0} /\ t \in [1..s.count -> Nodes] /\ t[1] \in Nodes
  BY DEF Placements, Spec0
<1>3. t \in Seq(Nodes)
  BY <1>2, SeqDef
<1>4. [s EXCEPT !.node = t[1]] \in Spec0
  BY <1>2 DEF Spec0
<1>5. Len(rows) \in Nat
  BY DEF IInv, TypeOK, WorldTypeOK
<1>6. job' \in Job
  BY <1>1, <1>3, <1>4, <1>5 DEF Job, NextDeployID, Spec0
<1>7. pc' = "run" /\ UNCHANGED <<rows, conts, routes, stage>> /\ caddy' = routes
  BY DEF StartDeploy
<1>8. HolderTypeOK'
  BY <1>6, <1>7 DEF HolderTypeOK, DeploySteps
<1>9. EdgeTypeOK'
  BY <1>7 DEF IInv, TypeOK, WorldTypeOK, EdgeTypeOK
<1>10. WorldTypeOK' /\ AskedTypeOK'
  BY <1>7, <1>9, UnchangedConts, RowsUnchanged DEF IInv, TypeOK
<1>11. CandidateOK'
  BY <1>1, <1>2, <1>7 DEF CandidateOK, NextDeployID, SeqSet, Spec0
<1>12. HolderOK'
  BY <1>1, <1>2, <1>7, <1>11 DEF HolderOK, RemoveSteps, Spec0
<1> QED  BY <1>8, <1>10, <1>12 DEF IInv, TypeOK

LEMMA AbandonDeployStep ==
  ASSUME IInv, pc = "idle", NEW s \in Spec0, NEW sched, AbandonDeploy(s, sched), asked' \subseteq asked
  PROVE  IInv'
<1> DEFINE row == NewRow("failed", s, FALSE, <<>>)
<1>1. UNCHANGED <<conts, routes, stage, pc, job>> /\ caddy' \in {caddy, routes}
  BY DEF AbandonDeploy
<1>2. HolderTypeOK' /\ HolderOK'
  BY <1>1 DEF IInv, TypeOK, HolderTypeOK, HolderOK, DeploySteps, SwapSteps, UndoSteps, RemoveSteps
<1>3. EdgeTypeOK'
  BY <1>1 DEF IInv, TypeOK, WorldTypeOK, EdgeTypeOK
<1>4. CASE rows' = rows
  BY <1>1, <1>2, <1>3, <1>4, UnchangedConts, RowsUnchanged DEF IInv, TypeOK
<1>5. CASE rows' = Append(rows, row)
  <2>1. row \in Row
    BY DEF NewRow, Row, Status, Spec0
  <2>2. SeqSet(row.reps) = {}
    BY DEF NewRow, SeqSet
  <2> QED  BY <1>1, <1>2, <1>3, <1>5, <2>1, <2>2, RowAppended DEF IInv, TypeOK
<1> QED  BY <1>4, <1>5 DEF AbandonDeploy

\* The holder goes on to another step of its deploy.
LEMMA DeployGoesOn ==
  ASSUME IInv, pc \in DeploySteps, pc' \in DeploySteps \ {"run", "status"},
         UNCHANGED <<rows, job, asked>>, ContsKept, EdgeTypeOK'
  PROVE  IInv'
<1>1. WorldTypeOK' /\ AskedTypeOK'
  BY RowsUnchanged DEF IInv, TypeOK
<1>2. CandidateOK'
  BY CandidateKept DEF IInv, HolderOK
<1>3. HolderTypeOK'
  BY DEF IInv, TypeOK, HolderTypeOK, DeploySteps, SwapSteps, UndoSteps
<1>4. HolderOK'
  BY <1>2 DEF HolderOK, DeploySteps, SwapSteps, UndoSteps, RemoveSteps
<1> QED  BY <1>1, <1>3, <1>4 DEF IInv, TypeOK

\* The operation is over.
LEMMA OperationEnds ==
  ASSUME WorldTypeOK', AskedTypeOK', Done
  PROVE  IInv'
<1>1. HolderTypeOK'
  BY DEF Done, HolderTypeOK
<1>2. HolderOK'
  BY DEF Done, HolderOK, DeploySteps, SwapSteps, UndoSteps, RemoveSteps
<1> QED  BY <1>1, <1>2 DEF IInv, TypeOK

\* A spec that is, but for its node, its version and a count asked for, one that
\* is submitted now or recorded.
Known(sp) ==
  \E t \in Specs \cup {rows[i].spec : i \in RowIds} :
    sp.app = t.app /\ sp.dom = t.dom /\ sp.gate = t.gate /\ sp.count \in {t.count} \cup Counts

\* The spec a request deploys, wherever it comes from.
LEMMA RequestCases ==
  ASSUME IInv, Request
  PROVE  \/ \E a \in Apps : AskRollback(a) \/ BeginRemove(a) \/ \E n \in Counts : AskScale(a, n)
         \/ \E s \in Spec0, sched \in BOOLEAN :
              /\ Known(s) /\ pc = "idle" /\ asked' \subseteq asked
              /\ StartDeploy(s, sched) \/ AbandonDeploy(s, sched)
<1> DEFINE Begins == \E s \in Spec0, sched \in BOOLEAN :
                       /\ Known(s) /\ pc = "idle" /\ asked' \subseteq asked
                       /\ StartDeploy(s, sched) \/ AbandonDeploy(s, sched)
<1>1. ASSUME NEW s \in Specs, BeginApply(s) PROVE Begins
  <2>1. s \in Spec0 /\ (s.node = AnyNode) \in BOOLEAN /\ asked' \subseteq asked
    BY <1>1, SpecsAssumption DEF BeginApply
  <2>2. Known(s)  BY DEF Known
  <2> QED  BY <1>1, <2>1, <2>2 DEF BeginApply
<1>2. ASSUME NEW q \in asked PROVE q \in Ask /\ rows[q.row] \in Row /\ q.row \in RowIds
  BY DEF IInv, TypeOK, WorldTypeOK, AskedTypeOK, RowIds
<1>3. ASSUME NEW q \in asked, BeginRollback(q) PROVE Begins
  <2> DEFINE s == rows[q.row].spec
  <2>1. s \in Spec0 /\ rows[q.row].sched \in BOOLEAN /\ asked' \subseteq asked
    BY <1>2, <1>3 DEF BeginRollback, Row
  <2>2. Known(s)  BY <1>2 DEF Known
  <2> QED  BY <1>3, <2>1, <2>2 DEF BeginRollback
<1>4. ASSUME NEW q \in asked, BeginScale(q) PROVE Begins
  <2> DEFINE z == ScaledSpec(q)
  <2>1. q.count \in Nat \ {0} /\ rows[q.row].spec \in Spec0
    BY <1>2, <1>4, SpecsAssumption DEF BeginScale, Ask, Row
  <2>2. z \in Spec0  BY <2>1 DEF ScaledSpec, Spec0
  <2>3. z.app = rows[q.row].spec.app /\ z.dom = rows[q.row].spec.dom
        /\ z.gate = rows[q.row].spec.gate /\ z.count \in Counts
    <3>1. q.count \in Counts
      BY <1>2, <1>4 DEF BeginScale, Ask
    <3> QED  BY <2>1, <3>1 DEF ScaledSpec, Spec0
  <2>4. PICK s \in Rebuilds(z) : \/ StartDeploy(s, s.node = AnyNode)
                                 \/ AbandonDeploy(s, s.node = AnyNode)
    BY <1>4 DEF BeginScale
  <2> HIDE DEF z
  <2>5. s \in Spec0 /\ s.app = z.app /\ s.dom = z.dom /\ s.gate = z.gate /\ s.count = z.count
    BY <2>2, <2>4, SpecsAssumption DEF Rebuilds, Spec0
  <2>6. Known(s)  BY <1>2, <2>3, <2>5 DEF Known
  <2>7. pc = "idle" /\ asked' \subseteq asked /\ (s.node = AnyNode) \in BOOLEAN
    BY <1>4 DEF BeginScale
  <2> QED  BY <2>4, <2>5, <2>6, <2>7
<1> QED  BY <1>1, <1>3, <1>4 DEF Request

\* A step of the holder takes place while it has a job.
LEMMA JobTyped ==
  ASSUME IInv, pc # "idle" PROVE job \in Job
BY DEF IInv, TypeOK, HolderTypeOK

\* A started container is the candidate's next replica.
LEMMA NextReplicaTyped ==
  ASSUME IInv, pc = "run", NEW ready \in BOOLEAN
  PROVE  NewContainer(job.app, job.tgt[NextReplica], job.id, ReplicaIdx, ready) \in Container
<1>1. job \in Job  BY JobTyped
<1>2. CandidateOK /\ Len(job.new) < job.spec.count
  BY DEF IInv, HolderOK, DeploySteps
<1>3. /\ job.new \in Seq(Nat) /\ job.tgt \in Seq(Nodes) /\ job.spec.count \in Nat
      /\ job.app \in Apps /\ job.id \in Nat
  BY <1>1 DEF Job, Spec0
<1>4. Len(job.new) \in Nat  BY <1>3
<1>5. NextReplica \in 1..job.spec.count
  BY <1>2, <1>3, <1>4 DEF NextReplica
<1>6. job.tgt[NextReplica] \in Nodes
  BY <1>2, <1>3, <1>5, LenProperties DEF CandidateOK
<1>7. ReplicaIdx \in Nat
  BY <1>5, <1>3 DEF ReplicaIdx
<1> QED  BY <1>3, <1>6, <1>7 DEF NewContainer, Container, ContState

\* The candidate with one replica more.
LEMMA CandidateGrows ==
  ASSUME IInv, pc = "run", StartContainer, UNCHANGED rows,
         job' = [job EXCEPT !.new = Append(@, Len(conts) + 1)]
  PROVE  job' \in Job /\ CandidateOK' /\ ContsKept /\ Len(job'.new) = NextReplica
         /\ job'.spec = job.spec
<1>1. PICK ready \in BOOLEAN :
        conts' = Append(conts, NewContainer(job.app, job.tgt[NextReplica], job.id,
                                            ReplicaIdx, ready))
  BY DEF StartContainer
<1> DEFINE k == NewContainer(job.app, job.tgt[NextReplica], job.id, ReplicaIdx, ready)
<1>2. k \in Container  BY NextReplicaTyped
<1>3. k.app = job.app /\ k.dep = job.id  BY DEF NewContainer
<1>4. WorldTypeOK /\ conts \in Seq(Container)  BY DEF IInv, TypeOK, WorldTypeOK
<1>5. job \in Job /\ CandidateOK
  BY JobTyped DEF IInv, HolderOK, DeploySteps
<1>6. job.new \in Seq(Nat)  BY <1>5 DEF Job
<1> HIDE DEF k
<1>7. /\ ContsKept /\ Len(conts) + 1 \in ContIds' /\ conts'[Len(conts) + 1] = k
  BY <1>1, <1>2, <1>4, AppendConts, ContainersAppended DEF k
<1> DEFINE c0 == Len(conts) + 1
<1>8. c0 \in Nat  BY <1>4
<1> HIDE DEF c0
<1>9. job' = [job EXCEPT !.new = Append(job.new, c0)]
  BY DEF c0
<1>10. Append(job.new, c0) \in Seq(Nat) /\ Len(Append(job.new, c0)) = Len(job.new) + 1
       /\ SeqSet(Append(job.new, c0)) = SeqSet(job.new) \cup {c0}
  <2>1. /\ Append(job.new, c0) \in Seq(Nat) /\ Len(Append(job.new, c0)) = Len(job.new) + 1
        /\ \A i \in 1..Len(job.new) : Append(job.new, c0)[i] = job.new[i]
        /\ Append(job.new, c0)[Len(job.new) + 1] = c0
        /\ DOMAIN Append(job.new, c0) = 1..(Len(job.new) + 1)
        /\ DOMAIN job.new = 1..Len(job.new) /\ Len(job.new) \in Nat
    BY <1>6, <1>8
  <2>2. 1..(Len(job.new) + 1) = 1..Len(job.new) \cup {Len(job.new) + 1}
    BY <2>1
  <2> QED  BY <2>1, <2>2 DEF SeqSet
<1>11. /\ job' \in Job /\ job'.new = Append(job.new, c0)
       /\ job'.app = job.app /\ job'.spec = job.spec /\ job'.id = job.id /\ job'.tgt = job.tgt
  BY <1>5, <1>9, <1>10 DEF Job
<1>12. CandidateOK'
  <2> SUFFICES ASSUME NEW c \in SeqSet(job'.new)
               PROVE  c \in ContIds' /\ conts'[c].dep = job.id /\ conts'[c].app = job.app
    BY <1>5, <1>11 DEF CandidateOK, NextDeployID
  <2>1. CASE c \in SeqSet(job.new)
    BY <2>1, <1>5, <1>7 DEF CandidateOK, ContsKept
  <2>2. CASE c = c0
    BY <2>2, <1>3, <1>7 DEF c0
  <2> QED  BY <1>10, <1>11, <2>1, <2>2
<1> QED  BY <1>7, <1>10, <1>11, <1>12 DEF NextReplica

LEMMA RunReplicaStep ==
  ASSUME IInv, RunReplica PROVE IInv'
<1>1. /\ pc = "run" /\ UNCHANGED <<rows, edge, asked>>
      /\ pc' = IF NextReplica = job.spec.count THEN "stage" ELSE "run"
  BY DEF RunReplica
<1>2. job' \in Job /\ CandidateOK' /\ ContsKept /\ Len(job'.new) = NextReplica
      /\ job'.spec = job.spec
  BY CandidateGrows DEF RunReplica
<1>3. WorldTypeOK' /\ AskedTypeOK'
  BY <1>1, <1>2, EdgeUnchanged, RowsUnchanged DEF IInv, TypeOK
<1>4. HolderTypeOK'
  BY <1>1, <1>2 DEF HolderTypeOK, DeploySteps
<1>5. HolderOK'
  <2>1. NextReplica <= job.spec.count
    <3>1. job.spec.count \in Nat /\ job.new \in Seq(Nat) /\ Len(job.new) < job.spec.count
      BY <1>1, JobTyped DEF IInv, HolderOK, Job, Spec0
    <3> QED  BY <3>1 DEF NextReplica
  <2>2. job.spec.count \in Nat /\ NextReplica \in Nat
    BY <1>1, JobTyped DEF Job, Spec0, NextReplica
  <2> QED  BY <1>1, <1>2, <2>1, <2>2 DEF HolderOK, RemoveSteps
<1> QED  BY <1>3, <1>4, <1>5 DEF IInv, TypeOK

LEMMA RunReplicaFailsStep ==
  ASSUME IInv, RunReplicaFails PROVE IInv'
<1>1. pc = "run" /\ pc' = "undo" /\ UNCHANGED <<rows, edge, asked>>
  BY DEF RunReplicaFails
<1>2. WorldTypeOK /\ EdgeTypeOK'
  BY <1>1, EdgeUnchanged DEF IInv, TypeOK
<1>3. CASE UNCHANGED <<conts, job>>
  BY <1>1, <1>2, <1>3, UnchangedConts, DeployGoesOn DEF DeploySteps, SwapSteps, UndoSteps
<1>4. CASE StartContainer /\ UNCHANGED job
  <2>1. ContsKept
    BY <1>1, <1>2, <1>4, NextReplicaTyped, AppendConts DEF StartContainer
  <2> QED  BY <1>1, <1>2, <1>4, <2>1, DeployGoesOn DEF DeploySteps, SwapSteps, UndoSteps
<1>5. CASE StartContainer /\ job' = [job EXCEPT !.new = Append(@, Len(conts) + 1)]
  <2>1. job' \in Job /\ CandidateOK' /\ ContsKept
    BY <1>1, <1>5, CandidateGrows
  <2>2. WorldTypeOK' /\ AskedTypeOK'
    BY <1>1, <1>2, <2>1, RowsUnchanged DEF IInv, TypeOK
  <2>3. HolderTypeOK' /\ HolderOK'
    BY <1>1, <2>1 DEF HolderTypeOK, HolderOK, DeploySteps, SwapSteps, UndoSteps, RemoveSteps
  <2> QED  BY <2>2, <2>3 DEF IInv, TypeOK
<1> QED  BY <1>3, <1>4, <1>5 DEF RunReplicaFails

\* The tables a deploy or a removal posts.
LEMMA PostedTyped ==
  ASSUME IInv, pc # "idle"
  PROVE  /\ routes \in [Domains -> SUBSET Upstream]
         /\ stage \cup {job.id} \in SUBSET Nat /\ stage \ {job.id} \in SUBSET Nat
         /\ pc \in DeploySteps => Flipped \in [Domains -> SUBSET Upstream]
<1>1. job \in Job  BY JobTyped
<1>2. WorldTypeOK  BY DEF IInv, TypeOK
<1>3. ASSUME pc \in DeploySteps PROVE Flipped \in [Domains -> SUBSET Upstream]
  <2>1. SeqSet(job.new) \subseteq ContIds
    BY <1>3 DEF IInv, HolderOK, CandidateOK
  <2>2. Upstreams(job.new) \subseteq Upstream
    BY <1>2, <2>1, UpstreamsType DEF WorldTypeOK
  <2> QED  BY <1>2, <2>2 DEF Flipped, WorldTypeOK
<1> QED  BY <1>1, <1>2, <1>3 DEF WorldTypeOK, Job

LEMMA SetStagingStep ==
  ASSUME IInv, SetStaging PROVE IInv'
<1>1. /\ pc = "stage" /\ pc' \in {"gate", "undo"} /\ UNCHANGED <<rows, conts, job, asked>>
      /\ \/ Applied(routes, stage \cup {job.id}) \/ Rejected \/ AppliedUnknown(routes)
  BY DEF SetStaging, Goto
<1>2. WorldTypeOK /\ ContsKept
  BY <1>1, UnchangedConts DEF IInv, TypeOK
<1>3. EdgeTypeOK'
  BY <1>1, <1>2, PostedTyped, EdgeTyped
<1> QED  BY <1>1, <1>2, <1>3, DeployGoesOn DEF DeploySteps, SwapSteps, UndoSteps

LEMMA HealthGateStep ==
  ASSUME IInv, HealthGate PROVE IInv'
<1>1. pc = "gate" /\ pc' \in {"flip", "undo"} /\ UNCHANGED <<rows, conts, job, asked, edge>>
  BY DEF HealthGate, Goto, world, edge
<1>2. WorldTypeOK /\ ContsKept /\ EdgeTypeOK'
  BY <1>1, UnchangedConts, EdgeUnchanged DEF IInv, TypeOK
<1> QED  BY <1>1, <1>2, DeployGoesOn DEF DeploySteps, SwapSteps, UndoSteps

LEMMA FlipStep ==
  ASSUME IInv, Flip PROVE IInv'
<1>1. /\ pc = "flip" /\ pc' \in {"unstage", "undo"} /\ UNCHANGED <<rows, conts, job, asked>>
      /\ \/ Applied(Flipped, stage) \/ Rejected \/ AppliedUnknown(Flipped)
  BY DEF Flip, Goto
<1>2. WorldTypeOK /\ ContsKept /\ stage \in SUBSET Nat
  BY <1>1, UnchangedConts DEF IInv, TypeOK, WorldTypeOK
<1>3. EdgeTypeOK'
  BY <1>1, <1>2, PostedTyped, EdgeTyped DEF DeploySteps
<1> QED  BY <1>1, <1>2, <1>3, DeployGoesOn DEF DeploySteps, SwapSteps, UndoSteps

LEMMA DropStagingStep ==
  ASSUME IInv, RemoveStaging \/ UndoStaging PROVE IInv'
<1>1. /\ pc \in {"unstage", "undo"} /\ pc' \in {"retire", "discard"}
      /\ UNCHANGED <<rows, conts, job, asked>>
      /\ BestEffort(routes, stage \ {job.id})
  BY DEF RemoveStaging, UndoStaging, Goto
<1>2. WorldTypeOK /\ ContsKept
  BY <1>1, UnchangedConts DEF IInv, TypeOK
<1>3. EdgeTypeOK'
  BY <1>1, <1>2, PostedTyped, BestEffortTyped
<1> QED  BY <1>1, <1>2, <1>3, DeployGoesOn DEF DeploySteps, SwapSteps, UndoSteps

LEMMA DiscardStep ==
  ASSUME IInv, Discard PROVE IInv'
<1>1. pc = "discard" /\ pc' = "fail" /\ UNCHANGED <<rows, job, asked, edge>>
  BY DEF Discard, Goto
<1>2. WorldTypeOK /\ ContsKept /\ EdgeTypeOK'
  BY <1>1, RemoveEachConts, EdgeUnchanged DEF IInv, TypeOK, Discard
<1> QED  BY <1>1, <1>2, DeployGoesOn DEF DeploySteps, SwapSteps, UndoSteps

LEMMA RetireOldSetStep ==
  ASSUME IInv, RetireOldSet PROVE IInv'
<1>1. /\ pc = "retire" /\ UNCHANGED <<rows, job, asked, edge>>
      /\ \/ pc' = "record" /\ UNCHANGED conts
         \/ /\ pc' = "status" /\ CurrentDeployment(job.app) # 0
            /\ RemoveEach(SeqSet(rows[CurrentDeployment(job.app)].reps))
  BY DEF RetireOldSet, Goto
<1>2. WorldTypeOK /\ EdgeTypeOK' /\ ContsKept
  BY <1>1, UnchangedConts, RemoveEachConts, EdgeUnchanged DEF IInv, TypeOK
<1>3. CASE pc' = "record"
  BY <1>1, <1>2, <1>3, DeployGoesOn DEF DeploySteps, SwapSteps, UndoSteps
<1>4. CASE pc' = "status" /\ CurrentDeployment(job.app) # 0
  <2>1. WithStatus(job.app, "running") # {}
    BY <1>2, <1>4, CurrentRow
  <2>2. (WithStatus(job.app, "running") # {})'
    BY <1>1, <2>1 DEF WithStatus, RowIds
  <2>3. CandidateOK'
    BY <1>1, <1>2, CandidateKept DEF IInv, HolderOK, DeploySteps, SwapSteps
  <2>4. HolderOK'
    BY <1>4, <2>2, <2>3 DEF HolderOK, RemoveSteps
  <2>5. HolderTypeOK'
    BY <1>1, <1>4, JobTyped DEF HolderTypeOK, DeploySteps, SwapSteps
  <2>6. WorldTypeOK' /\ AskedTypeOK'
    BY <1>1, <1>2, RowsUnchanged DEF IInv, TypeOK
  <2> QED  BY <2>4, <2>5, <2>6 DEF IInv, TypeOK
<1> QED  BY <1>1, <1>3, <1>4

LEMMA RetireOldRowStep ==
  ASSUME IInv, RetireOldRow PROVE IInv'
<1>1. /\ pc = "status" /\ pc' = "record" /\ UNCHANGED <<conts, job, asked, edge>>
      /\ \/ SetStatus(CurrentDeployment(job.app), "retired") \/ UNCHANGED rows
  BY DEF RetireOldRow, Goto
<1>2. WorldTypeOK /\ EdgeTypeOK' /\ ContsKept
  BY <1>1, UnchangedConts, EdgeUnchanged DEF IInv, TypeOK
<1>3. CASE UNCHANGED rows
  BY <1>1, <1>2, <1>3, DeployGoesOn DEF DeploySteps, SwapSteps, UndoSteps
<1>4. CASE SetStatus(CurrentDeployment(job.app), "retired")
  <2>1. CurrentDeployment(job.app) \in RowIds
    <3>1. WithStatus(job.app, "running") # {}  BY <1>1 DEF IInv, HolderOK
    <3>2. CurrentDeployment(job.app) # 0  BY <1>2, <3>1, NoCurrentRow
    <3> QED  BY <1>2, <3>2, CurrentRow
  <2>2. WorldTypeOK' /\ AskedTypeOK' /\ Len(rows') = Len(rows)
    BY <1>1, <1>2, <1>4, <2>1, StatusSet DEF IInv, TypeOK, Status
  <2>3. HolderTypeOK'
    BY <1>1, JobTyped DEF HolderTypeOK, DeploySteps, SwapSteps
  <2>4. CandidateOK
    BY <1>1 DEF IInv, HolderOK, DeploySteps, SwapSteps
  <2>5. CandidateOK'
    BY <1>1, <2>2, <2>4 DEF CandidateOK, NextDeployID, ContIds
  <2>6. HolderOK'
    BY <1>1, <2>5 DEF HolderOK, RemoveSteps
  <2> QED  BY <2>2, <2>3, <2>6 DEF IInv, TypeOK
<1> QED  BY <1>1, <1>3, <1>4

\* A row is recorded, or the store refuses it.
LEMMA RecordStep ==
  ASSUME IInv, RecordRunning \/ RecordFailed PROVE IInv'
<1>1. /\ pc \in {"record", "fail"} /\ Done /\ UNCHANGED <<conts, asked, edge>>
      /\ \/ rows' = Append(rows, NewRow("running", job.spec, job.sched, job.new))
         \/ rows' = Append(rows, NewRow("failed", job.spec, FALSE, <<>>))
         \/ UNCHANGED rows
  BY DEF RecordRunning, RecordFailed, RecordDeployment
<1>2. WorldTypeOK /\ EdgeTypeOK' /\ ContsKept
  BY <1>1, UnchangedConts, EdgeUnchanged DEF IInv, TypeOK
<1>3. job \in Job /\ CandidateOK
  BY <1>1, JobTyped DEF IInv, HolderOK, DeploySteps, SwapSteps, UndoSteps
<1>4. WorldTypeOK' /\ AskedTypeOK'
  <2>1. CASE UNCHANGED rows
    BY <1>1, <1>2, <2>1, RowsUnchanged DEF IInv, TypeOK
  <2>2. CASE rows' = Append(rows, NewRow("running", job.spec, job.sched, job.new))
    <3> DEFINE row == NewRow("running", job.spec, job.sched, job.new)
    <3>1. row \in Row /\ row.reps = job.new /\ row.app = job.spec.app
      BY <1>3 DEF NewRow, Row, Status, Job, Spec0
    <3>2. SeqSet(row.reps) \subseteq ContIds
      BY <1>3, <3>1 DEF CandidateOK
    <3> HIDE DEF row
    <3>3. rows' = Append(rows, row)  BY <2>2 DEF row
    <3> QED  BY <1>1, <1>2, <3>1, <3>2, <3>3, RowAppended DEF IInv, TypeOK
  <2>3. CASE rows' = Append(rows, NewRow("failed", job.spec, FALSE, <<>>))
    <3> DEFINE row == NewRow("failed", job.spec, FALSE, <<>>)
    <3>1. row \in Row /\ SeqSet(row.reps) = {}
      BY <1>3 DEF NewRow, Row, Status, Job, Spec0, SeqSet
    <3> HIDE DEF row
    <3>2. rows' = Append(rows, row)  BY <2>3 DEF row
    <3> QED  BY <1>1, <1>2, <3>1, <3>2, RowAppended DEF IInv, TypeOK
  <2> QED  BY <1>1, <2>1, <2>2, <2>3
<1> QED  BY <1>1, <1>4, OperationEnds

LEMMA BeginRemoveStep ==
  ASSUME IInv, NEW a \in Apps, BeginRemove(a) PROVE IInv'
<1>1. PICK s \in Specs :
        job' = [app |-> a, spec |-> s, sched |-> FALSE, id |-> 0, tgt |-> <<>>,
                new |-> <<>>, row |-> CurrentDeployment(a), live |-> TRUE]
  BY DEF BeginRemove
<1>2. pc' = "rmconts" /\ UNCHANGED <<rows, conts, edge, asked>>
  BY DEF BeginRemove, world, edge
<1>3. WorldTypeOK /\ ContsKept /\ EdgeTypeOK'
  BY <1>2, UnchangedConts, EdgeUnchanged DEF IInv, TypeOK
<1>4. WorldTypeOK' /\ AskedTypeOK'
  BY <1>2, <1>3, RowsUnchanged DEF IInv, TypeOK
<1>5. CurrentDeployment(a) \in Nat
  BY <1>3, CurrentTyped
<1>6. job' \in Job
  <2>1. s \in Spec0  BY SpecsAssumption
  <2> QED  BY <1>1, <1>5, <2>1 DEF Job
<1>7. HolderTypeOK'
  BY <1>2, <1>6 DEF HolderTypeOK, RemoveSteps
<1>8. job'.row # 0 => job'.row \in WithStatus(job'.app, "running")
  BY <1>1, <1>3, CurrentRow
<1>9. HolderOK'
  BY <1>2, <1>8 DEF HolderOK, DeploySteps, SwapSteps, UndoSteps, RemoveSteps, WithStatus, RowIds
<1> QED  BY <1>4, <1>7, <1>9 DEF IInv, TypeOK

\* The holder goes on to another step of its removal.
LEMMA RemovalGoesOn ==
  ASSUME IInv, pc \in RemoveSteps, pc' \in RemoveSteps, job.row # 0,
         UNCHANGED <<rows, job, asked>>, ContsKept, EdgeTypeOK'
  PROVE  IInv'
<1>1. WorldTypeOK' /\ AskedTypeOK'
  BY RowsUnchanged DEF IInv, TypeOK
<1>2. HolderTypeOK'
  BY DEF IInv, TypeOK, HolderTypeOK, RemoveSteps
<1>3. HolderOK'
  BY DEF IInv, HolderOK, DeploySteps, SwapSteps, UndoSteps, RemoveSteps, WithStatus, RowIds
<1> QED  BY <1>1, <1>2, <1>3 DEF IInv, TypeOK

LEMMA RemoveContainersStep ==
  ASSUME IInv, RemoveContainers PROVE IInv'
<1>1. pc = "rmconts" /\ UNCHANGED <<rows, asked, edge>>
  BY DEF RemoveContainers
<1>2. WorldTypeOK /\ EdgeTypeOK'
  BY <1>1, EdgeUnchanged DEF IInv, TypeOK
<1>3. ContsKept
  BY <1>2, RemoveConts, RemoveEachConts DEF RemoveContainers
<1>4. WorldTypeOK' /\ AskedTypeOK'
  BY <1>1, <1>2, <1>3, RowsUnchanged DEF IInv, TypeOK
<1>5. CASE Done
  BY <1>4, <1>5, OperationEnds
<1>6. CASE job.row # 0 /\ Goto("rmroute")
  BY <1>1, <1>2, <1>3, <1>6, RemovalGoesOn DEF Goto, RemoveSteps
<1> QED  BY <1>5, <1>6 DEF RemoveContainers

LEMMA RemoveRouteStep ==
  ASSUME IInv, RemoveRoute PROVE IInv'
<1> DEFINE d == rows[job.row].spec.dom
<1>1. pc = "rmroute" /\ pc' = "rmstatus" /\ UNCHANGED <<rows, conts, job, asked>>
  BY DEF RemoveRoute, Goto
<1>2. WorldTypeOK /\ ContsKept
  BY <1>1, UnchangedConts DEF IInv, TypeOK
<1>3. job.row # 0 /\ job.row \in RowIds
  BY <1>1 DEF IInv, HolderOK, RemoveSteps, WithStatus
<1>4. UNCHANGED edge \/ BestEffort([routes EXCEPT ![d] = {}], stage)
  BY DEF RemoveRoute
<1>5. [routes EXCEPT ![d] = {}] \in [Domains -> SUBSET Upstream] /\ stage \in SUBSET Nat
  BY <1>2 DEF WorldTypeOK
<1>6. EdgeTypeOK'
  BY <1>2, <1>4, <1>5, EdgeUnchanged, BestEffortTyped
<1> QED  BY <1>1, <1>2, <1>3, <1>6, RemovalGoesOn DEF RemoveSteps

LEMMA RetireRemovedStep ==
  ASSUME IInv, RetireRemoved PROVE IInv'
<1>1. /\ pc = "rmstatus" /\ Done /\ UNCHANGED <<conts, asked, edge>>
      /\ SetStatus(job.row, "retired") \/ UNCHANGED rows
  BY DEF RetireRemoved
<1>2. WorldTypeOK /\ EdgeTypeOK' /\ ContsKept
  BY <1>1, UnchangedConts, EdgeUnchanged DEF IInv, TypeOK
<1>3. job.row \in RowIds
  BY <1>1 DEF IInv, HolderOK, RemoveSteps, WithStatus
<1>4. WorldTypeOK' /\ AskedTypeOK'
  <2>1. CASE UNCHANGED rows
    BY <1>1, <1>2, <2>1, RowsUnchanged DEF IInv, TypeOK
  <2>2. CASE SetStatus(job.row, "retired")
    BY <1>1, <1>2, <1>3, <2>2, StatusSet DEF IInv, TypeOK, Status
  <2> QED  BY <1>1, <2>1, <2>2
<1> QED  BY <1>1, <1>4, OperationEnds

-----------------------------------------------------------------------------
(* The environment *)

LEMMA CancelStep ==
  ASSUME IInv, Cancel PROVE IInv'
<1>1. pc # "idle" /\ job' = [job EXCEPT !.live = FALSE] /\ UNCHANGED <<rows, conts, edge, pc, asked>>
  BY DEF Cancel, world, edge
<1>2. job \in Job  BY <1>1, JobTyped
<1>3. /\ job' \in Job /\ job'.app = job.app /\ job'.spec = job.spec /\ job'.id = job.id
      /\ job'.tgt = job.tgt /\ job'.new = job.new /\ job'.row = job.row
  BY <1>1, <1>2 DEF Job
<1>4. WorldTypeOK' /\ AskedTypeOK'
  BY <1>1, UnchangedConts, EdgeUnchanged, RowsUnchanged DEF IInv, TypeOK
<1>5. HolderTypeOK'
  BY <1>1, <1>3 DEF IInv, TypeOK, HolderTypeOK
<1>6. HolderOK'
  BY <1>1, <1>3 DEF IInv, HolderOK, CandidateOK, NextDeployID, WithStatus, RowIds, ContIds
<1> QED  BY <1>4, <1>5, <1>6 DEF IInv, TypeOK

LEMMA InitialRoutesTyped ==
  ASSUME WorldTypeOK PROVE InitialRoutes \in [Domains -> SUBSET Upstream]
<1> SUFFICES ASSUME NEW d \in Domains PROVE RouteFromStore(d) \in SUBSET Upstream
  BY DEF InitialRoutes
<1> DEFINE claimants == {a \in Apps : Claims(a, d)}
           a == CHOOSE b \in claimants : TRUE
<1>1. CASE d = NoDomain \/ claimants = {}
  BY <1>1 DEF RouteFromStore
<1>2. CASE ~(d = NoDomain \/ claimants = {})
  <2>1. a \in claimants  BY <1>2
  <2>2. CurrentDeployment(a) \in RowIds
    BY <2>1, CurrentRow DEF Claims
  <2>3. SeqSet(rows[CurrentDeployment(a)].reps) \subseteq ContIds
    BY <2>2 DEF WorldTypeOK
  <2>4. Upstreams(rows[CurrentDeployment(a)].reps) \subseteq Upstream
    BY <2>3, UpstreamsType DEF WorldTypeOK
  <2> QED  BY <1>2, <2>4 DEF RouteFromStore
<1> QED  BY <1>1, <1>2

LEMMA CrashRestartStep ==
  ASSUME IInv, CrashRestart PROVE IInv'
<1>1. /\ Applied(InitialRoutes, {}) \/ Applied(NoRoutes, {})
      /\ Done /\ asked' = {} /\ UNCHANGED <<rows, conts>>
  BY DEF CrashRestart
<1>2. WorldTypeOK /\ ContsKept
  BY <1>1, UnchangedConts DEF IInv, TypeOK
<1>3. EdgeTypeOK'
  <2>1. {} \in SUBSET Nat  OBVIOUS
  <2>2. NoRoutes \in [Domains -> SUBSET Upstream]  BY DEF NoRoutes
  <2> QED  BY <1>1, <1>2, <2>1, <2>2, InitialRoutesTyped, EdgeTyped
<1>4. WorldTypeOK' /\ AskedTypeOK'
  BY <1>1, <1>2, <1>3, RowsUnchanged DEF IInv, TypeOK
<1> QED  BY <1>1, <1>4, OperationEnds

LEMMA DeadConts ==
  ASSUME WorldTypeOK, NEW c \in ContIds, conts' = [conts EXCEPT ![c].state = "dead"]
  PROVE  ContsKept
<1>1. conts \in Seq(Container) /\ c \in 1..Len(conts) /\ conts[c] \in Container
  BY DEF WorldTypeOK, ContIds
<1> DEFINE k == [conts[c] EXCEPT !.state = "dead"]
<1>2. /\ k \in Container /\ k.app = conts[c].app /\ k.dep = conts[c].dep
      /\ k.node = conts[c].node /\ k.idx = conts[c].idx
  BY <1>1 DEF Container, ContState
<1>3. conts' = [conts EXCEPT ![c] = k]
  OBVIOUS
<1> HIDE DEF k
<1>4. /\ conts' \in Seq(Container) /\ Len(conts') = Len(conts)
      /\ \A j \in 1..Len(conts) : conts'[j] = IF j = c THEN k ELSE conts[j]
  BY <1>1, <1>2, <1>3, ExceptSeq
<1> QED  BY <1>1, <1>2, <1>4 DEF ContsKept, ContIds

LEMMA DieStep ==
  ASSUME IInv, NEW c \in ContIds, Die(c) PROVE IInv'
<1>1. UNCHANGED <<rows, edge, pc, job, asked>>
  BY DEF Die
<1>2. WorldTypeOK /\ ContsKept /\ EdgeTypeOK'
  BY <1>1, DeadConts, EdgeUnchanged DEF IInv, TypeOK, Die
<1>3. WorldTypeOK' /\ AskedTypeOK'
  BY <1>1, <1>2, RowsUnchanged DEF IInv, TypeOK
<1>4. HolderTypeOK'
  BY <1>1 DEF IInv, TypeOK, HolderTypeOK
<1>5. HolderOK'
  <2>1. CandidateOK => CandidateOK'
    BY <1>1, <1>2, CandidateKept
  <2> QED  BY <1>1, <2>1 DEF IInv, HolderOK, WithStatus, RowIds
<1> QED  BY <1>3, <1>4, <1>5 DEF IInv, TypeOK

LEMMA InitIInv == Init => IInv
<1> SUFFICES ASSUME Init PROVE IInv
  OBVIOUS
<1>1. rows = <<>> /\ conts = <<>> /\ routes = NoRoutes /\ stage = {} /\ caddy = NoRoutes
      /\ pc = "idle" /\ job = NoJob /\ asked = {}
  BY DEF Init, WorldInit
<1>2. WorldTypeOK
  BY <1>1 DEF WorldTypeOK, NoRoutes, RowIds
<1>3. HolderTypeOK /\ AskedTypeOK
  BY <1>1 DEF HolderTypeOK, AskedTypeOK
<1>4. HolderOK
  BY <1>1 DEF HolderOK, DeploySteps, SwapSteps, UndoSteps, RemoveSteps
<1> QED  BY <1>2, <1>3, <1>4 DEF IInv, TypeOK

LEMMA StutterIInv == ASSUME IInv, UNCHANGED vars PROVE IInv'
<1>1. UNCHANGED <<world, pc, job>> /\ asked' = asked /\ rows' = rows
  BY DEF vars, world
<1>2. AskedTypeOK'
  BY <1>1 DEF IInv, TypeOK, AskedTypeOK, RowIds
<1> QED  BY <1>1, <1>2, AskKept

LEMMA NextIInv == IInv /\ [Next]_vars => IInv'
<1> SUFFICES ASSUME IInv, [Next]_vars PROVE IInv'
  OBVIOUS
<1>1. CASE Request
  BY <1>1, RequestCases, AskRollbackStep, AskScaleStep, BeginRemoveStep, StartDeployStep,
     AbandonDeployStep
<1>2. CASE Deploy
  BY <1>2, RunReplicaStep, RunReplicaFailsStep, SetStagingStep, HealthGateStep, FlipStep,
     DropStagingStep, RetireOldSetStep, RetireOldRowStep, RecordStep, DiscardStep DEF Deploy
<1>3. CASE Remove
  BY <1>3, RemoveContainersStep, RemoveRouteStep, RetireRemovedStep DEF Remove
<1>4. CASE Environment
  BY <1>4, CancelStep, CrashRestartStep, DieStep DEF Environment
<1>5. CASE UNCHANGED vars
  BY <1>5, StutterIInv
<1> QED  BY <1>1, <1>2, <1>3, <1>4, <1>5 DEF Next

\* No step of a deploy or a removal forgets, or renames, a container.
LEMMA DeployKeepsConts ==
  ASSUME IInv, Deploy \/ Remove PROVE ContsKept
<1>1. WorldTypeOK  BY DEF IInv, TypeOK
<1>2. CASE RunReplica \/ RunReplicaFails
  <2>1. CASE StartContainer
    BY <1>1, <1>2, <2>1, NextReplicaTyped, AppendConts
       DEF StartContainer, RunReplica, RunReplicaFails
  <2> QED  BY <1>1, <1>2, <2>1, UnchangedConts DEF RunReplica, RunReplicaFails
<1>3. CASE RetireOldSet \/ Discard
  BY <1>1, <1>3, UnchangedConts, RemoveEachConts DEF RetireOldSet, Discard
<1>4. CASE RemoveContainers
  BY <1>1, <1>4, RemoveConts, RemoveEachConts DEF RemoveContainers
<1>5. CASE SetStaging \/ HealthGate \/ Flip \/ RemoveStaging \/ RetireOldRow \/ RecordRunning
           \/ UndoStaging \/ RecordFailed \/ RemoveRoute \/ RetireRemoved
  BY <1>1, <1>5, UnchangedConts
     DEF SetStaging, HealthGate, Flip, RemoveStaging, RetireOldRow, RecordRunning, UndoStaging,
     RecordFailed, RemoveRoute, RetireRemoved, world
<1> QED  BY <1>2, <1>3, <1>4, <1>5 DEF Deploy, Remove

-----------------------------------------------------------------------------
(* What a step does to the containers *)

\* A container dies or is started, or some are removed: of the row a deploy is
\* about to retire, of its own failed candidate, or of the app that is removed.
LEMMA ContsMove ==
  ASSUME IInv, [Next]_vars
  PROVE  \/ UNCHANGED conts
         \/ \E c \in ContIds : Die(c)
         \/ pc = "run" /\ NameIsFree /\ StartContainer
         \/ \E cs : /\ conts' = WithoutConts(cs)
                    /\ \/ /\ pc = "retire" /\ pc' = "status" /\ UNCHANGED edge
                          /\ CurrentDeployment(job.app) # 0
                          /\ cs \subseteq SeqSet(rows[CurrentDeployment(job.app)].reps)
                       \/ pc = "discard" /\ pc' = "fail" /\ cs \subseteq SeqSet(job.new)
                       \/ pc = "rmconts" /\ cs \subseteq {c \in ContIds : conts[c].app = job.app}
<1>1. CASE Request
  BY <1>1, RequestCases DEF AskRollback, AskScale, BeginRemove, StartDeploy, AbandonDeploy, world
<1>2. CASE RunReplica \/ RunReplicaFails
  BY <1>2 DEF RunReplica, RunReplicaFails
<1>3. CASE RetireOldSet
  <2>1. CASE UNCHANGED conts
    BY <2>1
  <2>2. CASE /\ pc = "retire" /\ pc' = "status" /\ UNCHANGED edge
             /\ CurrentDeployment(job.app) # 0
             /\ RemoveEach(SeqSet(rows[CurrentDeployment(job.app)].reps))
    BY <2>2 DEF RemoveEach
  <2> QED  BY <1>3, <2>1, <2>2 DEF RetireOldSet, Goto
<1>4. CASE Discard
  BY <1>4 DEF Discard, Goto, RemoveEach
<1>5. CASE RemoveContainers
  <2> DEFINE own == {c \in ContIds : conts[c].app = job.app}
  <2>1. Labelled \subseteq own /\ pc = "rmconts"
    BY <1>5 DEF Labelled, RemoveContainers
  <2>2. PICK cs : conts' = WithoutConts(cs) /\ cs \subseteq Labelled
    <3>1. CASE RemoveEach(Labelled)
      BY <3>1 DEF RemoveEach
    <3>2. ASSUME NEW skip, conts' = WithoutConts({c \in Labelled : conts[c].node \notin skip})
          PROVE  \E cs : conts' = WithoutConts(cs) /\ cs \subseteq Labelled
      BY <3>2
    <3> QED  BY <1>5, <3>1, <3>2 DEF RemoveContainers
  <2> HIDE DEF own
  <2> QED  BY <2>1, <2>2 DEF own
<1>6. CASE SetStaging \/ HealthGate \/ Flip \/ RemoveStaging \/ RetireOldRow \/ RecordRunning
           \/ UndoStaging \/ RecordFailed \/ RemoveRoute \/ RetireRemoved
  BY <1>6 DEF SetStaging, HealthGate, Flip, RemoveStaging, RetireOldRow, RecordRunning,
     UndoStaging, RecordFailed, RemoveRoute, RetireRemoved, world
<1>7. CASE Environment \/ UNCHANGED vars
  BY <1>7 DEF Environment, Cancel, CrashRestart, world, vars
<1> QED  BY <1>1, <1>2, <1>3, <1>4, <1>5, <1>6, <1>7 DEF Next, Deploy, Remove

LEMMA NextKeepsConts ==
  ASSUME IInv, [Next]_vars PROVE ContsKept
<1>1. WorldTypeOK  BY DEF IInv, TypeOK
<1>2. CASE pc = "run" /\ StartContainer
  BY <1>1, <1>2, NextReplicaTyped, AppendConts DEF StartContainer
<1>3. CASE \E c \in ContIds : Die(c)
  BY <1>1, <1>3, DeadConts DEF Die
<1> QED  BY <1>1, <1>2, <1>3, ContsMove, UnchangedConts, RemoveConts

-----------------------------------------------------------------------------
(* Names *)

\* An upstream is the address of one container only.
LEMMA UpstreamIsOne ==
  ASSUME NamesUnique, NEW c \in ContIds, NEW d \in ContIds, UpstreamOf(d) = UpstreamOf(c),
         conts[c].state # "gone", conts[d].state # "gone"
  PROVE  d = c
<1>1. UpstreamOf(c).node = conts[c].node /\ UpstreamOf(d).node = conts[d].node
  BY DEF UpstreamOf
<1>2. conts[d].node = conts[c].node
  BY <1>1
<1>3. CASE conts[c].node = Local
  <2>1. /\ UpstreamOf(c) = [app |-> conts[c].app, node |-> Local, dep |-> conts[c].dep,
                            idx |-> conts[c].idx, port |-> 0]
        /\ UpstreamOf(d) = [app |-> conts[d].app, node |-> Local, dep |-> conts[d].dep,
                            idx |-> conts[d].idx, port |-> 0]
    BY <1>2, <1>3 DEF UpstreamOf
  <2>2. conts[d].app = conts[c].app /\ conts[d].dep = conts[c].dep /\ conts[d].idx = conts[c].idx
    BY <2>1
  <2> QED  BY <1>2, <2>2 DEF NamesUnique
<1>4. CASE conts[c].node # Local
  BY <1>2, <1>4 DEF UpstreamOf
<1> QED  BY <1>3, <1>4

\* Two replicas with different indexes have different addresses.
LEMMA IndexesDiffer ==
  ASSUME NEW c \in ContIds, NEW d \in ContIds, conts[c].idx # conts[d].idx
  PROVE  UpstreamOf(c) # UpstreamOf(d)
<1> SUFFICES ASSUME UpstreamOf(c) = UpstreamOf(d) PROVE FALSE
  OBVIOUS
<1>1. conts[d].node = conts[c].node
  <2>1. UpstreamOf(c).node = conts[c].node /\ UpstreamOf(d).node = conts[d].node
    BY DEF UpstreamOf
  <2> QED  BY <2>1
<1>2. CASE conts[c].node = Local
  <2>1. UpstreamOf(c).idx = conts[c].idx /\ UpstreamOf(d).idx = conts[d].idx
    BY <1>1, <1>2 DEF UpstreamOf
  <2> QED  BY <2>1
<1>3. CASE conts[c].node # Local
  <2>1. UpstreamOf(c).port = c /\ UpstreamOf(d).port = d
    BY <1>1, <1>3 DEF UpstreamOf
  <2> QED  BY <2>1
<1> QED  BY <1>2, <1>3

\* Docker gives a container a name that is free.
LEMMA NameGiven ==
  ASSUME WorldTypeOK, NamesUnique, NEW k \in Container, NameFree(k.app, k.node, k.dep, k.idx),
         conts' = Append(conts, k)
  PROVE  NamesUnique'
<1>1. \A c \in ContIds : conts[c].state # "gone" =>
        ~(k.app = conts[c].app /\ k.node = conts[c].node
          /\ k.dep = conts[c].dep /\ k.idx = conts[c].idx)
  BY DEF NameFree
<1>2. \A c \in ContIds' : \/ c \in ContIds /\ conts'[c] = conts[c]
                          \/ c = Len(conts) + 1 /\ conts'[c] = k
  BY DEF WorldTypeOK, ContIds
<1>3. SUFFICES ASSUME NEW c \in ContIds', NEW d \in ContIds',
                      conts'[c].state # "gone", conts'[d].state # "gone",
                      conts'[c].app = conts'[d].app, conts'[c].node = conts'[d].node,
                      conts'[c].dep = conts'[d].dep, conts'[c].idx = conts'[d].idx
               PROVE  c = d
  BY DEF NamesUnique
<1>4. CASE c \in ContIds /\ d \in ContIds /\ conts'[c] = conts[c] /\ conts'[d] = conts[d]
  BY <1>3, <1>4 DEF NamesUnique
<1>5. CASE \/ c \in ContIds /\ conts'[c] = conts[c] /\ conts'[d] = k
           \/ d \in ContIds /\ conts'[d] = conts[d] /\ conts'[c] = k
  BY <1>1, <1>3, <1>5, Zenon
<1>6. CASE c = Len(conts) + 1 /\ d = Len(conts) + 1
  BY <1>6
<1>7. /\ \/ c \in ContIds /\ conts'[c] = conts[c]
         \/ c = Len(conts) + 1 /\ conts'[c] = k
      /\ \/ d \in ContIds /\ conts'[d] = conts[d]
         \/ d = Len(conts) + 1 /\ conts'[d] = k
  BY <1>2, <1>3, Zenon
<1> QED  BY <1>4, <1>5, <1>6, <1>7, Zenon

\* A removed container is gone, another one is what it was.
LEMMA NamesLeft ==
  ASSUME WorldTypeOK, NamesUnique, NEW cs, conts' = WithoutConts(cs) PROVE NamesUnique'
<1>1. conts \in Seq(Container) /\ ContIds' = ContIds
  BY ContainersRemoved DEF WorldTypeOK
<1>2. ASSUME NEW c \in ContIds, conts'[c].state # "gone" PROVE conts'[c] = conts[c]
  <2>1. conts[c] \in Container  BY <1>1 DEF ContIds
  <2> QED  BY <1>2, <2>1 DEF WithoutConts, Container
<1> QED  BY <1>1, <1>2 DEF NamesUnique

\* A container that exits keeps its name, and is there.
LEMMA NamesOfTheDead ==
  ASSUME WorldTypeOK, NamesUnique, NEW c \in ContIds, Die(c)
  PROVE  /\ NamesUnique' /\ ContIds' = ContIds
         /\ \A x \in ContIds : conts[x].state # "gone" => conts'[x].state # "gone"
<1>1. /\ conts \in Seq(Container) /\ conts[c].state = "running"
      /\ conts' = [conts EXCEPT ![c].state = "dead"]
  BY DEF WorldTypeOK, Die
<1>2. ContIds' = ContIds /\ ContsKept
  BY <1>1, DeadConts DEF ContIds
<1>3. \A x \in ContIds : conts[x] \in Container
  BY <1>1 DEF ContIds
<1>4. \A x \in ContIds : conts'[x].state = IF x = c THEN "dead" ELSE conts[x].state
  BY <1>1, <1>3 DEF Container, ContIds
<1> QED  BY <1>1, <1>2, <1>4 DEF NamesUnique, ContsKept

LEMMA NamesStayUnique ==
  ASSUME IInv, NamesUnique, [Next]_vars PROVE NamesUnique'
<1>1. WorldTypeOK  BY DEF IInv, TypeOK
<1>2. CASE UNCHANGED conts
  BY <1>2 DEF NamesUnique, ContIds
<1>3. CASE pc = "run" /\ NameIsFree /\ StartContainer
  <2>1. PICK ready \in BOOLEAN :
          conts' = Append(conts, NewContainer(job.app, job.tgt[NextReplica], job.id,
                                              ReplicaIdx, ready))
    BY <1>3 DEF StartContainer
  <2> DEFINE k == NewContainer(job.app, job.tgt[NextReplica], job.id, ReplicaIdx, ready)
  <2>2. k \in Container  BY <1>3, NextReplicaTyped
  <2>3. NameFree(k.app, k.node, k.dep, k.idx)
    BY <1>3 DEF NewContainer, NameIsFree
  <2>4. conts' = Append(conts, k)  BY <2>1
  <2> HIDE DEF k
  <2> QED  BY <1>1, <2>2, <2>3, <2>4, NameGiven
<1> QED  BY <1>1, <1>2, <1>3, ContsMove, NamesOfTheDead, NamesLeft

-----------------------------------------------------------------------------
(* How the table moves *)

\* A row is appended, or a running row is retired, or the table stays.
\* The recorded spec is a known one or the holder's.
LEMMA TableMoves ==
  ASSUME IInv, [Next]_vars
  PROVE  \/ UNCHANGED rows
         \/ \E row \in Row : /\ rows' = Append(rows, row) /\ row.app = row.spec.app
                             /\ Known(row.spec) \/ (pc \in DeploySteps /\ row.spec = job.spec)
                             /\ row.reps = <<>> \/ (pc = "record" /\ row.reps = job.new)
                             /\ \A c \in SeqSet(row.reps) :
                                  /\ c \in ContIds
                                  /\ conts[c].dep = NextDeployID /\ conts[c].app = row.app
         \/ \E i \in RowIds : rows[i].status = "running" /\ SetStatus(i, "retired")
<1> DEFINE Recorded ==
            \E row \in Row : /\ rows' = Append(rows, row) /\ row.app = row.spec.app
                             /\ Known(row.spec) \/ (pc \in DeploySteps /\ row.spec = job.spec)
                             /\ row.reps = <<>> \/ (pc = "record" /\ row.reps = job.new)
                             /\ \A c \in SeqSet(row.reps) :
                                  /\ c \in ContIds
                                  /\ conts[c].dep = NextDeployID /\ conts[c].app = row.app
<1> SUFFICES \/ UNCHANGED rows \/ Recorded
             \/ \E i \in RowIds : rows[i].status = "running" /\ SetStatus(i, "retired")
  OBVIOUS
<1>2. ASSUME NEW row \in Row, rows' = Append(rows, row), row.app = row.spec.app,
             Known(row.spec) \/ (pc \in DeploySteps /\ row.spec = job.spec),
             row.reps = <<>> \/ (pc = "record" /\ row.reps = job.new),
             \A c \in SeqSet(row.reps) :
               c \in ContIds /\ conts[c].dep = NextDeployID /\ conts[c].app = row.app
      PROVE  Recorded
  BY <1>2
<1> HIDE DEF Recorded
<1>1. ASSUME NEW s \in Spec0, rows' = Append(rows, NewRow("failed", s, FALSE, <<>>)),
             Known(s) \/ (pc \in DeploySteps /\ s = job.spec)
      PROVE  Recorded
  <2> DEFINE row == NewRow("failed", s, FALSE, <<>>)
  <2>1. row \in Row /\ row.app = row.spec.app /\ row.spec = s /\ SeqSet(row.reps) = {}
        /\ row.reps = <<>>
    BY DEF NewRow, Row, Status, Spec0, SeqSet
  <2>2. rows' = Append(rows, row)  BY <1>1
  <2> HIDE DEF row
  <2> QED  BY <1>1, <1>2, <2>1, <2>2
<1>3. CASE Request
  BY <1>1, <1>3, RequestCases
     DEF AskRollback, AskScale, BeginRemove, StartDeploy, AbandonDeploy, world
<1>4. CASE RetireOldRow
  <2>1. WithStatus(job.app, "running") # {} /\ WorldTypeOK
    BY <1>4 DEF RetireOldRow, IInv, HolderOK, TypeOK
  <2>2. CurrentDeployment(job.app) \in WithStatus(job.app, "running")
    BY <2>1, NoCurrentRow, CurrentRow
  <2> QED  BY <1>4, <2>2 DEF RetireOldRow, WithStatus
<1>5. CASE RetireRemoved
  <2>1. job.row \in WithStatus(job.app, "running")
    BY <1>5 DEF RetireRemoved, IInv, HolderOK, RemoveSteps
  <2> QED  BY <1>5, <2>1 DEF RetireRemoved, WithStatus
<1>6. CASE RecordRunning \/ RecordFailed
  <2>1. job \in Job /\ pc \in DeploySteps /\ CandidateOK
    BY <1>6, JobTyped DEF RecordRunning, RecordFailed, DeploySteps, SwapSteps, UndoSteps,
       IInv, HolderOK
  <2>2. CASE RecordRunning
    <3> DEFINE row == NewRow("running", job.spec, job.sched, job.new)
    <3>1. row \in Row /\ row.app = row.spec.app /\ row.spec = job.spec /\ row.reps = job.new
      BY <2>1 DEF NewRow, Row, Status, Job, Spec0
    <3>2. row.app = job.app  BY <2>1, <3>1 DEF CandidateOK
    <3>3. UNCHANGED rows \/ rows' = Append(rows, row)
      BY <2>2 DEF RecordRunning, RecordDeployment
    <3>4. \A c \in SeqSet(row.reps) :
            c \in ContIds /\ conts[c].dep = NextDeployID /\ conts[c].app = row.app
      BY <2>1, <3>1, <3>2 DEF CandidateOK
    <3> HIDE DEF row
    <3>5. pc = "record"  BY <2>2 DEF RecordRunning
    <3> QED  BY <1>2, <2>1, <3>1, <3>3, <3>4, <3>5
  <2>3. CASE RecordFailed
    <3>1. job.spec \in Spec0  BY <2>1 DEF Job
    <3> QED  BY <1>1, <2>1, <2>3, <3>1 DEF RecordFailed, RecordDeployment
  <2> QED  BY <1>6, <2>2, <2>3
<1>7. CASE RunReplica \/ RunReplicaFails \/ SetStaging \/ HealthGate \/ Flip \/ RemoveStaging
           \/ RetireOldSet \/ UndoStaging \/ Discard \/ RemoveContainers \/ RemoveRoute
  BY <1>7 DEF RunReplica, RunReplicaFails, SetStaging, HealthGate, Flip, RemoveStaging,
     RetireOldSet, UndoStaging, Discard, RemoveContainers, RemoveRoute, world
<1>8. CASE Environment \/ UNCHANGED vars
  BY <1>8 DEF Environment, Cancel, CrashRestart, Die, world, vars
<1> QED  BY <1>3, <1>4, <1>5, <1>6, <1>7, <1>8 DEF Next, Deploy, Remove

-----------------------------------------------------------------------------
(* Theorems *)

\* The inductive invariant holds, whatever fails.
THEOREM Inductive == Spec => []IInv
BY InitIInv, NextIInv, PTL DEF Spec

\* Types, for every instance: the ids a row lists are containers, the row a
\* waiting request names exists, the holder's locals are well formed.
THEOREM TypeCorrect == Spec => []TypeOK
<1>1. IInv => TypeOK  BY DEF IInv
<1> QED  BY <1>1, Inductive, PTL

\* The containers of a recorded row bear its id: they bore the id predicted.
LEMMA RowsKeepGeneration ==
  ASSUME IInv, GenerationIsRow, ContsKept, UNCHANGED rows PROVE GenerationIsRow'
<1>1. SUFFICES ASSUME NEW i \in RowIds, NEW c \in SeqSet(rows[i].reps)
               PROVE  conts'[c].dep = i /\ conts'[c].app = rows[i].app
  BY DEF GenerationIsRow, RowIds
<1>2. c \in ContIds
  BY <1>1 DEF IInv, TypeOK, WorldTypeOK
<1> QED  BY <1>1, <1>2 DEF GenerationIsRow, ContsKept

LEMMA RowHasGeneration ==
  ASSUME IInv, GenerationIsRow, ContsKept, NEW row \in Row, rows' = Append(rows, row),
         \A c \in SeqSet(row.reps) :
           c \in ContIds /\ conts[c].dep = NextDeployID /\ conts[c].app = row.app
  PROVE  GenerationIsRow'
<1>1. WorldTypeOK  BY DEF IInv, TypeOK
<1>2. /\ RowIds' = RowIds \cup {Len(rows) + 1}
      /\ \A i \in RowIds : rows'[i] = rows[i]
      /\ rows'[Len(rows) + 1] = row
  BY <1>1 DEF WorldTypeOK, RowIds
<1> SUFFICES ASSUME NEW i \in RowIds', NEW c \in SeqSet(rows'[i].reps)
             PROVE  conts'[c].dep = i /\ conts'[c].app = rows'[i].app
  BY Zenon DEF GenerationIsRow
<1>3. CASE i \in RowIds
  <2>1. rows'[i] = rows[i]  BY <1>2, <1>3
  <2>2. c \in ContIds  BY <1>1, <1>3, <2>1 DEF WorldTypeOK
  <2> QED  BY <1>3, <2>1, <2>2 DEF GenerationIsRow, ContsKept
<1>4. CASE i = Len(rows) + 1
  <2>1. rows'[i] = row /\ i = NextDeployID  BY <1>2, <1>4 DEF NextDeployID
  <2> QED  BY <2>1 DEF ContsKept
<1> QED  BY <1>2, <1>3, <1>4

LEMMA RowRetiredKeepsGeneration ==
  ASSUME IInv, GenerationIsRow, ContsKept, NEW k \in RowIds, SetStatus(k, "retired")
  PROVE  GenerationIsRow'
<1>1. WorldTypeOK  BY DEF IInv, TypeOK
<1>2. RowIds' = RowIds /\ \A i \in RowIds : rows[i] \in Row
  BY <1>1 DEF WorldTypeOK, SetStatus, RowIds
<1>3. \A i \in RowIds : rows'[i].app = rows[i].app /\ rows'[i].reps = rows[i].reps
  BY <1>1, <1>2 DEF SetStatus, Row, RowIds, WorldTypeOK
<1> SUFFICES ASSUME NEW i \in RowIds, NEW c \in SeqSet(rows[i].reps)
             PROVE  conts'[c].dep = i /\ conts'[c].app = rows[i].app
  BY <1>2, <1>3 DEF GenerationIsRow
<1>4. c \in ContIds  BY <1>1 DEF WorldTypeOK
<1> QED  BY <1>4 DEF GenerationIsRow, ContsKept

LEMMA NextGeneration ==
  ASSUME IInv, GenerationIsRow, [Next]_vars PROVE GenerationIsRow'
<1>1. ContsKept  BY NextKeepsConts
<1> QED  BY <1>1, TableMoves, RowsKeepGeneration, RowHasGeneration, RowRetiredKeepsGeneration

\* The deploy id that names and labels a generation's containers is the id of
\* the row that lists them, whatever fails and whenever the daemon crashes.
THEOREM GenerationsAreRows == Spec => []GenerationIsRow
<1>1. Init => GenerationIsRow
  BY DEF Init, WorldInit, GenerationIsRow, RowIds
<1>2. IInv /\ GenerationIsRow /\ [Next]_vars => GenerationIsRow'
  BY NextGeneration
<1> QED  BY <1>1, <1>2, Inductive, PTL DEF Spec

\* A row that is not running is never touched again, whatever fails.
THEOREM RetiredForGood == Spec => RetiredStaysRetired
<1> DEFINE A == \A i \in RowIds : rows[i].status # "running" => rows'[i] = rows[i]
<1>1. ASSUME IInv, [Next]_vars PROVE [A]_vars
  <2>1. rows \in Seq(Row)
    BY <1>1 DEF IInv, TypeOK, WorldTypeOK
  <2>2. CASE UNCHANGED rows
    BY <2>2
  <2>3. ASSUME NEW row \in Row, rows' = Append(rows, row) PROVE A
    BY <2>1, <2>3 DEF RowIds
  <2>4. ASSUME NEW k \in RowIds, rows[k].status = "running", SetStatus(k, "retired") PROVE A
    BY <2>1, <2>4 DEF SetStatus, RowIds
  <2> QED  BY <1>1, <2>2, <2>3, <2>4, TableMoves
<1> QED  BY <1>1, Inductive, PTL DEF Spec, RetiredStaysRetired

-----------------------------------------------------------------------------
(* At most one running deployment, as long as the store does not refuse a write *)

\* A step that leaves the table and does not lead up to a recording.
LEMMA TableStays ==
  ASSUME SInv, UNCHANGED rows,
         pc' = "record" => pc = "record" /\ job'.app = job.app
  PROVE  OneRunning' /\ OldRowRetired'
BY DEF SInv, OneRunning, OldRowRetired, WithStatus, RowIds

\* A step that appends a row that either does not run or has no rival.
LEMMA TableGrows ==
  ASSUME SInv, NEW row \in Row, rows' = Append(rows, row), pc' = "idle",
         row.status # "running" \/ WithStatus(row.app, "running") = {}
  PROVE  OneRunning' /\ OldRowRetired'
<1>1. rows \in Seq(Row)  BY DEF SInv, IInv, TypeOK, WorldTypeOK
<1>2. /\ RowIds' = RowIds \cup {Len(rows) + 1}
      /\ \A i \in RowIds : rows'[i] = rows[i]
      /\ rows'[Len(rows) + 1] = row
  BY <1>1 DEF RowIds
<1>3. OneRunning'
  <2> SUFFICES ASSUME NEW i \in RowIds', NEW j \in RowIds',
                      rows'[i].app = rows'[j].app,
                      rows'[i].status = "running", rows'[j].status = "running"
               PROVE  i = j
    BY DEF OneRunning
  <2>1. CASE i \in RowIds /\ j \in RowIds
    BY <1>2, <2>1 DEF SInv, OneRunning
  <2>2. CASE i = Len(rows) + 1 /\ j \in RowIds
    BY <1>2, <2>2 DEF WithStatus
  <2>3. CASE j = Len(rows) + 1 /\ i \in RowIds
    BY <1>2, <2>3 DEF WithStatus
  <2> QED  BY <1>2, <2>1, <2>2, <2>3
<1> QED  BY <1>3 DEF OldRowRetired

\* The app's running row, if any, is its current deployment.
LEMMA CurrentIsRunning ==
  ASSUME WorldTypeOK, OneRunning, NEW a, NEW i \in WithStatus(a, "running")
  PROVE  i = CurrentDeployment(a)
<1>1. CurrentDeployment(a) \in WithStatus(a, "running")
  BY NoCurrentRow, CurrentRow
<1> QED  BY <1>1 DEF OneRunning, WithStatus

LEMMA RetireOldRowRuns ==
  ASSUME SInv, RetireOldRow, "store" \notin Faults
  PROVE  OneRunning' /\ WithStatus(job.app, "running")' = {}
<1> DEFINE cur == CurrentDeployment(job.app)
<1>1. WorldTypeOK /\ OneRunning /\ pc = "status" /\ UNCHANGED job
      /\ SetStatus(cur, "retired") /\ UNCHANGED <<conts, asked, edge>>
  BY DEF SInv, IInv, TypeOK, RetireOldRow, Goto
<1>2. cur \in RowIds
  <2>1. WithStatus(job.app, "running") # {}  BY <1>1 DEF SInv, IInv, HolderOK
  <2> QED  BY <1>1, <2>1, NoCurrentRow, CurrentRow
<1>3. /\ RowIds' = RowIds
      /\ \A k \in RowIds : rows'[k] = IF k = cur THEN [rows[k] EXCEPT !.status = "retired"]
                                      ELSE rows[k]
  <2>1. AskedTypeOK  BY DEF SInv, IInv, TypeOK
  <2> QED  BY <1>1, <1>2, <2>1, EdgeUnchanged, StatusSet DEF Status
<1>4. \A k \in RowIds : rows[k] \in Row
  BY <1>1 DEF WorldTypeOK, RowIds
<1>5. \A k \in RowIds : /\ rows'[k].app = rows[k].app
                        /\ rows'[k].status = IF k = cur THEN "retired" ELSE rows[k].status
  BY <1>3, <1>4 DEF Row
<1> HIDE DEF cur
<1>6. OneRunning'
  BY <1>1, <1>3, <1>5 DEF OneRunning
<1>7. ASSUME NEW i \in WithStatus(job.app, "running")' PROVE FALSE
  <2>1. i \in RowIds /\ rows[i].app = job.app /\ rows[i].status = "running" /\ i # cur
    BY <1>1, <1>3, <1>5, <1>7 DEF WithStatus
  <2>2. i \in WithStatus(job.app, "running")  BY <2>1 DEF WithStatus
  <2>3. i = cur
    BY <1>1, <2>2, CurrentIsRunning DEF cur
  <2> QED  BY <2>1, <2>3
<1> QED  BY <1>6, <1>7

\* A row that is retired when no row is about to be recorded.
LEMMA RowRetired ==
  ASSUME SInv, NEW i \in RowIds, SetStatus(i, "retired"), UNCHANGED <<conts, asked, edge>>,
         pc' = "idle"
  PROVE  OneRunning' /\ OldRowRetired'
<1>1. WorldTypeOK /\ AskedTypeOK /\ OneRunning
  BY DEF SInv, IInv, TypeOK
<1>2. /\ RowIds' = RowIds
      /\ \A k \in RowIds : rows'[k] = IF k = i THEN [rows[k] EXCEPT !.status = "retired"]
                                      ELSE rows[k]
  BY <1>1, EdgeUnchanged, StatusSet DEF Status
<1>3. \A k \in RowIds : rows[k] \in Row
  BY <1>1 DEF WorldTypeOK, RowIds
<1>4. \A k \in RowIds : /\ rows'[k].app = rows[k].app
                        /\ rows'[k].status = IF k = i THEN "retired" ELSE rows[k].status
  BY <1>2, <1>3 DEF Row
<1>5. OneRunning'
  BY <1>1, <1>2, <1>4 DEF OneRunning
<1> QED  BY <1>5 DEF OldRowRetired

LEMMA FailedRow ==
  ASSUME NEW s \in Spec0
  PROVE  NewRow("failed", s, FALSE, <<>>) \in Row /\ NewRow("failed", s, FALSE, <<>>).status = "failed"
BY DEF NewRow, Row, Status, Spec0

LEMMA NextSInv ==
  ASSUME "store" \notin Faults, SInv, [Next]_vars PROVE SInv'
<1>1. IInv'  BY NextIInv DEF SInv
<1>2. IInv /\ WorldTypeOK  BY DEF SInv, IInv, TypeOK
<1>3. CASE Request
  <2>1. CASE UNCHANGED rows /\ (pc' \in {"run", "rmconts"} \/ UNCHANGED <<pc, job>>)
    BY <1>1, <2>1, TableStays DEF SInv
  <2>2. ASSUME NEW s \in Spec0, NEW sched \in BOOLEAN, pc = "idle", AbandonDeploy(s, sched)
        PROVE  OneRunning' /\ OldRowRetired'
    <3> DEFINE row == NewRow("failed", s, FALSE, <<>>)
    <3>1. row \in Row /\ row.status # "running"  BY FailedRow
    <3>2. pc' = "idle" /\ (rows' = rows \/ rows' = Append(rows, row))
      BY <2>2 DEF AbandonDeploy
    <3> HIDE DEF row
    <3> QED  BY <3>1, <3>2, TableStays, TableGrows
  <2> QED  BY <1>1, <1>2, <1>3, <2>1, <2>2, RequestCases
           DEF SInv, AskRollback, AskScale, BeginRemove, StartDeploy, world
<1>4. CASE RetireOldSet
  <2>1. CASE pc' = "record"
    <3>1. CurrentDeployment(job.app) = 0 /\ UNCHANGED <<rows, job>>
      BY <1>4, <2>1 DEF RetireOldSet, Goto
    <3>2. WithStatus(job.app, "running") = {}  BY <1>2, <3>1, NoCurrentRow
    <3> QED  BY <1>1, <3>1, <3>2 DEF SInv, OneRunning, OldRowRetired, WithStatus, RowIds
  <2>2. CASE pc' # "record"
    BY <1>1, <1>4, <2>2, TableStays DEF RetireOldSet, SInv
  <2> QED  BY <2>1, <2>2
<1>5. CASE RetireOldRow
  <2>1. UNCHANGED job  BY <1>5 DEF RetireOldRow, Goto
  <2> QED  BY <1>1, <1>5, <2>1, RetireOldRowRuns DEF SInv, OldRowRetired, WithStatus
<1>6. CASE RecordRunning
  <2> DEFINE row == NewRow("running", job.spec, job.sched, job.new)
  <2>1. job \in Job /\ pc = "record" /\ pc' = "idle" /\ rows' = Append(rows, row)
    BY <1>2, <1>6, JobTyped DEF RecordRunning, RecordDeployment, Done
  <2>2. job.app = job.spec.app
    BY <1>2, <2>1 DEF IInv, HolderOK, CandidateOK, DeploySteps, SwapSteps
  <2>3. row \in Row /\ row.app = job.app
    BY <2>1, <2>2 DEF NewRow, Row, Status, Job, Spec0
  <2>4. WithStatus(row.app, "running") = {}
    BY <2>1, <2>3 DEF SInv, OldRowRetired
  <2> HIDE DEF row
  <2> QED  BY <1>1, <2>1, <2>3, <2>4, TableGrows DEF SInv
<1>7. CASE RecordFailed
  <2> DEFINE row == NewRow("failed", job.spec, FALSE, <<>>)
  <2>1. job \in Job /\ pc' = "idle" /\ rows' = Append(rows, row)
    BY <1>2, <1>7, JobTyped DEF RecordFailed, RecordDeployment, Done
  <2>2. row \in Row /\ row.status # "running"
    BY <2>1, FailedRow DEF Job
  <2> HIDE DEF row
  <2> QED  BY <1>1, <2>1, <2>2, TableGrows DEF SInv
<1>8. CASE RetireRemoved
  <2>1. job.row \in RowIds
    BY <1>2, <1>8 DEF RetireRemoved, IInv, HolderOK, RemoveSteps, WithStatus
  <2> QED  BY <1>1, <1>8, <2>1, RowRetired DEF RetireRemoved, Done, SInv
<1>9. CASE RunReplica \/ RunReplicaFails \/ SetStaging \/ HealthGate \/ Flip \/ RemoveStaging
           \/ UndoStaging \/ Discard \/ RemoveContainers \/ RemoveRoute
  <2>1. UNCHANGED rows /\ pc' # "record"
    BY <1>9 DEF RunReplica, RunReplicaFails, SetStaging, HealthGate, Flip, RemoveStaging,
       UndoStaging, Discard, RemoveContainers, RemoveRoute, Goto, Done, world
  <2> QED  BY <1>1, <2>1, TableStays DEF SInv
<1>10. CASE Environment \/ UNCHANGED vars
  <2>1. CASE Cancel
    <3>1. job \in Job /\ UNCHANGED <<rows, pc>> /\ job' = [job EXCEPT !.live = FALSE]
      BY <1>2, <2>1, JobTyped DEF Cancel, world
    <3>2. job'.app = job.app  BY <3>1 DEF Job
    <3> QED  BY <1>1, <3>1, <3>2, TableStays DEF SInv
  <2>2. CASE CrashRestart \/ (\E c \in ContIds : Die(c)) \/ UNCHANGED vars
    <3>1. UNCHANGED rows /\ (pc' = "idle" \/ UNCHANGED <<pc, job>>)
      BY <2>2 DEF CrashRestart, Done, Die, vars
    <3> QED  BY <1>1, <3>1, TableStays DEF SInv
  <2> QED  BY <1>10, <2>1, <2>2 DEF Environment
<1> QED  BY <1>3, <1>4, <1>5, <1>6, <1>7, <1>8, <1>9, <1>10 DEF Next, Deploy, Remove, SInv

LEMMA InitSInv == Init => SInv
<1>1. ASSUME Init PROVE RowIds = {} /\ pc = "idle"
  BY <1>1 DEF Init, WorldInit, RowIds
<1> QED  BY <1>1, InitIInv DEF SInv, OneRunning, OldRowRetired

\* An app has at most one running deployment at any time, whatever else fails,
\* as long as the store takes its writes.
THEOREM AtMostOneRunning == ASSUME "store" \notin Faults PROVE Spec => []OneRunning
<1>1. SInv /\ [Next]_vars => SInv'  BY NextSInv
<1>2. SInv => OneRunning  BY DEF SInv
<1> QED  BY <1>1, <1>2, InitSInv, PTL DEF Spec

-----------------------------------------------------------------------------
(* The route of a running deployment, when no call fails half done and no two *)
(* apps claim one domain                                                      *)

\* The app whose route is about to be recorded, or whose row to be retired.
Exempt(a) == Swapping(a) \/ (pc = "rmstatus" /\ job.app = a)

LEMMA KnownFrom ==
  ASSUME SpecsAreSubmitted, NEW sp, Known(sp) PROVE From(sp)
BY DEF SpecsAreSubmitted, Known, From

LEMMA SpecsStaySubmitted ==
  ASSUME IInv, SpecsAreSubmitted, [Next]_vars PROVE SpecsAreSubmitted'
<1>1. rows \in Seq(Row)
  BY DEF IInv, TypeOK, WorldTypeOK
<1>2. (\A i \in RowIds : rows[i].app = rows[i].spec.app /\ From(rows[i].spec))'
  <2>1. CASE UNCHANGED rows
    BY <2>1 DEF SpecsAreSubmitted, From, RowIds
  <2>2. ASSUME NEW row \in Row, rows' = Append(rows, row), row.app = row.spec.app,
               Known(row.spec) \/ (pc \in DeploySteps /\ row.spec = job.spec)
        PROVE  (\A i \in RowIds : rows[i].app = rows[i].spec.app /\ From(rows[i].spec))'
    <3>1. From(row.spec)
      BY <2>2, KnownFrom DEF SpecsAreSubmitted
    <3>2. \A i \in RowIds' : rows'[i] = row \/ (i \in RowIds /\ rows'[i] = rows[i])
      BY <1>1, <2>2 DEF RowIds
    <3>3. \A i \in RowIds' : rows'[i].app = rows'[i].spec.app /\ From(rows'[i].spec)
      <4> SUFFICES ASSUME NEW i \in RowIds'
                   PROVE  rows'[i].app = rows'[i].spec.app /\ From(rows'[i].spec)
        OBVIOUS
      <4>1. CASE rows'[i] = row
        BY <4>1, <2>2, <3>1
      <4>2. CASE i \in RowIds /\ rows'[i] = rows[i]
        BY <4>2 DEF SpecsAreSubmitted
      <4> QED  BY <4>1, <4>2, <3>2
    <3> QED  BY <3>3 DEF From
  <2>3. ASSUME NEW k \in RowIds, SetStatus(k, "retired")
        PROVE  (\A i \in RowIds : rows[i].app = rows[i].spec.app /\ From(rows[i].spec))'
    <3>1. RowIds' = RowIds /\ \A i \in RowIds : rows[i] \in Row
      BY <1>1, <2>3 DEF SetStatus, RowIds
    <3>2. \A i \in RowIds : rows'[i].app = rows[i].app /\ rows'[i].spec = rows[i].spec
      BY <1>1, <2>3, <3>1 DEF SetStatus, Row, RowIds
    <3> QED  BY <3>1, <3>2 DEF SpecsAreSubmitted, From
  <2> QED  BY <2>1, <2>2, <2>3, TableMoves
<1>3. (pc \in DeploySteps => From(job.spec))'
  <2>1. ASSUME NEW s \in Spec0, NEW sched, Known(s), StartDeploy(s, sched)
        PROVE  From(job'.spec)
    <3>1. job'.spec.app = s.app /\ job'.spec.dom = s.dom
      BY <2>1 DEF StartDeploy, Spec0
    <3> QED  BY <2>1, <3>1, KnownFrom DEF From
  <2>2. CASE UNCHANGED <<pc, job>>
    BY <2>2 DEF SpecsAreSubmitted, From
  <2>3. CASE pc' \notin DeploySteps
    BY <2>3
  <2>4. CASE pc \in DeploySteps /\ job'.spec = job.spec
    BY <2>4 DEF SpecsAreSubmitted, From
  <2>5. CASE Request
    BY <2>1, <2>2, <2>3, <2>5, RequestCases
       DEF AskRollback, AskScale, BeginRemove, AbandonDeploy, DeploySteps, SwapSteps, UndoSteps, From
  <2>6. CASE Deploy
    <3>1. CASE RunReplica \/ RunReplicaFails
      <4>1. job \in Job /\ pc \in DeploySteps
        BY <3>1, JobTyped DEF RunReplica, RunReplicaFails, DeploySteps
      <4>2. job'.spec = job.spec
        BY <3>1, <4>1 DEF RunReplica, RunReplicaFails, Job
      <4> QED  BY <2>4, <4>1, <4>2
    <3>2. CASE ~(RunReplica \/ RunReplicaFails)
      BY <2>3, <2>4, <2>6, <3>2
         DEF Deploy, SetStaging, HealthGate, Flip, RemoveStaging, RetireOldSet, RetireOldRow,
         RecordRunning, UndoStaging, Discard, RecordFailed, Goto, Done, DeploySteps, SwapSteps, UndoSteps
    <3> QED  BY <3>1, <3>2
  <2>7. CASE Remove
    BY <2>3, <2>7 DEF Remove, RemoveContainers, RemoveRoute, RetireRemoved, Goto, Done,
       DeploySteps, SwapSteps, UndoSteps
  <2>8. CASE Cancel
    <3>1. job \in Job /\ pc' = pc  BY <2>8, JobTyped DEF Cancel
    <3>2. job'.spec = job.spec  BY <2>8, <3>1 DEF Cancel, Job
    <3> QED  BY <2>3, <2>4, <3>1, <3>2
  <2>9. CASE CrashRestart
    BY <2>3, <2>9 DEF CrashRestart, Done, DeploySteps, SwapSteps, UndoSteps
  <2>10. CASE (\E c \in ContIds : Die(c)) \/ UNCHANGED vars
    BY <2>2, <2>10 DEF Die, vars
  <2> QED  BY <2>5, <2>6, <2>7, <2>8, <2>9, <2>10 DEF Next, Environment
<1> QED  BY <1>2, <1>3 DEF SpecsAreSubmitted

LEMMA UpstreamsKept ==
  ASSUME ContsKept, NEW s, SeqSet(s) \subseteq ContIds
  PROVE  Upstreams(s)' = Upstreams(s)
<1>1. \A i \in DOMAIN s : s[i] \in ContIds
  BY DEF SeqSet
<1>2. \A c \in ContIds : UpstreamOf(c)' = UpstreamOf(c)
  BY DEF UpstreamOf, ContsKept
<1> QED  BY <1>1, <1>2 DEF Upstreams

\* The containers of rows and of a candidate are known to Docker.
LEMMA ListedConts ==
  ASSUME IInv
  PROVE  /\ \A i \in RowIds : SeqSet(rows[i].reps) \subseteq ContIds
         /\ pc \in DeploySteps => SeqSet(job.new) \subseteq ContIds
BY DEF IInv, TypeOK, WorldTypeOK, HolderOK, CandidateOK

\* Two running rows of one domain are one row.
LEMMA DomainOwner ==
  ASSUME ExclusiveDomains, SpecsAreSubmitted, OneRunning, NEW i \in RowIds, NEW j \in RowIds,
         rows[i].status = "running", rows[j].status = "running",
         rows[i].spec.dom = rows[j].spec.dom, rows[i].spec.dom # NoDomain
  PROVE  i = j
<1>1. rows[i].app = rows[i].spec.app /\ rows[j].app = rows[j].spec.app
      /\ From(rows[i].spec) /\ From(rows[j].spec)
  BY DEF SpecsAreSubmitted
<1>2. rows[i].app = rows[j].app
  BY <1>1 DEF ExclusiveDomains, From
<1> QED  BY <1>2 DEF OneRunning

\* A running row that is routed stays so when neither it nor its route moves.
LEMMA RouteKept ==
  ASSUME RInv, ContsKept, NEW i \in RowIds, rows'[i] = rows[i],
         rows[i].status = "running", rows[i].spec.dom # NoDomain, ~Exempt(rows[i].app),
         routes'[rows[i].spec.dom] = routes[rows[i].spec.dom]
  PROVE  routes'[rows'[i].spec.dom] = Upstreams(rows[i].reps)'
<1>1. routes[rows[i].spec.dom] = Upstreams(rows[i].reps)
  BY DEF RInv, EdgeInv, Exempt
<1>2. SeqSet(rows[i].reps) \subseteq ContIds
  BY ListedConts DEF RInv, SInv
<1> QED  BY <1>1, <1>2, UpstreamsKept

\* EdgeInv after a step, from what the step does to each running row.
LEMMA EdgeMoves ==
  ASSUME RInv, ContsKept, caddy' = routes',
         \A i \in RowIds' :
           rows'[i].status = "running" /\ rows'[i].spec.dom # NoDomain /\ ~Exempt(rows[i].app)'
           => \/ /\ i \in RowIds /\ rows'[i] = rows[i] /\ ~Exempt(rows[i].app)
                 /\ routes'[rows[i].spec.dom] = routes[rows[i].spec.dom]
              \/ routes'[rows'[i].spec.dom] = Upstreams(rows[i].reps)',
         pc' \in SwapSteps => routes'[job'.spec.dom] = Upstreams(job.new)'
  PROVE  EdgeInv'
<1>1. ASSUME NEW i \in RowIds', rows'[i].status = "running", rows'[i].spec.dom # NoDomain,
             ~Exempt(rows[i].app)'
      PROVE  routes'[rows'[i].spec.dom] = Upstreams(rows[i].reps)'
  <2>1. CASE /\ i \in RowIds /\ rows'[i] = rows[i] /\ ~Exempt(rows[i].app)
             /\ routes'[rows[i].spec.dom] = routes[rows[i].spec.dom]
    BY <1>1, <2>1, RouteKept
  <2> QED  BY <1>1, <2>1
<1> QED  BY <1>1 DEF EdgeInv, Exempt

\* The table and the routes stay and the holder does not leave the window in
\* which its app is exempt.
LEMMA EdgeStays ==
  ASSUME RInv, ContsKept, UNCHANGED <<rows, routes>>, caddy' = caddy \/ caddy' = routes,
         pc \in SwapSteps => pc' \in SwapSteps,
         pc' \in SwapSteps => pc \in SwapSteps /\ job'.app = job.app
                              /\ job'.spec = job.spec /\ job'.new = job.new,
         pc = "rmstatus" => pc' = "rmstatus" /\ job'.app = job.app
  PROVE  EdgeInv'
<1>1. RowIds' = RowIds  BY DEF RowIds
<1>2. IInv /\ EdgeInv /\ caddy' = routes'  BY DEF RInv, SInv, EdgeInv
<1>3. ASSUME NEW i \in RowIds, ~Exempt(rows[i].app)' PROVE ~Exempt(rows[i].app)
  BY <1>3 DEF Exempt, Swapping
<1>4. ASSUME pc' \in SwapSteps PROVE routes'[job'.spec.dom] = Upstreams(job.new)'
  <2>1. routes[job.spec.dom] = Upstreams(job.new)
    BY <1>2, <1>4 DEF EdgeInv
  <2>2. SeqSet(job.new) \subseteq ContIds
    BY <1>2, <1>4, ListedConts DEF DeploySteps
  <2>3. Upstreams(job.new)' = Upstreams(job.new)
    BY <2>2, <1>4, UpstreamsKept
  <2> QED  BY <1>4, <2>1, <2>3
<1> QED  BY <1>1, <1>2, <1>3, <1>4, EdgeMoves

\* A row that does not run is recorded, outside the window of the swap.
LEMMA FailedRowEdge ==
  ASSUME RInv, NEW row \in Row, row.status # "running", rows' = Append(rows, row),
         UNCHANGED <<conts, routes>>, caddy' = routes',
         pc \notin SwapSteps, pc # "rmstatus", pc' \notin SwapSteps
  PROVE  EdgeInv'
<1>1. rows \in Seq(Row) /\ WorldTypeOK  BY DEF RInv, SInv, IInv, TypeOK, WorldTypeOK
<1>2. \A i \in RowIds' : rows'[i] = row \/ (i \in RowIds /\ rows'[i] = rows[i])
  BY <1>1 DEF RowIds
<1>3. ContsKept  BY <1>1, UnchangedConts
<1>4. \A a : ~Exempt(a)  BY DEF Exempt, Swapping
<1> QED  BY <1>2, <1>3, <1>4, EdgeMoves

-----------------------------------------------------------------------------
(* EdgeInv, action by action *)

LEMMA Posted ==
  ASSUME "ambiguous" \notin Faults, EdgeInv, NEW r, NEW st, BestEffort(r, st)
  PROVE  (routes' = r /\ caddy' = r) \/ (UNCHANGED routes /\ caddy' = routes)
BY DEF BestEffort, Applied, Rejected, edge, EdgeInv

LEMMA ConfigurationKept ==
  ASSUME "ambiguous" \notin Faults, EdgeInv, NEW st, BestEffort(routes, st)
  PROVE  UNCHANGED routes /\ caddy' = routes
BY Posted

\* Whatever a request does before its first call.
LEMMA EdgeRequest ==
  ASSUME RInv, Request PROVE EdgeInv'
<1>1. IInv /\ EdgeInv /\ WorldTypeOK  BY DEF RInv, SInv, IInv, TypeOK
<1>2. CASE /\ UNCHANGED <<rows, routes, conts>> /\ (caddy' = caddy \/ caddy' = routes)
           /\ \/ UNCHANGED <<pc, job>>
              \/ pc = "idle" /\ pc' \in {"run", "rmconts"}
  <2>1. ContsKept  BY <1>1, <1>2, UnchangedConts
  <2>2. CASE UNCHANGED <<pc, job>>
    BY <1>2, <2>1, <2>2, EdgeStays
  <2>3. CASE pc = "idle" /\ pc' \in {"run", "rmconts"}
    <3>1. pc \notin SwapSteps /\ pc' \notin SwapSteps /\ pc # "rmstatus"
      BY <2>3 DEF SwapSteps
    <3> QED  BY <1>2, <2>1, <3>1, EdgeStays
  <2> QED  BY <1>2, <2>2, <2>3
<1>3. ASSUME NEW s \in Spec0, NEW sched, pc = "idle", AbandonDeploy(s, sched),
             rows' # rows
      PROVE  EdgeInv'
  <2> DEFINE row == NewRow("failed", s, FALSE, <<>>)
  <2>1. rows' = Append(rows, row) /\ UNCHANGED <<conts, routes, pc, job>> /\ caddy' = routes'
    BY <1>1, <1>3 DEF AbandonDeploy, EdgeInv
  <2>2. row \in Row /\ row.status # "running"  BY FailedRow
  <2> HIDE DEF row
  <2>3. EdgeInv'
    BY <1>3, <2>1, <2>2, FailedRowEdge DEF SwapSteps
  <2> QED  BY <2>3
<1> QED  BY <1>1, <1>2, <1>3, RequestCases
         DEF AskRollback, AskScale, BeginRemove, StartDeploy, AbandonDeploy, world

LEMMA RowTyped ==
  ASSUME WorldTypeOK, NEW i \in RowIds
  PROVE  rows[i] \in Row /\ rows[i].spec.dom \in Domains
<1>1. rows[i] \in Row  BY DEF WorldTypeOK, RowIds
<1> QED  BY <1>1 DEF Row, Spec0

\* Two running rows of different apps, or a row and a candidate, share no domain.
LEMMA OtherDomain ==
  ASSUME ExclusiveDomains, NEW s, NEW t, From(s), From(t), s.app # t.app, s.dom # NoDomain
  PROVE  s.dom # t.dom
BY DEF ExclusiveDomains, From

LEMMA EdgeFlip ==
  ASSUME ExclusiveDomains, "ambiguous" \notin Faults, RInv, Flip PROVE EdgeInv'
<1>1. /\ IInv /\ EdgeInv /\ WorldTypeOK /\ SpecsAreSubmitted /\ pc = "flip"
      /\ UNCHANGED <<rows, conts, job>> /\ job \in Job /\ CandidateOK
  <2>1. pc \in DeploySteps  BY DEF Flip, DeploySteps
  <2> QED  BY <2>1, JobTyped DEF RInv, SInv, IInv, TypeOK, HolderOK, Flip, Goto
<1>2. ContsKept  BY <1>1, UnchangedConts
<1>3. CASE Rejected /\ Goto("undo")
  BY <1>1, <1>2, <1>3, EdgeStays DEF Rejected, edge, Goto, SwapSteps, EdgeInv
<1>4. CASE Applied(Flipped, stage) /\ Goto("unstage")
  <2>1. /\ routes' = [routes EXCEPT ![job.spec.dom] = Upstreams(job.new)]
        /\ caddy' = routes' /\ pc' = "unstage"
    BY <1>4 DEF Applied, Flipped, Goto
  <2>2. routes \in [Domains -> SUBSET Upstream] /\ job.spec.dom \in Domains
    BY <1>1 DEF WorldTypeOK, Job, Spec0
  <2>3. SeqSet(job.new) \subseteq ContIds
    BY <1>1, ListedConts DEF DeploySteps
  <2>4. routes'[job'.spec.dom] = Upstreams(job.new)'
    BY <1>1, <1>2, <2>1, <2>2, <2>3, UpstreamsKept
  <2>5. ASSUME NEW i \in RowIds', rows'[i].status = "running", rows'[i].spec.dom # NoDomain,
               ~Exempt(rows[i].app)'
        PROVE  /\ i \in RowIds /\ rows'[i] = rows[i] /\ ~Exempt(rows[i].app)
               /\ routes'[rows[i].spec.dom] = routes[rows[i].spec.dom]
    <3>1. i \in RowIds /\ rows'[i] = rows[i]
      BY <1>1, <2>5 DEF RowIds
    <3>2. ~Exempt(rows[i].app) /\ rows[i].app # job.app
      BY <1>1, <2>1, <2>5 DEF Exempt, Swapping, SwapSteps
    <3>3. rows[i].spec.app # job.spec.app /\ From(rows[i].spec) /\ From(job.spec)
      BY <1>1, <3>1, <3>2 DEF SpecsAreSubmitted, CandidateOK, DeploySteps
    <3>4. rows[i].spec.dom # job.spec.dom
      BY <2>5, <3>1, <3>3, OtherDomain
    <3>5. rows[i].spec.dom \in Domains
      BY <1>1, <3>1, RowTyped
    <3> QED  BY <2>1, <2>2, <3>1, <3>2, <3>4, <3>5
  <2> QED  BY <1>2, <2>1, <2>4, <2>5, EdgeMoves
<1> QED  BY <1>3, <1>4 DEF Flip

LEMMA EdgeRemoveRoute ==
  ASSUME ExclusiveDomains, "ambiguous" \notin Faults, RInv, RemoveRoute PROVE EdgeInv'
<1> DEFINE d == rows[job.row].spec.dom
<1>1. /\ IInv /\ EdgeInv /\ WorldTypeOK /\ pc = "rmroute" /\ pc' = "rmstatus"
      /\ UNCHANGED <<rows, conts, job>>
  BY DEF RInv, SInv, IInv, TypeOK, RemoveRoute, Goto
<1>2. ContsKept  BY <1>1, UnchangedConts
<1>3. job.row \in RowIds /\ rows[job.row].status = "running" /\ rows[job.row].app = job.app
  BY <1>1 DEF IInv, HolderOK, RemoveSteps, WithStatus
<1>4. CASE UNCHANGED routes /\ caddy' = routes
  BY <1>1, <1>2, <1>4, EdgeStays DEF SwapSteps
<1>5. CASE d # NoDomain /\ routes' = [routes EXCEPT ![d] = {}] /\ caddy' = routes'
  <2>1. routes \in [Domains -> SUBSET Upstream]  BY <1>1 DEF WorldTypeOK
  <2>2. ASSUME NEW i \in RowIds', rows'[i].status = "running", rows'[i].spec.dom # NoDomain,
               ~Exempt(rows[i].app)'
        PROVE  /\ i \in RowIds /\ rows'[i] = rows[i] /\ ~Exempt(rows[i].app)
               /\ routes'[rows[i].spec.dom] = routes[rows[i].spec.dom]
    <3>1. i \in RowIds /\ rows'[i] = rows[i]
      BY <1>1, <2>2 DEF RowIds
    <3>2. ~Exempt(rows[i].app) /\ rows[i].app # job.app
      BY <1>1, <2>2 DEF Exempt, Swapping, SwapSteps
    <3>3. rows[i].spec.dom # d
      BY <1>3, <1>5, <2>2, <3>1, <3>2, DomainOwner DEF RInv, SInv
    <3>4. rows[i].spec.dom \in Domains
      BY <1>1, <3>1, RowTyped
    <3> QED  BY <1>5, <2>1, <3>1, <3>2, <3>3, <3>4
  <2> HIDE DEF d
  <2> QED  BY <1>1, <1>2, <1>5, <2>2, EdgeMoves DEF SwapSteps
<1> QED  BY <1>1, <1>4, <1>5, Posted DEF RemoveRoute, edge, EdgeInv

LEMMA EdgeRecordRunning ==
  ASSUME "store" \notin Faults, RInv, RecordRunning PROVE EdgeInv'
<1> DEFINE row == NewRow("running", job.spec, job.sched, job.new)
<1>1. /\ IInv /\ EdgeInv /\ WorldTypeOK /\ OldRowRetired /\ pc = "record" /\ pc' = "idle"
      /\ rows' = Append(rows, row) /\ UNCHANGED <<conts, routes, caddy>>
  BY DEF RInv, SInv, IInv, TypeOK, RecordRunning, RecordDeployment, Done, edge
<1>2. ContsKept  BY <1>1, UnchangedConts
<1>3. rows \in Seq(Row)  BY <1>1 DEF WorldTypeOK
<1>4. row.spec = job.spec /\ row.reps = job.new
  BY DEF NewRow
<1>5. routes'[job.spec.dom] = Upstreams(job.new) /\ SeqSet(job.new) \subseteq ContIds
  BY <1>1, ListedConts DEF EdgeInv, DeploySteps, SwapSteps
<1> HIDE DEF row
<1>6. ASSUME NEW i \in RowIds', rows'[i].status = "running"
      PROVE  \/ /\ i \in RowIds /\ rows'[i] = rows[i] /\ ~Exempt(rows[i].app)
                /\ routes'[rows[i].spec.dom] = routes[rows[i].spec.dom]
             \/ routes'[rows'[i].spec.dom] = Upstreams(rows[i].reps)'
  <2>1. CASE i \in RowIds /\ rows'[i] = rows[i]
    <3>1. rows[i].app # job.app
      BY <1>1, <1>6, <2>1 DEF OldRowRetired, WithStatus
    <3> QED  BY <1>1, <2>1, <3>1 DEF Exempt, Swapping
  <2>2. CASE rows'[i] = row
    <3>1. rows'[i].spec = job.spec /\ rows'[i].reps = job.new
      BY <1>4, <2>2
    <3>2. Upstreams(rows[i].reps)' = Upstreams(job.new)
      BY <1>2, <1>5, <3>1, UpstreamsKept
    <3> QED  BY <1>5, <3>1, <3>2
  <2> QED  BY <1>1, <1>3, <2>1, <2>2 DEF RowIds
<1> QED  BY <1>1, <1>2, <1>6, EdgeMoves DEF SwapSteps, EdgeInv

LEMMA EdgeRecordFailed ==
  ASSUME "store" \notin Faults, RInv, RecordFailed PROVE EdgeInv'
<1> DEFINE row == NewRow("failed", job.spec, FALSE, <<>>)
<1>1. job \in Job /\ rows' = Append(rows, row) /\ pc = "fail" /\ pc' = "idle"
      /\ UNCHANGED <<conts, routes, caddy>>
  BY JobTyped DEF RInv, SInv, IInv, TypeOK, RecordFailed, RecordDeployment, Done, edge
<1>2. row \in Row /\ row.status # "running"
  BY <1>1, FailedRow DEF Job
<1> HIDE DEF row
<1> QED  BY <1>1, <1>2, FailedRowEdge DEF SwapSteps, RInv, EdgeInv

LEMMA EdgeRetireOldRow ==
  ASSUME "store" \notin Faults, RInv, RetireOldRow PROVE EdgeInv'
<1> DEFINE cur == CurrentDeployment(job.app)
<1>1. /\ WorldTypeOK /\ EdgeInv /\ AskedTypeOK /\ IInv
      /\ pc = "status" /\ pc' = "record" /\ UNCHANGED <<conts, asked, edge, job, routes, caddy>>
      /\ SetStatus(cur, "retired")
  BY DEF RInv, SInv, IInv, TypeOK, RetireOldRow, Goto, edge
<1>2. cur \in RowIds
  <2>1. WithStatus(job.app, "running") # {}  BY <1>1 DEF IInv, HolderOK
  <2> QED  BY <1>1, <2>1, NoCurrentRow, CurrentRow
<1>3. /\ RowIds' = RowIds
      /\ \A k \in RowIds : rows'[k] = IF k = cur THEN [rows[k] EXCEPT !.status = "retired"]
                                      ELSE rows[k]
  BY <1>1, <1>2, EdgeUnchanged, StatusSet DEF Status
<1>4. rows'[cur].status # "running"
  BY <1>1, <1>2, <1>3, RowTyped DEF Row
<1> HIDE DEF cur
<1>5. ContsKept  BY <1>1, UnchangedConts
<1>6. ASSUME NEW i \in RowIds', rows'[i].status = "running", ~Exempt(rows[i].app)'
      PROVE  i \in RowIds /\ rows'[i] = rows[i] /\ ~Exempt(rows[i].app)
  BY <1>1, <1>3, <1>4, <1>6 DEF Exempt, Swapping, SwapSteps
<1>7. routes'[job'.spec.dom] = Upstreams(job.new)'
  <2>1. SeqSet(job.new) \subseteq ContIds /\ routes[job.spec.dom] = Upstreams(job.new)
    BY <1>1, ListedConts DEF EdgeInv, DeploySteps, SwapSteps
  <2>2. Upstreams(job.new)' = Upstreams(job.new)
    BY <1>1, <1>5, <2>1, UpstreamsKept
  <2> QED  BY <1>1, <2>1, <2>2
<1> QED  BY <1>1, <1>5, <1>6, <1>7, EdgeMoves DEF EdgeInv

LEMMA EdgeRetireRemoved ==
  ASSUME "store" \notin Faults, RInv, RetireRemoved PROVE EdgeInv'
<1>1. /\ WorldTypeOK /\ EdgeInv /\ AskedTypeOK /\ IInv /\ OneRunning
      /\ pc = "rmstatus" /\ pc' = "idle" /\ UNCHANGED <<conts, asked, edge, routes, caddy>>
      /\ SetStatus(job.row, "retired")
  BY DEF RInv, SInv, IInv, TypeOK, RetireRemoved, Done, edge
<1>2. job.row \in RowIds /\ rows[job.row].status = "running" /\ rows[job.row].app = job.app
  BY <1>1 DEF IInv, HolderOK, RemoveSteps, WithStatus
<1>3. /\ RowIds' = RowIds
      /\ \A k \in RowIds : rows'[k] = IF k = job.row THEN [rows[k] EXCEPT !.status = "retired"]
                                      ELSE rows[k]
  BY <1>1, <1>2, EdgeUnchanged, StatusSet DEF Status
<1>4. rows'[job.row].status # "running"
  BY <1>1, <1>2, <1>3, RowTyped DEF Row
<1>5. ContsKept  BY <1>1, UnchangedConts
<1>6. ASSUME NEW i \in RowIds', rows'[i].status = "running"
      PROVE  i \in RowIds /\ rows'[i] = rows[i] /\ ~Exempt(rows[i].app)
  <2>1. i \in RowIds /\ rows'[i] = rows[i] /\ i # job.row
    BY <1>3, <1>4, <1>6
  <2>2. rows[i].app # job.app
    BY <1>1, <1>2, <1>6, <2>1 DEF OneRunning
  <2> QED  BY <1>1, <2>1, <2>2 DEF Exempt, Swapping
<1> QED  BY <1>1, <1>5, <1>6, EdgeMoves DEF EdgeInv, SwapSteps

\* A restarted daemon finds in the store the routes it had.
LEMMA StoreHasRoute ==
  ASSUME ExclusiveDomains, SpecsAreSubmitted, SInv, NEW i \in RowIds,
         rows[i].status = "running", rows[i].spec.dom # NoDomain
  PROVE  RouteFromStore(rows[i].spec.dom) = Upstreams(rows[i].reps)
<1> DEFINE d == rows[i].spec.dom
           claimants == {a \in Apps : Claims(a, d)}
<1>1. WorldTypeOK /\ OneRunning  BY DEF SInv, IInv, TypeOK
<1>2. rows[i].app \in Apps
  BY <1>1, RowTyped DEF Row
<1>3. i = CurrentDeployment(rows[i].app)
  <2>1. i \in WithStatus(rows[i].app, "running")  BY DEF WithStatus
  <2> QED  BY <1>1, <2>1, CurrentIsRunning
<1>4. i # 0  BY <1>1 DEF WorldTypeOK, RowIds
<1>5. rows[i].app \in claimants
  BY <1>2, <1>3, <1>4 DEF Claims
<1>6. ASSUME NEW a \in claimants PROVE CurrentDeployment(a) = i
  <2> DEFINE j == CurrentDeployment(a)
  <2>1. j # 0 /\ rows[j].spec.dom = d  BY <1>6 DEF Claims
  <2>2. j \in RowIds /\ rows[j].status = "running"
    BY <1>1, <2>1, CurrentRow DEF WithStatus
  <2> HIDE DEF j
  <2>3. j = i  BY <1>1, <2>1, <2>2, DomainOwner
  <2> QED  BY <2>3 DEF j
<1>7. (CHOOSE a \in claimants : TRUE) \in claimants
  BY <1>5
<1> QED  BY <1>5, <1>6, <1>7 DEF RouteFromStore

LEMMA EdgeCrashRestart ==
  ASSUME ExclusiveDomains, "store" \notin Faults, RInv, CrashRestart PROVE EdgeInv'
<1>1. /\ WorldTypeOK /\ IInv /\ UNCHANGED <<rows, conts>> /\ pc' = "idle"
      /\ routes' = InitialRoutes /\ caddy' = routes'
  BY DEF RInv, SInv, IInv, TypeOK, CrashRestart, Applied, Done
<1>2. ContsKept  BY <1>1, UnchangedConts
<1>3. ASSUME NEW i \in RowIds', rows'[i].status = "running", rows'[i].spec.dom # NoDomain
      PROVE  routes'[rows'[i].spec.dom] = Upstreams(rows[i].reps)'
  <2>1. i \in RowIds /\ rows'[i] = rows[i]
    BY <1>1, <1>3 DEF RowIds
  <2>2. RouteFromStore(rows[i].spec.dom) = Upstreams(rows[i].reps)
    BY <1>3, <2>1, StoreHasRoute DEF RInv
  <2>3. rows[i].spec.dom \in Domains /\ SeqSet(rows[i].reps) \subseteq ContIds
    BY <1>1, <2>1, RowTyped, ListedConts
  <2>4. Upstreams(rows[i].reps)' = Upstreams(rows[i].reps)
    BY <1>2, <2>1, <2>3, UpstreamsKept
  <2> QED  BY <1>1, <2>1, <2>2, <2>3, <2>4 DEF InitialRoutes
<1> QED  BY <1>1, <1>2, <1>3, EdgeMoves DEF SwapSteps

\* The steps of the holder that change neither the table nor a route.
LEMMA EdgeHolder ==
  ASSUME "ambiguous" \notin Faults, RInv,
         \/ RunReplica \/ RunReplicaFails \/ SetStaging \/ HealthGate \/ RemoveStaging
         \/ RetireOldSet \/ UndoStaging \/ Discard \/ RemoveContainers
  PROVE  EdgeInv'
<1>1. IInv /\ EdgeInv  BY DEF RInv, SInv
<1>2. ContsKept  BY <1>1, DeployKeepsConts DEF Deploy, Remove
<1>3. CASE RunReplica \/ RunReplicaFails \/ HealthGate \/ Discard \/ RemoveContainers
  <2>1. UNCHANGED <<rows, routes, caddy>> /\ pc' \notin SwapSteps
        /\ pc \notin SwapSteps /\ pc # "rmstatus"
    BY <1>3 DEF RunReplica, RunReplicaFails, HealthGate, Discard, RemoveContainers, Goto, Done,
       edge, world, SwapSteps
  <2> QED  BY <1>2, <2>1, EdgeStays
<1>4. CASE SetStaging
  <2>1. UNCHANGED <<rows, routes>> /\ (caddy' = caddy \/ caddy' = routes) /\ pc' \notin SwapSteps
        /\ pc \notin SwapSteps /\ pc # "rmstatus"
    BY <1>4 DEF SetStaging, Applied, Rejected, AppliedUnknown, Goto, edge, SwapSteps
  <2> QED  BY <1>2, <2>1, EdgeStays
<1>5. CASE RemoveStaging \/ UndoStaging
  <2>1. UNCHANGED routes /\ caddy' = routes
    BY <1>1, <1>5, ConfigurationKept DEF RemoveStaging, UndoStaging
  <2>2. UNCHANGED <<rows, job>> /\ pc # "rmstatus"
        /\ (pc \in SwapSteps <=> pc' \in SwapSteps)
    BY <1>5 DEF RemoveStaging, UndoStaging, Goto, SwapSteps
  <2> QED  BY <1>2, <2>1, <2>2, EdgeStays
<1>6. CASE RetireOldSet
  <2>1. UNCHANGED <<rows, routes, caddy, job>> /\ pc \in SwapSteps /\ pc' \in SwapSteps
        /\ pc # "rmstatus"
    BY <1>6 DEF RetireOldSet, Goto, edge, SwapSteps
  <2> QED  BY <1>2, <2>1, EdgeStays
<1> QED  BY <1>3, <1>4, <1>5, <1>6

LEMMA EdgeEnvironment ==
  ASSUME ExclusiveDomains, "store" \notin Faults, RInv, Environment \/ UNCHANGED vars
  PROVE  EdgeInv'
<1>1. IInv /\ EdgeInv /\ WorldTypeOK  BY DEF RInv, SInv, IInv, TypeOK
<1>2. CASE Cancel
  <2>1. job \in Job /\ UNCHANGED <<rows, routes, caddy, conts, pc>>
        /\ job' = [job EXCEPT !.live = FALSE]
    BY <1>1, <1>2, JobTyped DEF Cancel, world
  <2>2. job'.app = job.app /\ job'.spec = job.spec /\ job'.new = job.new
    BY <2>1 DEF Job
  <2>3. ContsKept  BY <1>1, <2>1, UnchangedConts
  <2> QED  BY <2>1, <2>2, <2>3, EdgeStays
<1>3. CASE CrashRestart
  BY <1>3, EdgeCrashRestart
<1>4. CASE (\E c \in ContIds : Die(c)) \/ UNCHANGED vars
  <2>1. UNCHANGED <<rows, routes, caddy, pc, job>>
    BY <1>4 DEF Die, vars, edge
  <2>2. ContsKept
    BY <1>1, <1>4, DeadConts, UnchangedConts DEF Die, vars
  <2> QED  BY <2>1, <2>2, EdgeStays
<1> QED  BY <1>2, <1>3, <1>4 DEF Environment

LEMMA NextRInv ==
  ASSUME ExclusiveDomains, Faults \cap {"store", "ambiguous"} = {}, RInv, [Next]_vars
  PROVE  RInv'
<1>1. "store" \notin Faults /\ "ambiguous" \notin Faults
  OBVIOUS
<1>2. SInv'  BY <1>1, NextSInv DEF RInv
<1>3. SpecsAreSubmitted'  BY SpecsStaySubmitted DEF RInv, SInv
<1>4. EdgeInv'
  <2>1. CASE Deploy \/ Remove
    BY <1>1, <2>1, EdgeHolder, EdgeFlip, EdgeRetireOldRow, EdgeRecordRunning,
       EdgeRecordFailed, EdgeRemoveRoute, EdgeRetireRemoved DEF Deploy, Remove
  <2> QED  BY <1>1, <2>1, EdgeRequest, EdgeEnvironment DEF Next
<1> QED  BY <1>2, <1>3, <1>4 DEF RInv

LEMMA InitRInv == Init => RInv
<1>1. ASSUME Init PROVE RowIds = {} /\ pc = "idle" /\ caddy = routes
  BY <1>1 DEF Init, WorldInit, RowIds
<1> QED  BY <1>1, InitSInv
         DEF RInv, SpecsAreSubmitted, EdgeInv, DeploySteps, SwapSteps, UndoSteps

\* What the store says is running is what the router routes, in memory and in
\* Caddy, outside the window from flip to record: whatever cannot be started,
\* removed or posted, whoever hangs up, and whenever the daemon restarts.  The
\* store takes its writes, a failed post has changed nothing, and no two apps
\* claim one domain.
THEOREM RunningIsRouted ==
  ASSUME ExclusiveDomains, Faults \cap {"store", "ambiguous"} = {}
  PROVE  Spec => []RowIsRouted
<1>1. RInv /\ [Next]_vars => RInv'  BY NextRInv
<1>2. ASSUME RInv PROVE RowIsRouted
  <2> SUFFICES ASSUME NEW a \in Apps, NEW d \in Domains \ {NoDomain},
                      Claims(a, d), ~Swapping(a), ~Removing(a)
               PROVE  /\ routes[d] = Upstreams(rows[CurrentDeployment(a)].reps)
                      /\ caddy[d] = routes[d]
    BY DEF RowIsRouted
  <2> DEFINE i == CurrentDeployment(a)
  <2>1. i # 0 /\ rows[i].spec.dom = d  BY DEF Claims
  <2>2. WorldTypeOK /\ EdgeInv  BY <1>2 DEF RInv, SInv, IInv, TypeOK
  <2>3. i \in RowIds /\ rows[i].app = a /\ rows[i].status = "running"
    BY <2>1, <2>2, CurrentRow DEF WithStatus
  <2>4. ~(pc = "rmstatus" /\ job.app = a)  BY DEF Removing, RemoveSteps
  <2> HIDE DEF i
  <2>5. routes[d] = Upstreams(rows[i].reps)
    BY <2>1, <2>2, <2>3, <2>4 DEF EdgeInv
  <2> QED  BY <2>2, <2>5 DEF i, EdgeInv
<1> QED  BY <1>1, <1>2, InitRInv, PTL DEF Spec

-----------------------------------------------------------------------------
(* What a step does to the current deployments *)

\* The table is as it was, but for failed attempts.
TableKept ==
  /\ \A i \in RowIds : i \in RowIds' /\ rows'[i] = rows[i]
  /\ \A i \in RowIds' \ RowIds : rows'[i].status = "failed"

\* The current row of a alone is retired.
Retires(a) ==
  /\ CurrentDeployment(a) # 0 /\ CurrentDeployment(a)' = 0
  /\ \A b : b # a => CurrentDeployment(b)' = CurrentDeployment(b)
  /\ RowIds' = RowIds
  /\ \A i \in RowIds : /\ rows'[i].spec = rows[i].spec /\ rows'[i].reps = rows[i].reps
                       /\ rows'[i].sched = rows[i].sched /\ rows'[i].app = rows[i].app
                       /\ rows[i].status # "failed" <=> rows'[i].status # "failed"
                       /\ rows'[i].status = "running" => rows[i].status = "running"

\* The candidate's row becomes the current one of its app a, which had none.
Records(a) ==
  /\ a = job.app /\ CurrentDeployment(a) = 0 /\ CurrentDeployment(a)' = NextDeployID
  /\ \A b : b # a => CurrentDeployment(b)' = CurrentDeployment(b)
  /\ RowIds' = RowIds \cup {NextDeployID} /\ \A i \in RowIds : rows'[i] = rows[i]
  /\ rows'[NextDeployID] = NewRow("running", job.spec, job.sched, job.new)

LEMMA TableUnchanged == ASSUME UNCHANGED rows PROVE TableKept
BY DEF TableKept, RowIds

LEMMA RowFailed ==
  ASSUME rows \in Seq(Row), NEW row \in Row, row.status = "failed", rows' = Append(rows, row)
  PROVE  TableKept
<1>1. /\ RowIds' = RowIds \cup {Len(rows) + 1}
      /\ \A i \in RowIds : rows'[i] = rows[i]
      /\ rows'[Len(rows) + 1] = row
  BY DEF RowIds
<1> QED  BY <1>1 DEF TableKept

LEMMA FailureRecorded ==
  ASSUME rows \in Seq(Row), NEW s \in Spec0,
         rows' = Append(rows, NewRow("failed", s, FALSE, <<>>))
  PROVE  TableKept
BY FailedRow, RowFailed

LEMMA CurrentKept ==
  ASSUME TableKept PROVE \A a : CurrentDeployment(a)' = CurrentDeployment(a)
<1> SUFFICES ASSUME NEW a PROVE CurrentDeployment(a)' = CurrentDeployment(a)
  OBVIOUS
<1>1. WithStatus(a, "running")' = WithStatus(a, "running")
  BY DEF TableKept, WithStatus
<1> QED  BY <1>1 DEF CurrentDeployment

LEMMA RowRetires ==
  ASSUME SInv, NEW k \in RowIds, rows[k].status = "running", SetStatus(k, "retired"),
         NEW a, a = rows[k].app
  PROVE  Retires(a)
<1>1. rows \in Seq(Row) /\ WorldTypeOK /\ OneRunning
  BY DEF SInv, IInv, TypeOK, WorldTypeOK
<1>2. /\ RowIds' = RowIds
      /\ \A i \in RowIds : rows'[i] = IF i = k THEN [rows[i] EXCEPT !.status = "retired"] ELSE rows[i]
  BY <1>1 DEF SetStatus, RowIds
<1>3. \A i \in RowIds : /\ rows'[i].app = rows[i].app /\ rows'[i].spec = rows[i].spec
                        /\ rows'[i].reps = rows[i].reps /\ rows'[i].sched = rows[i].sched
                        /\ rows'[i].status = IF i = k THEN "retired" ELSE rows[i].status
  BY <1>1, <1>2, RowTyped DEF Row
<1>4. k = CurrentDeployment(a) /\ k # 0
  <2>1. k \in WithStatus(a, "running")  BY DEF WithStatus
  <2> QED  BY <1>1, <2>1, CurrentIsRunning DEF RowIds
<1>5. CurrentDeployment(a)' = 0
  <2>1. ASSUME NEW i \in RowIds, rows'[i].app = a, rows'[i].status = "running" PROVE FALSE
    <3>1. i # k /\ rows[i].app = a /\ rows[i].status = "running"
      BY <1>3, <2>1
    <3> QED  BY <1>1, <3>1 DEF OneRunning
  <2>2. WithStatus(a, "running")' = {}
    BY <1>2, <2>1 DEF WithStatus
  <2> QED  BY <2>2 DEF CurrentDeployment, Newest
<1>6. ASSUME NEW b, b # a PROVE CurrentDeployment(b)' = CurrentDeployment(b)
  <2>1. WithStatus(b, "running")' = WithStatus(b, "running")
    BY <1>2, <1>3, <1>6 DEF WithStatus
  <2> QED  BY <2>1 DEF CurrentDeployment
<1> QED  BY <1>2, <1>3, <1>4, <1>5, <1>6 DEF Retires

LEMMA RowRecorded ==
  ASSUME SInv, pc = "record", RecordDeployment(NewRow("running", job.spec, job.sched, job.new)),
         NEW a, a = job.app
  PROVE  Records(a)
<1> DEFINE row == NewRow("running", job.spec, job.sched, job.new)
<1>1. /\ rows \in Seq(Row) /\ WorldTypeOK /\ WithStatus(a, "running") = {}
      /\ CandidateOK /\ NextDeployID = Len(rows) + 1
  BY DEF SInv, IInv, TypeOK, WorldTypeOK, HolderOK, OldRowRetired, DeploySteps, SwapSteps, NextDeployID
<1>2. row.app = a /\ row.status = "running" /\ rows' = Append(rows, row)
  BY <1>1 DEF NewRow, CandidateOK, RecordDeployment
<1> HIDE DEF row
<1>3. /\ RowIds' = RowIds \cup {NextDeployID} /\ \A i \in RowIds : rows'[i] = rows[i]
      /\ rows'[NextDeployID] = row /\ NextDeployID \notin RowIds
  BY <1>1, <1>2 DEF RowIds
<1>4. CurrentDeployment(a) = 0
  BY <1>1 DEF CurrentDeployment, Newest
<1>5. WithStatus(a, "running")' = {NextDeployID}
  BY <1>1, <1>2, <1>3 DEF WithStatus
<1>6. CurrentDeployment(a)' = NextDeployID
  <2>1. NextDeployID \in Nat  BY <1>1
  <2> QED  BY <1>5, <2>1 DEF CurrentDeployment, Newest
<1>7. ASSUME NEW b, b # a PROVE CurrentDeployment(b)' = CurrentDeployment(b)
  <2>1. WithStatus(b, "running")' = WithStatus(b, "running")
    BY <1>2, <1>3, <1>7 DEF WithStatus
  <2> QED  BY <2>1 DEF CurrentDeployment
<1> QED  BY <1>3, <1>4, <1>6, <1>7 DEF Records, row

\* Every step of BlueGreen leaves the current deployments, retires one, or records one.
LEMMA CurrentMoves ==
  ASSUME "store" \notin Faults, SInv, [Next]_vars
  PROVE  \/ TableKept /\ ~RetireOldRow /\ ~RetireRemoved /\ ~RecordRunning
         \/ \E a : a = job.app /\ (RetireOldRow \/ RetireRemoved) /\ Retires(a)
         \/ \E a : RecordRunning /\ Records(a)
<1> DEFINE Changes == RetireOldRow \/ RetireRemoved \/ RecordRunning
<1>1. IInv /\ WorldTypeOK /\ rows \in Seq(Row)
  BY DEF SInv, IInv, TypeOK, WorldTypeOK
<1>2. CASE RetireOldRow
  <2>1. pc = "status" /\ SetStatus(CurrentDeployment(job.app), "retired")
    BY <1>2 DEF RetireOldRow
  <2>2. CurrentDeployment(job.app) \in WithStatus(job.app, "running")
    BY <1>1, <2>1, NoCurrentRow, CurrentRow DEF IInv, HolderOK
  <2>3. PICK a : a = job.app
    OBVIOUS
  <2>4. Retires(a)
    BY <2>1, <2>2, <2>3, RowRetires DEF WithStatus
  <2> QED  BY <1>2, <2>3, <2>4
<1>3. CASE RetireRemoved
  <2>1. SetStatus(job.row, "retired") /\ job.row \in WithStatus(job.app, "running")
    BY <1>1, <1>3 DEF RetireRemoved, IInv, HolderOK, RemoveSteps
  <2>2. PICK a : a = job.app
    OBVIOUS
  <2>3. Retires(a)
    BY <2>1, <2>2, RowRetires DEF WithStatus
  <2> QED  BY <1>3, <2>2, <2>3
<1>4. CASE RecordRunning
  <2>1. PICK a : a = job.app
    OBVIOUS
  <2>2. Records(a)
    BY <1>4, <2>1, RowRecorded DEF RecordRunning
  <2> QED  BY <1>4, <2>2
<1>5. ASSUME ~Changes PROVE TableKept
  <2>1. CASE Request
    BY <1>1, <2>1, RequestCases, TableUnchanged, FailureRecorded
       DEF AskRollback, AskScale, BeginRemove, StartDeploy, AbandonDeploy, world
  <2>2. CASE RecordFailed
    <3>1. job.spec \in Spec0
      BY <1>1, <2>2, JobTyped DEF RecordFailed, Job
    <3> QED  BY <1>1, <2>2, <3>1, TableUnchanged, FailureRecorded DEF RecordFailed, RecordDeployment
  <2>3. CASE \/ RunReplica \/ RunReplicaFails \/ SetStaging \/ HealthGate \/ Flip \/ RemoveStaging
             \/ RetireOldSet \/ UndoStaging \/ Discard \/ RemoveContainers \/ RemoveRoute
             \/ Environment \/ UNCHANGED vars
    <3>1. UNCHANGED rows
      BY <2>3 DEF RunReplica, RunReplicaFails, SetStaging, HealthGate, Flip, RemoveStaging,
         RetireOldSet, UndoStaging, Discard, RemoveContainers, RemoveRoute, world,
         Environment, Cancel, CrashRestart, Die, vars
    <3> QED  BY <3>1, TableUnchanged
  <2> QED  BY <1>5, <2>1, <2>2, <2>3 DEF Next, Deploy, Remove
<1> QED  BY <1>2, <1>3, <1>4, <1>5

-----------------------------------------------------------------------------
(* A deploy is one step (RollsOut)                                         *)

Live == [a \in Apps |-> LiveOf(a)]
Recorded == [a \in Apps |-> RecordedOf(a)]
Past == {i \in RowIds : rows[i].status # "failed"}
Stutter == Live' = Live /\ Recorded' = Recorded /\ Past' = Past

\* What serves a, without a look at Caddy.
LiveIn(a) ==
  IF Swapping(a) THEN Generation(job.id, job.spec, Upstreams(job.new))
  ELSE IF pc = "rmstatus" /\ job.app = a THEN NoGeneration ELSE RecordedOf(a)

LEMMA LiveIs == RInv => \A a \in Apps : LiveOf(a) = LiveIn(a)
<1> SUFFICES ASSUME RInv, NEW a \in Apps PROVE LiveOf(a) = LiveIn(a)
  OBVIOUS
<1>1. EdgeInv /\ WorldTypeOK  BY DEF RInv, SInv, IInv, TypeOK
<1>2. CASE Swapping(a)
  <2>1. caddy[job.spec.dom] = Upstreams(job.new)
    BY <1>1, <1>2 DEF EdgeInv, Swapping
  <2>2. pc # "rmstatus"
    BY <1>2 DEF Swapping, SwapSteps
  <2> QED  BY <1>2, <2>1, <2>2 DEF LiveOf, LiveIn
<1>3. CASE ~Swapping(a) /\ pc = "rmstatus" /\ job.app = a
  BY <1>3 DEF LiveOf, LiveIn
<1>4. CASE ~Swapping(a) /\ ~(pc = "rmstatus" /\ job.app = a)
  <2> DEFINE cur == CurrentDeployment(a)
  <2>1. CASE cur = 0
    BY <1>4, <2>1 DEF LiveOf, LiveIn, RecordedOf
  <2>2. CASE cur # 0
    <3>1. cur \in RowIds /\ rows[cur].status = "running" /\ rows[cur].app = a
      BY <1>1, <2>2, CurrentRow DEF WithStatus
    <3> HIDE DEF cur
    <3>2. rows[cur].spec.dom # NoDomain => caddy[rows[cur].spec.dom] = Upstreams(rows[cur].reps)
      BY <1>1, <1>4, <3>1 DEF EdgeInv
    <3>3. Generation(cur, rows[cur].spec, caddy[rows[cur].spec.dom])
            = Generation(cur, rows[cur].spec, Upstreams(rows[cur].reps))
      BY <3>2 DEF Generation
    <3> QED  BY <1>4, <2>2, <3>3 DEF LiveOf, LiveIn, RecordedOf, cur
  <2> QED  BY <2>1, <2>2
<1> QED  BY <1>2, <1>3, <1>4

LEMMA LiveIsAfter == RInv' => (\A a \in Apps : LiveOf(a) = LiveIn(a))'
BY LiveIs, PTL

LEMMA RecordedKept ==
  ASSUME IInv, ContsKept, NEW a, NEW c, c = CurrentDeployment(a), CurrentDeployment(a)' = c,
         c # 0 => rows'[c].spec = rows[c].spec /\ rows'[c].reps = rows[c].reps
  PROVE  RecordedOf(a)' = RecordedOf(a)
<1>1. CASE c = 0
  BY <1>1 DEF RecordedOf
<1>2. CASE c # 0
  <2>1. c \in RowIds /\ SeqSet(rows[c].reps) \subseteq ContIds
    BY <1>2, CurrentRow, ListedConts DEF IInv, TypeOK
  <2>2. Upstreams(rows[c].reps)' = Upstreams(rows[c].reps)
    <3> DEFINE s == rows[c].reps
    <3>1. rows'[c].reps = s
      BY <1>2
    <3> QED  BY <2>1, <3>1, UpstreamsKept
  <2> QED  BY <1>2, <2>2 DEF RecordedOf, Generation
<1> QED  BY <1>1, <1>2

LEMMA TableRecords ==
  ASSUME IInv, ContsKept, TableKept PROVE (\A a : RecordedOf(a)' = RecordedOf(a)) /\ Past' = Past
<1>1. ASSUME NEW a PROVE RecordedOf(a)' = RecordedOf(a)
  <2> DEFINE c == CurrentDeployment(a)
  <2>1. c # 0 => c \in RowIds
    BY CurrentRow DEF IInv, TypeOK
  <2>2. CurrentDeployment(a)' = c
    BY CurrentKept
  <2> QED  BY <2>1, <2>2, RecordedKept DEF TableKept
<1>2. Past' = Past
  BY DEF Past, TableKept
<1> QED  BY <1>1, <1>2

\* The holder stays in, or out of, the window in which what serves is not recorded.
SameWindow ==
  /\ pc \in SwapSteps <=> pc' \in SwapSteps
  /\ pc = "rmstatus" <=> pc' = "rmstatus"
  /\ pc \in SwapSteps \cup {"rmstatus"} =>
       job'.app = job.app /\ job'.id = job.id /\ job'.spec = job.spec /\ job'.new = job.new

LEMMA WindowMoves ==
  ASSUME IInv, [Next]_vars
  PROVE  \/ Flip /\ pc' = "unstage"
         \/ RemoveRoute \/ CrashRestart \/ RetireOldRow \/ RetireRemoved \/ RecordRunning
         \/ SameWindow
<1>1. CASE Request
  BY <1>1, RequestCases DEF AskRollback, AskScale, BeginRemove, StartDeploy, AbandonDeploy, SameWindow, SwapSteps
<1>2. CASE \/ RunReplica \/ RunReplicaFails \/ SetStaging \/ HealthGate \/ RemoveStaging
           \/ RetireOldSet \/ UndoStaging \/ Discard \/ RecordFailed \/ RemoveContainers
           \/ Flip /\ pc' # "unstage"
  BY <1>2 DEF RunReplica, RunReplicaFails, SetStaging, HealthGate, RemoveStaging, Flip,
     RetireOldSet, UndoStaging, Discard, RecordFailed, RemoveContainers, Goto, Done, SameWindow, SwapSteps
<1>3. CASE Cancel
  <2>1. job \in Job  BY <1>3, JobTyped DEF Cancel
  <2> QED  BY <1>3, <2>1 DEF Cancel, SameWindow, Job
<1>4. CASE (\E c \in ContIds : Die(c)) \/ UNCHANGED vars
  BY <1>4 DEF Die, vars, SameWindow
<1> QED  BY <1>1, <1>2, <1>3, <1>4 DEF Next, Deploy, Remove, Environment

LEMMA SameWindowStutters ==
  ASSUME RInv, RInv', ContsKept, TableKept, SameWindow PROVE Stutter
<1>1. IInv /\ Past' = Past /\ \A a : RecordedOf(a)' = RecordedOf(a)
  BY TableRecords DEF RInv, SInv
<1>2. ASSUME NEW a \in Apps PROVE LiveIn(a)' = LiveIn(a)
  <2>1. CASE pc \in SwapSteps
    <3>1. SeqSet(job.new) \subseteq ContIds
      BY <1>1, <2>1, ListedConts DEF DeploySteps
    <3>2. Upstreams(job.new)' = Upstreams(job.new)
      BY <2>1, <3>1, UpstreamsKept DEF SameWindow
    <3>3. pc # "rmstatus" /\ pc' # "rmstatus" /\ (Swapping(a)' <=> Swapping(a))
      BY <2>1 DEF SameWindow, SwapSteps, Swapping
    <3> QED  BY <1>1, <2>1, <3>2, <3>3 DEF LiveIn, Generation, SameWindow
  <2>2. CASE pc \notin SwapSteps
    <3>1. ~Swapping(a) /\ ~Swapping(a)'
      BY <2>2 DEF SameWindow, Swapping
    <3> QED  BY <1>1, <3>1 DEF LiveIn, SameWindow
  <2> QED  BY <2>1, <2>2
<1>3. ASSUME NEW a \in Apps PROVE LiveOf(a)' = LiveOf(a)
  BY <1>2, LiveIs, LiveIsAfter
<1> QED  BY <1>1, <1>3 DEF Stutter, Live, Recorded

\* The steps of Rollout, app by app.
LEMMA Publishes ==
  ASSUME NEW a \in Apps, \A b \in Apps : LiveOf(b) = RecordedOf(b),
         \A b \in Apps \ {a} : LiveOf(b)' = LiveOf(b),
         LiveOf(a)' # NoGeneration, LiveOf(a)'.gen \notin Past,
         \A b \in Apps : RecordedOf(b)' = RecordedOf(b), Past' = Past
  PROVE  Promise!Next
<1>1. Promise!Publish(a)
  BY DEF Promise!Publish, Promise!Settled, Past
<1> QED  BY <1>1 DEF Promise!Next

LEMMA Withdraws ==
  ASSUME NEW a \in Apps, \A b \in Apps : LiveOf(b) = RecordedOf(b),
         \A b \in Apps \ {a} : LiveOf(b)' = LiveOf(b),
         LiveOf(a) # NoGeneration, LiveOf(a)' = NoGeneration,
         \A b \in Apps : RecordedOf(b)' = RecordedOf(b), Past' = Past
  PROVE  Promise!Next
<1>1. Promise!Withdraw(a)
  BY DEF Promise!Withdraw, Promise!Settled, Past
<1> QED  BY <1>1 DEF Promise!Next

LEMMA Strikes ==
  ASSUME NEW a \in Apps, LiveOf(a) # RecordedOf(a), RecordedOf(a) # NoGeneration,
         RecordedOf(a)' = NoGeneration,
         \A b \in Apps \ {a} : RecordedOf(b)' = RecordedOf(b),
         \A b \in Apps : LiveOf(b)' = LiveOf(b), Past' = Past
  PROVE  Promise!Next
<1>1. Recorded' = [Recorded EXCEPT ![a] = NoGeneration]
  <2>1. \A b \in Apps : RecordedOf(b)' = IF b = a THEN NoGeneration ELSE RecordedOf(b)
    OBVIOUS
  <2> QED  BY <2>1 DEF Recorded
<1>2. Live' = Live
  BY DEF Live
<1>3. Promise!Strike(a)
  BY <1>1, <1>2 DEF Promise!Strike, Live, Recorded, Past
<1> QED  BY <1>3 DEF Promise!Next

LEMMA RecordsLive ==
  ASSUME NEW a \in Apps, LiveOf(a) # RecordedOf(a), LiveOf(a) # NoGeneration,
         RecordedOf(a)' = LiveOf(a),
         \A b \in Apps \ {a} : RecordedOf(b)' = RecordedOf(b),
         \A b \in Apps : LiveOf(b)' = LiveOf(b), Past' = Past \cup {LiveOf(a).gen}
  PROVE  Promise!Next
<1>1. Promise!Record(a)
  BY DEF Promise!Record, Past
<1> QED  BY <1>1 DEF Promise!Next

LEMMA Restarts ==
  ASSUME \A b \in Apps : LiveOf(b)' = RecordedOf(b),
         \A b \in Apps : RecordedOf(b)' = RecordedOf(b), Past' = Past
  PROVE  Promise!Next
<1>1. Promise!Restart
  BY DEF Promise!Restart, Past
<1> QED  BY <1>1 DEF Promise!Next

\* What serves is what is recorded, of every app but the one being swapped or removed.
LEMMA OthersSettled ==
  ASSUME RInv, NEW a \in Apps, ~Swapping(a), ~(pc = "rmstatus" /\ job.app = a)
  PROVE  LiveOf(a) = RecordedOf(a)
BY LiveIs DEF LiveIn

LEMMA OthersSettledAfter ==
  ASSUME RInv', NEW a \in Apps, ~Swapping(a)', ~(pc' = "rmstatus" /\ job'.app = a)
  PROVE  LiveOf(a)' = RecordedOf(a)'
BY LiveIsAfter DEF LiveIn

LEMMA SwappedServes ==
  ASSUME RInv, pc \in SwapSteps
  PROVE  /\ job \in Job /\ CandidateOK /\ job.app \in Apps /\ SeqSet(job.new) \subseteq ContIds
         /\ LiveOf(job.app) = Generation(job.id, job.spec, Upstreams(job.new))
         /\ LiveOf(job.app).gen = NextDeployID
<1>1. IInv /\ WorldTypeOK
  BY DEF RInv, SInv, IInv, TypeOK
<1>2. job \in Job /\ CandidateOK /\ SeqSet(job.new) \subseteq ContIds
  BY <1>1, JobTyped, ListedConts DEF IInv, HolderOK, DeploySteps, SwapSteps
<1>3. job.app \in Apps
  BY <1>2 DEF Job
<1>4. LiveOf(job.app) = Generation(job.id, job.spec, Upstreams(job.new))
  BY <1>3, LiveIs DEF LiveIn, Swapping
<1> QED  BY <1>2, <1>3, <1>4 DEF Generation, CandidateOK

LEMMA RecordedRow ==
  ASSUME WorldTypeOK, NEW a, CurrentDeployment(a) # 0
  PROVE  /\ RecordedOf(a).gen = CurrentDeployment(a) /\ CurrentDeployment(a) \in 1..Len(rows)
         /\ RecordedOf(a) # NoGeneration
<1>1. CurrentDeployment(a) \in 1..Len(rows)
  BY CurrentRow DEF WorldTypeOK, RowIds
<1>2. RecordedOf(a).gen = CurrentDeployment(a)
  BY DEF RecordedOf, Generation
<1> QED  BY <1>1, <1>2 DEF NoGeneration

LEMMA FlipPublishes ==
  ASSUME RInv, RInv', ContsKept, Flip, pc' = "unstage" PROVE Promise!Next
<1>1. /\ pc = "flip" /\ job' = job /\ UNCHANGED rows
      /\ rows \in Seq(Row) /\ \A b \in Apps : ~Swapping(b)
  BY DEF Flip, Goto, RInv, SInv, IInv, TypeOK, WorldTypeOK, Swapping, SwapSteps
<1>2. /\ \A b \in Apps : RecordedOf(b)' = RecordedOf(b)
      /\ Past' = Past
  BY <1>1, TableUnchanged, TableRecords DEF RInv, SInv
<1>3. \A b \in Apps : LiveOf(b) = RecordedOf(b)
  BY <1>1, OthersSettled
<1>4. PICK a : a = job.app
  OBVIOUS
<1>5. job.id = NextDeployID /\ a \in Apps /\ pc' \in SwapSteps
  BY <1>1, <1>4, JobTyped DEF RInv, SInv, IInv, HolderOK, DeploySteps, CandidateOK, SwapSteps, Job
<1>6. LiveOf(a)' = Generation(job.id, job.spec, Upstreams(job.new))'
  BY <1>1, <1>4, <1>5, LiveIsAfter DEF LiveIn, Swapping
<1>7. LiveOf(a)'.gen = Len(rows) + 1
  BY <1>1, <1>5, <1>6 DEF Generation, NextDeployID
<1>8. LiveOf(a)' # NoGeneration /\ LiveOf(a)'.gen \notin Past
  BY <1>1, <1>7 DEF NoGeneration, Past, RowIds
<1>9. \A b \in Apps \ {a} : LiveOf(b)' = LiveOf(b)
  <2> SUFFICES ASSUME NEW b \in Apps \ {a} PROVE LiveOf(b)' = LiveOf(b)
    OBVIOUS
  <2>1. ~Swapping(b)' /\ ~(pc' = "rmstatus" /\ job'.app = b)
    BY <1>1, <1>4 DEF Swapping
  <2> QED  BY <1>2, <1>3, <2>1, OthersSettledAfter
<1> QED  BY <1>2, <1>3, <1>5, <1>8, <1>9, Publishes

LEMMA RemovalWithdraws ==
  ASSUME RInv, RInv', ContsKept, RemoveRoute PROVE Promise!Next
<1>1. /\ pc = "rmroute" /\ pc' = "rmstatus" /\ job' = job /\ UNCHANGED rows
      /\ WorldTypeOK /\ \A b \in Apps : ~Swapping(b) /\ ~Swapping(b)'
  BY DEF RemoveRoute, Goto, RInv, SInv, IInv, TypeOK, Swapping, SwapSteps
<1>2. /\ \A b \in Apps : RecordedOf(b)' = RecordedOf(b)
      /\ Past' = Past
  BY <1>1, TableUnchanged, TableRecords DEF RInv, SInv
<1>3. \A b \in Apps : LiveOf(b) = RecordedOf(b)
  BY <1>1, OthersSettled
<1>4. PICK a : a = job.app
  OBVIOUS
<1>5. a \in Apps /\ CurrentDeployment(a) # 0
  BY <1>1, <1>4, JobTyped, NoCurrentRow DEF RInv, SInv, IInv, HolderOK, RemoveSteps, Job
<1>6. LiveOf(a) # NoGeneration
  BY <1>1, <1>3, <1>5, RecordedRow
<1>7. LiveOf(a)' = NoGeneration
  BY <1>1, <1>4, <1>5, LiveIsAfter DEF LiveIn
<1>8. \A b \in Apps \ {a} : LiveOf(b)' = LiveOf(b)
  BY <1>1, <1>2, <1>3, <1>4, OthersSettledAfter
<1> QED  BY <1>2, <1>3, <1>5, <1>6, <1>7, <1>8, Withdraws

LEMMA RestartGoesBack ==
  ASSUME IInv, RInv', UNCHANGED <<rows, conts>>, pc' = "idle" PROVE Promise!Next
<1>1. ContsKept
  BY UnchangedConts DEF IInv, TypeOK
<1>2. /\ \A b \in Apps : RecordedOf(b)' = RecordedOf(b)
      /\ Past' = Past
  BY <1>1, TableUnchanged, TableRecords
<1>3. \A b \in Apps : ~Swapping(b)'
  BY DEF Swapping, SwapSteps
<1>4. \A b \in Apps : LiveOf(b)' = RecordedOf(b)
  BY <1>2, <1>3, OthersSettledAfter
<1> QED  BY <1>2, <1>4, Restarts

LEMMA RetireStrikes ==
  ASSUME RInv, RInv', ContsKept, RetireOldRow \/ RetireRemoved,
         NEW a, a = job.app, Retires(a)
  PROVE  Promise!Next
<1>0. WorldTypeOK /\ IInv /\ rows \in Seq(Row)
  BY DEF RInv, SInv, IInv, TypeOK, WorldTypeOK
<1>1. /\ pc \in {"status", "rmstatus"} /\ a \in Apps
      /\ pc = "status" => pc' = "record" /\ job' = job
      /\ pc = "rmstatus" => pc' = "idle"
  BY <1>0, JobTyped DEF RetireOldRow, RetireRemoved, Goto, Done, Job
<1>2. RecordedOf(a)' = NoGeneration
  BY DEF Retires, RecordedOf
<1>3. RecordedOf(a).gen \in 1..Len(rows) /\ RecordedOf(a) # NoGeneration
  BY <1>0, RecordedRow DEF Retires
<1>4. ASSUME NEW b \in Apps \ {a} PROVE RecordedOf(b)' = RecordedOf(b)
  <2>1. PICK c : c = CurrentDeployment(b)
    OBVIOUS
  <2>2. CurrentDeployment(b)' = c
    BY <1>4, <2>1 DEF Retires
  <2>3. c # 0 => rows'[c].spec = rows[c].spec /\ rows'[c].reps = rows[c].reps
    BY <1>0, <2>1, CurrentRow DEF Retires
  <2> QED  BY <1>0, <2>1, <2>2, <2>3, RecordedKept
<1>5. Past' = Past
  BY DEF Retires, Past
<1>6. ASSUME NEW b \in Apps \ {a} PROVE LiveOf(b)' = LiveOf(b)
  <2>1. ~Swapping(b) /\ ~Swapping(b)' /\ ~(pc = "rmstatus" /\ job.app = b) /\ pc' # "rmstatus"
    BY <1>1, <1>6 DEF Swapping, SwapSteps
  <2> QED  BY <1>4, <1>6, <2>1, OthersSettled, OthersSettledAfter
<1>7. CASE pc = "status"
  <2>1. pc \in SwapSteps /\ pc' \in SwapSteps /\ job' = job
    BY <1>1, <1>7 DEF SwapSteps
  <2>2. /\ LiveOf(a) = Generation(job.id, job.spec, Upstreams(job.new))
        /\ LiveOf(a).gen = Len(rows) + 1 /\ SeqSet(job.new) \subseteq ContIds
    BY <2>1, SwappedServes DEF NextDeployID
  <2>3. LiveOf(a)' = Generation(job.id, job.spec, Upstreams(job.new))'
    BY <1>1, <2>1, LiveIsAfter DEF LiveIn, Swapping
  <2>4. Upstreams(job.new)' = Upstreams(job.new)
    BY <1>0, <2>1, <2>2, UpstreamsKept
  <2>5. LiveOf(a)' = LiveOf(a)
    BY <2>1, <2>2, <2>3, <2>4 DEF Generation
  <2>6. LiveOf(a) # RecordedOf(a)
    BY <1>0, <1>3, <2>2
  <2> QED  BY <1>1, <1>2, <1>3, <1>4, <1>5, <1>6, <2>5, <2>6, Strikes
<1>8. CASE pc = "rmstatus"
  <2>1. pc' = "idle" /\ ~Swapping(a) /\ ~Swapping(a)'
    BY <1>1, <1>8 DEF Swapping, SwapSteps
  <2>2. LiveOf(a) = NoGeneration
    BY <1>1, <1>8, <2>1, LiveIs DEF LiveIn
  <2>3. LiveOf(a)' = NoGeneration
    BY <1>1, <1>2, <2>1, OthersSettledAfter
  <2> QED  BY <1>1, <1>2, <1>3, <1>4, <1>5, <1>6, <2>2, <2>3, Strikes
<1> QED  BY <1>1, <1>7, <1>8

LEMMA RecordingRecords ==
  ASSUME RInv, RInv', ContsKept, RecordRunning, NEW a, Records(a)
  PROVE  Promise!Next
<1>0. WorldTypeOK /\ IInv /\ rows \in Seq(Row)
  BY DEF RInv, SInv, IInv, TypeOK, WorldTypeOK
<1>1. a = job.app /\ pc \in SwapSteps /\ pc' = "idle"
  BY DEF Records, RecordRunning, Done, SwapSteps
<1>2. /\ LiveOf(a) = Generation(job.id, job.spec, Upstreams(job.new)) /\ a \in Apps
      /\ LiveOf(a).gen = NextDeployID /\ SeqSet(job.new) \subseteq ContIds /\ job.id = NextDeployID
  BY <1>1, SwappedServes DEF CandidateOK
<1>3. PICK n, s : n = NextDeployID /\ s = job.new
  OBVIOUS
<1>4. /\ CurrentDeployment(a)' = n /\ n # 0 /\ n = Len(rows) + 1
      /\ rows'[n].spec = job.spec /\ rows'[n].reps = s /\ rows'[n].status = "running"
  BY <1>0, <1>3 DEF Records, NewRow, NextDeployID
<1>5. Upstreams(rows[n].reps)' = Upstreams(s)
  <2>1. Upstreams(s)' = Upstreams(s)
    BY <1>0, <1>2, <1>3, UpstreamsKept
  <2> QED  BY <1>4, <2>1
<1>6. RecordedOf(a)' = LiveOf(a)
  BY <1>2, <1>3, <1>4, <1>5 DEF RecordedOf, Generation
<1>7. RecordedOf(a) = NoGeneration /\ LiveOf(a) # NoGeneration
  <2>1. RecordedOf(a) = NoGeneration
    BY DEF Records, RecordedOf
  <2> QED  BY <1>2, <1>3, <1>4, <2>1 DEF NoGeneration
<1>8. ASSUME NEW b \in Apps \ {a} PROVE RecordedOf(b)' = RecordedOf(b)
  <2>1. PICK c : c = CurrentDeployment(b)
    OBVIOUS
  <2>2. CurrentDeployment(b)' = c
    BY <1>8, <2>1 DEF Records
  <2>3. c # 0 => rows'[c].spec = rows[c].spec /\ rows'[c].reps = rows[c].reps
    BY <1>0, <2>1, CurrentRow DEF Records
  <2> QED  BY <1>0, <2>1, <2>2, <2>3, RecordedKept
<1>9. Past' = Past \cup {LiveOf(a).gen}
  <2>1. RowIds' = RowIds \cup {n} /\ \A i \in RowIds : rows'[i] = rows[i]
    BY <1>3 DEF Records
  <2> QED  BY <1>2, <1>3, <1>4, <2>1 DEF Past
<1>10. ASSUME NEW b \in Apps PROVE LiveOf(b)' = LiveOf(b)
  <2>1. ~Swapping(b)' /\ pc' # "rmstatus"
    BY <1>1 DEF Swapping, SwapSteps
  <2>2. CASE b = a
    BY <1>6, <2>1, <2>2, OthersSettledAfter
  <2>3. CASE b # a
    <3>1. ~Swapping(b) /\ pc # "rmstatus"
      BY <1>1, <2>3 DEF Swapping, SwapSteps
    <3> QED  BY <1>8, <2>1, <2>3, <3>1, OthersSettled, OthersSettledAfter
  <2> QED  BY <2>2, <2>3
<1> QED  BY <1>2, <1>6, <1>7, <1>8, <1>9, <1>10, RecordsLive

\* A step of BlueGreen is one of Rollout, or none.
LEMMA RolloutStep ==
  ASSUME ExclusiveDomains, "store" \notin Faults, RInv, RInv', [Next]_vars
  PROVE  Promise!Next \/ Stutter
<1>1. IInv /\ SInv /\ ContsKept
  BY NextKeepsConts DEF RInv, SInv
<1>2. CASE CrashRestart
  BY <1>1, <1>2, RestartGoesBack DEF CrashRestart, Done
<1>3. CASE \E a : a = job.app /\ (RetireOldRow \/ RetireRemoved) /\ Retires(a)
  BY <1>1, <1>3, RetireStrikes
<1>4. CASE \E a : RecordRunning /\ Records(a)
  BY <1>1, <1>4, RecordingRecords
<1>5. CASE TableKept /\ ~RetireOldRow /\ ~RetireRemoved /\ ~RecordRunning
  BY <1>1, <1>2, <1>5, WindowMoves, FlipPublishes, RemovalWithdraws, SameWindowStutters
<1> QED  BY <1>1, <1>3, <1>4, <1>5, CurrentMoves

LEMMA RolloutInit == Init => Promise!Init
<1> SUFFICES ASSUME Init PROVE Promise!Init
  OBVIOUS
<1>1. rows = <<>> /\ RowIds = {} /\ pc = "idle"
  BY DEF Init, WorldInit, RowIds
<1>2. \A a : CurrentDeployment(a) = 0
  BY <1>1 DEF CurrentDeployment, WithStatus, Newest
<1>3. \A a : RecordedOf(a) = NoGeneration /\ LiveOf(a) = NoGeneration
  BY <1>1, <1>2 DEF RecordedOf, LiveOf, Swapping, SwapSteps
<1>4. {i \in RowIds : rows[i].status # "failed"} = {}
  BY <1>1
<1> QED  BY <1>3, <1>4 DEF Promise!Init

\* To a client a deploy, a rollback, a scale or a removal is one step: Caddy goes
\* over to the whole new set of one app at once, the store follows, or a restart
\* takes that app back to what is recorded, and the other apps stay as they are
\* (deployReplicaSet, removeSingleService, buildInitialRoutes).  The store takes
\* its writes, a failed post has changed nothing, and no two apps claim one domain.
THEOREM DeploysRollOut ==
  ASSUME ExclusiveDomains, Faults \cap {"store", "ambiguous"} = {}
  PROVE  Spec => RollsOut
<1>1. RInv /\ RInv' /\ [Next]_vars =>
        [Promise!Next]_<<[a \in Apps |-> LiveOf(a)], [a \in Apps |-> RecordedOf(a)],
                   {i \in RowIds : rows[i].status # "failed"}>>
  <2> SUFFICES ASSUME RInv, RInv', [Next]_vars PROVE Promise!Next \/ Stutter
    BY DEF Stutter, Live, Recorded, Past
  <2> QED  BY RolloutStep
<1>2. RInv /\ [Next]_vars => RInv'
  BY NextRInv
<1> QED  BY <1>1, <1>2, InitRInv, RolloutInit, PTL DEF Spec, RollsOut, Promise!Spec

=============================================================================
