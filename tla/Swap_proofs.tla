----------------------------- MODULE Swap_proofs -----------------------------
(***************************************************************************)
(* The two promises of BlueGreen's swap that relate the containers to the  *)
(* table and to the routes, for every instance: what Caddy sends an app's  *)
(* traffic to is up and ready at every step (NoDowntime), and at rest no   *)
(* container is left that no running deployment lists (NoOrphans).         *)
(***************************************************************************)
EXTENDS BlueGreen_proofs

-----------------------------------------------------------------------------
(* What is assumed, and the inductive invariant of NoDowntime *)

\* A domain belongs to one app, and so does the lack of one.
OwnDomains == \A s, t \in Specs : s.dom = t.dom => s.app = t.app

\* The health gate of a spec sees the very replica it vouches for: Docker's
\* verdict is the container's, and a probe through the staging host reaches the
\* only replica there is.  (Behind one host one replica answers for another.)
Gateable(s) == s.gate = "docker" \/ (s.count = 1 /\ Counts \subseteq {1})

UpLive(s) == Len(s) > 0 /\ \A c \in SeqSet(s) : Answers(c)

\* Every running row outside its app's swap or removal is routed, and up.
RowsServe ==
  \A i \in RowIds :
    (rows[i].status = "running" /\ ~Swapping(rows[i].app) /\ ~Removing(rows[i].app)) =>
      /\ routes[rows[i].spec.dom] = Upstreams(rows[i].reps)
      /\ UpLive(rows[i].reps)

\* The candidate is complete when it is gated, up and ready once it has passed
\* the gate, and routed once the route has been flipped.
CandServes ==
  /\ pc \in {"stage", "gate", "flip"} \cup SwapSteps => Len(job.new) = job.spec.count
  /\ pc \in {"flip"} \cup SwapSteps => UpLive(job.new)
  /\ pc \in {"run", "stage", "gate"} => \A c \in SeqSet(job.new) : conts[c].state = "running"
  /\ pc \in SwapSteps => routes[job.spec.dom] = Upstreams(job.new)

\* A removal that found no row to retire is of an app that runs nothing.
NoRow == (pc = "rmconts" /\ job.row = 0) => WithStatus(job.app, "running") = {}

GatesOK ==
  /\ \A i \in RowIds : Gateable(rows[i].spec)
  /\ pc \in DeploySteps => Gateable(job.spec)

DInv == RInv /\ GenerationIsRow /\ RowsServe /\ CandServes /\ NamesUnique /\ NoRow /\ GatesOK

-----------------------------------------------------------------------------
(* Upstreams and the containers behind them *)

\* An upstream reaches one container only.
LEMMA BehindIsOne ==
  ASSUME WorldTypeOK, NamesUnique, NEW c \in ContIds, conts[c].state # "gone"
  PROVE  Behind(UpstreamOf(c)) = {c}
<1>1. c \in Behind(UpstreamOf(c))
  BY DEF Behind
<1>2. \A d \in Behind(UpstreamOf(c)) : d = c
  BY UpstreamIsOne DEF Behind
<1> QED  BY <1>1, <1>2

\* What is routed to a set that is up and ready is served by it.
LEMMA UpIsServed ==
  ASSUME WorldTypeOK, NamesUnique, NEW s, SeqSet(s) \subseteq ContIds, DOMAIN s = 1..Len(s),
         Len(s) \in Nat, UpLive(s)
  PROVE  /\ Upstreams(s) # {}
         /\ \A u \in Upstreams(s) : Behind(u) # {} /\ \A c \in Behind(u) : Answers(c)
<1>1. UpstreamOf(s[1]) \in Upstreams(s)
  BY DEF UpLive, Upstreams
<1>2. ASSUME NEW u \in Upstreams(s) PROVE Behind(u) # {} /\ \A c \in Behind(u) : Answers(c)
  <2>1. PICK i \in DOMAIN s : u = UpstreamOf(s[i])
    BY DEF Upstreams
  <2>2. s[i] \in SeqSet(s)  BY DEF SeqSet
  <2>3. s[i] \in ContIds /\ Answers(s[i])
    BY <2>2 DEF UpLive
  <2>4. conts[s[i]].state # "gone"
    BY <2>3 DEF Answers
  <2>5. Behind(u) = {s[i]}
    BY <2>1, <2>3, <2>4, BehindIsOne
  <2> QED  BY <2>3, <2>5
<1> QED  BY <1>1, <1>2

\* A candidate that passes the gate is up and ready.
LEMMA GatedIsUp ==
  ASSUME DInv, pc = "gate", \A i \in DOMAIN job.new : Gated(job.spec.gate, job.new, job.new[i])
  PROVE  UpLive(job.new)
<1>1. /\ IInv /\ WorldTypeOK /\ job \in Job /\ Len(job.new) = job.spec.count
      /\ Gateable(job.spec) /\ SeqSet(job.new) \subseteq ContIds
      /\ \A c \in SeqSet(job.new) : conts[c].state = "running"
  BY JobTyped, ListedConts DEF DInv, RInv, SInv, IInv, TypeOK, CandServes, GatesOK, DeploySteps
<1>2. /\ job.new \in Seq(Nat) /\ job.spec.count \in Nat \ {0} /\ job.spec.gate \in Gates
  BY <1>1 DEF Job, Spec0
<1>3. DOMAIN job.new = 1..Len(job.new) /\ Len(job.new) > 0
  BY <1>1, <1>2
<1>4. ASSUME NEW i \in DOMAIN job.new PROVE Answers(job.new[i])
  <2>1. Gated(job.spec.gate, job.new, job.new[i])  OBVIOUS
  <2>2. CASE job.spec.gate = "docker"
    BY <2>1, <2>2 DEF Gated
  <2>3. CASE job.spec.gate # "docker"
    <3>1. DOMAIN job.new = {1} /\ i = 1
      BY <1>1, <1>2, <1>3, <2>3 DEF Gateable
    <3>2. StagedAnswers(job.new)
      BY <1>2, <2>1, <2>3 DEF Gated, Gates
    <3>3. PICK c \in Behind(UpstreamOf(job.new[1])) : Answers(c)
      BY <3>1, <3>2 DEF StagedAnswers
    <3>4. job.new[1] \in SeqSet(job.new)
      BY <3>1 DEF SeqSet
    <3>5. job.new[1] \in ContIds /\ conts[job.new[1]].state # "gone"
      BY <1>1, <3>4
    <3>6. Behind(UpstreamOf(job.new[1])) = {job.new[1]}
      BY <1>1, <3>5, BehindIsOne DEF DInv
    <3> QED  BY <3>1, <3>3, <3>6
  <2> QED  BY <2>2, <2>3
<1> QED  BY <1>3, <1>4 DEF UpLive, SeqSet

-----------------------------------------------------------------------------
(* What a step does to the containers *)

\* A container that none of these is about stays as it is.
LEMMA ContStays ==
  ASSUME IInv, [Next]_vars, "die" \notin Faults, NEW c \in ContIds,
         ~(/\ pc = "retire" /\ CurrentDeployment(job.app) # 0
           /\ c \in SeqSet(rows[CurrentDeployment(job.app)].reps)),
         ~(pc = "discard" /\ c \in SeqSet(job.new)),
         ~(pc = "rmconts" /\ conts[c].app = job.app)
  PROVE  conts'[c] = conts[c]
<1>1. WorldTypeOK /\ conts \in Seq(Container)  BY DEF IInv, TypeOK, WorldTypeOK
<1>2. CASE pc = "run" /\ StartContainer
  BY <1>1, <1>2, NextReplicaTyped, ContainersAppended DEF StartContainer
<1>3. ASSUME NEW cs, conts' = WithoutConts(cs), c \notin cs PROVE conts'[c] = conts[c]
  BY <1>3 DEF WithoutConts
<1> QED  BY <1>2, <1>3, ContsMove DEF Die

LEMMA UpLiveKept ==
  ASSUME NEW s, \A c \in SeqSet(s) : conts'[c] = conts[c]
  PROVE  UpLive(s)' = UpLive(s)
BY DEF UpLive, Answers, SeqSet

\* The containers that serve an app are not touched by another operation ...
LEMMA ServingStay ==
  ASSUME SInv, GenerationIsRow, [Next]_vars, "die" \notin Faults, NEW i \in RowIds,
         rows[i].status = "running", ~Swapping(rows[i].app), ~Removing(rows[i].app)
  PROVE  \A c \in SeqSet(rows[i].reps) : conts'[c] = conts[c]
<1>1. /\ IInv /\ WorldTypeOK /\ GenerationIsRow /\ HolderOK
      /\ SeqSet(rows[i].reps) \subseteq ContIds
  BY ListedConts DEF SInv, IInv, TypeOK
<1> SUFFICES ASSUME NEW c \in SeqSet(rows[i].reps) PROVE conts'[c] = conts[c]
  OBVIOUS
<1>2. c \in ContIds /\ conts[c].dep = i /\ conts[c].app = rows[i].app
  BY <1>1 DEF GenerationIsRow
<1>3. ~(/\ pc = "retire" /\ CurrentDeployment(job.app) # 0
        /\ c \in SeqSet(rows[CurrentDeployment(job.app)].reps))
  <2> SUFFICES ASSUME pc = "retire", CurrentDeployment(job.app) # 0,
                      c \in SeqSet(rows[CurrentDeployment(job.app)].reps)
               PROVE  FALSE
    OBVIOUS
  <2>1. CurrentDeployment(job.app) \in RowIds /\ rows[CurrentDeployment(job.app)].app = job.app
    BY <1>1, CurrentRow DEF WithStatus
  <2>2. conts[c].app = job.app
    BY <1>1, <2>1 DEF GenerationIsRow
  <2> QED  BY <1>2, <2>2 DEF Swapping, SwapSteps
<1>4. ~(pc = "discard" /\ c \in SeqSet(job.new))
  <2> SUFFICES ASSUME pc = "discard", c \in SeqSet(job.new) PROVE FALSE
    OBVIOUS
  <2>1. conts[c].dep = Len(rows) + 1
    BY <1>1 DEF HolderOK, CandidateOK, NextDeployID, DeploySteps, UndoSteps
  <2>2. i \in 1..Len(rows) /\ Len(rows) \in Nat
    BY <1>1 DEF WorldTypeOK, RowIds
  <2> QED  BY <1>2, <2>1, <2>2
<1>5. ~(pc = "rmconts" /\ conts[c].app = job.app)
  BY <1>2 DEF Removing, RemoveSteps
<1> QED  BY <1>1, <1>2, <1>3, <1>4, <1>5, ContStays

\* ... nor are those of a candidate that has not failed.
LEMMA CandidateStays ==
  ASSUME SInv, GenerationIsRow, [Next]_vars, "die" \notin Faults,
         pc \in {"run", "stage", "gate", "flip"} \cup SwapSteps
  PROVE  \A c \in SeqSet(job.new) : c \in ContIds /\ conts'[c] = conts[c]
<1>1. /\ IInv /\ WorldTypeOK /\ GenerationIsRow /\ CandidateOK
      /\ SeqSet(job.new) \subseteq ContIds
  BY ListedConts DEF SInv, IInv, TypeOK, HolderOK, DeploySteps
<1> SUFFICES ASSUME NEW c \in SeqSet(job.new) PROVE c \in ContIds /\ conts'[c] = conts[c]
  OBVIOUS
<1>2. c \in ContIds /\ conts[c].dep = Len(rows) + 1
  BY <1>1 DEF CandidateOK, NextDeployID
<1>3. ~(CurrentDeployment(job.app) # 0 /\ c \in SeqSet(rows[CurrentDeployment(job.app)].reps))
  <2> DEFINE i == CurrentDeployment(job.app)
  <2> SUFFICES ASSUME i # 0, c \in SeqSet(rows[i].reps) PROVE FALSE
    OBVIOUS
  <2>1. i \in RowIds  BY <1>1, CurrentRow
  <2> HIDE DEF i
  <2>2. conts[c].dep = i  BY <1>1, <2>1 DEF GenerationIsRow
  <2>3. i \in 1..Len(rows) /\ Len(rows) \in Nat
    BY <1>1, <2>1 DEF WorldTypeOK, RowIds
  <2> QED  BY <1>2, <2>2, <2>3
<1> QED  BY <1>1, <1>2, <1>3, ContStays DEF SwapSteps

-----------------------------------------------------------------------------
(* Every running row goes on serving *)

LEMMA OwnOtherDomain ==
  ASSUME OwnDomains, NEW s, NEW t, From(s), From(t), s.app # t.app PROVE s.dom # t.dom
BY DEF OwnDomains, From

\* RowsServe after a step, from what the step does to each running row.
LEMMA ServeMoves ==
  ASSUME DInv, [Next]_vars, "die" \notin Faults,
         \A i \in RowIds' :
           rows'[i].status = "running" /\ ~Swapping(rows[i].app)' /\ ~Removing(rows[i].app)'
           => \/ /\ i \in RowIds /\ rows'[i] = rows[i]
                 /\ ~Swapping(rows[i].app) /\ ~Removing(rows[i].app)
                 /\ routes'[rows[i].spec.dom] = routes[rows[i].spec.dom]
              \/ routes'[rows'[i].spec.dom] = Upstreams(rows[i].reps)' /\ UpLive(rows[i].reps)'
  PROVE  RowsServe'
<1>1. SInv /\ IInv /\ ContsKept
  BY NextKeepsConts DEF DInv, RInv, SInv
<1>2. ASSUME NEW i \in RowIds', rows'[i].status = "running",
             ~Swapping(rows[i].app)', ~Removing(rows[i].app)'
      PROVE  routes'[rows'[i].spec.dom] = Upstreams(rows[i].reps)' /\ UpLive(rows[i].reps)'
  <2>1. CASE /\ i \in RowIds /\ rows'[i] = rows[i]
             /\ ~Swapping(rows[i].app) /\ ~Removing(rows[i].app)
             /\ routes'[rows[i].spec.dom] = routes[rows[i].spec.dom]
    <3>1. routes[rows[i].spec.dom] = Upstreams(rows[i].reps) /\ UpLive(rows[i].reps)
      BY <1>2, <2>1 DEF DInv, RowsServe
    <3>2. SeqSet(rows[i].reps) \subseteq ContIds
      BY <1>1, <2>1, ListedConts
    <3>3. Upstreams(rows[i].reps)' = Upstreams(rows[i].reps)
      BY <1>1, <2>1, <3>2, UpstreamsKept
    <3>4. \A c \in SeqSet(rows[i].reps) : conts'[c] = conts[c]
      BY <1>1, <1>2, <2>1, ServingStay DEF DInv
    <3>5. UpLive(rows[i].reps)' = UpLive(rows[i].reps)
      BY <2>1, <3>4, UpLiveKept
    <3> QED  BY <2>1, <3>1, <3>3, <3>5
  <2> QED  BY <1>2, <2>1
<1> QED  BY <1>2 DEF RowsServe

\* No row and no route changes, and no swap or removal ends.
LEMMA ServeStays ==
  ASSUME DInv, [Next]_vars, "die" \notin Faults, UNCHANGED <<rows, routes>>,
         pc \in SwapSteps \cup RemoveSteps => job'.app = job.app,
         pc \in SwapSteps => pc' \in SwapSteps, pc \in RemoveSteps => pc' \in RemoveSteps
  PROVE  RowsServe'
<1>1. \A a : ~Swapping(a)' /\ ~Removing(a)' => ~Swapping(a) /\ ~Removing(a)
  BY DEF Swapping, Removing
<1> QED  BY <1>1, ServeMoves DEF RowIds

\* A row that does not run is recorded.
LEMMA ServeFailedRow ==
  ASSUME DInv, [Next]_vars, "die" \notin Faults, UNCHANGED routes,
         NEW row \in Row, row.status # "running", rows' = Append(rows, row),
         pc \notin SwapSteps \cup RemoveSteps
  PROVE  RowsServe'
<1>1. rows \in Seq(Row)  BY DEF DInv, RInv, SInv, IInv, TypeOK, WorldTypeOK
<1>2. \A i \in RowIds' : rows'[i] = row \/ (i \in RowIds /\ rows'[i] = rows[i])
  BY <1>1 DEF RowIds
<1>3. \A a : ~Swapping(a) /\ ~Removing(a)
  BY DEF Swapping, Removing
<1> QED  BY <1>2, <1>3, ServeMoves

LEMMA ServeFlip ==
  ASSUME OwnDomains, Faults \subseteq {"run", "lost", "router"}, DInv, Flip PROVE RowsServe'
<1>1. /\ IInv /\ WorldTypeOK /\ SpecsAreSubmitted /\ pc = "flip" /\ [Next]_vars
      /\ UNCHANGED <<rows, conts, job>> /\ job \in Job /\ CandidateOK
  <2>1. pc \in DeploySteps  BY DEF Flip, DeploySteps
  <2> QED  BY <2>1, JobTyped
           DEF DInv, RInv, SInv, IInv, TypeOK, HolderOK, Flip, Goto, Next, Deploy
<1>2. CASE UNCHANGED routes
  BY <1>1, <1>2, ServeStays DEF SwapSteps, RemoveSteps
<1>3. CASE routes' = Flipped /\ pc' = "unstage"
  <2>1. routes' = [routes EXCEPT ![job.spec.dom] = Upstreams(job.new)]
    BY <1>3 DEF Flipped
  <2>2. routes \in [Domains -> SUBSET Upstream] /\ job.spec.dom \in Domains
    BY <1>1 DEF WorldTypeOK, Job, Spec0
  <2>3. ASSUME NEW i \in RowIds', rows'[i].status = "running",
               ~Swapping(rows[i].app)', ~Removing(rows[i].app)'
        PROVE  /\ i \in RowIds /\ rows'[i] = rows[i]
               /\ ~Swapping(rows[i].app) /\ ~Removing(rows[i].app)
               /\ routes'[rows[i].spec.dom] = routes[rows[i].spec.dom]
    <3>1. i \in RowIds /\ rows'[i] = rows[i]
      BY <1>1, <2>3 DEF RowIds
    <3>2. rows[i].app # job.app /\ ~Swapping(rows[i].app) /\ ~Removing(rows[i].app)
      BY <1>1, <1>3, <2>3 DEF Swapping, Removing, SwapSteps, RemoveSteps
    <3>3. rows[i].spec.app # job.spec.app /\ From(rows[i].spec) /\ From(job.spec)
      BY <1>1, <3>1, <3>2 DEF SpecsAreSubmitted, CandidateOK, DeploySteps
    <3>4. rows[i].spec.dom # job.spec.dom
      BY <3>3, OwnOtherDomain
    <3>5. rows[i].spec.dom \in Domains
      BY <1>1, <3>1, RowTyped
    <3> QED  BY <2>1, <2>2, <3>1, <3>2, <3>4, <3>5
  <2> QED  BY <1>1, <2>3, ServeMoves
<1> QED  BY <1>2, <1>3 DEF Flip, Applied, Rejected, Goto, edge

LEMMA ServeRemoveRoute ==
  ASSUME OwnDomains, Faults \subseteq {"run", "lost", "router"}, DInv, RemoveRoute
  PROVE  RowsServe'
<1> DEFINE d == rows[job.row].spec.dom
<1>1. /\ IInv /\ WorldTypeOK /\ SpecsAreSubmitted /\ pc = "rmroute" /\ pc' = "rmstatus"
      /\ UNCHANGED <<rows, conts, job>> /\ [Next]_vars
  BY DEF DInv, RInv, SInv, IInv, TypeOK, RemoveRoute, Goto, Next, Remove
<1>2. job.row \in RowIds /\ rows[job.row].app = job.app
  BY <1>1 DEF IInv, HolderOK, RemoveSteps, WithStatus
<1>3. UNCHANGED routes \/ routes' = [routes EXCEPT ![d] = {}]
  <2>1. "ambiguous" \notin Faults  OBVIOUS
  <2> QED  BY <2>1 DEF RemoveRoute, BestEffort, Applied, Rejected, edge
<1>4. routes \in [Domains -> SUBSET Upstream]  BY <1>1 DEF WorldTypeOK
<1> HIDE DEF d
<1>5. ASSUME NEW i \in RowIds', rows'[i].status = "running",
             ~Swapping(rows[i].app)', ~Removing(rows[i].app)'
      PROVE  /\ i \in RowIds /\ rows'[i] = rows[i]
             /\ ~Swapping(rows[i].app) /\ ~Removing(rows[i].app)
             /\ routes'[rows[i].spec.dom] = routes[rows[i].spec.dom]
  <2>1. i \in RowIds /\ rows'[i] = rows[i]
    BY <1>1, <1>5 DEF RowIds
  <2>2. rows[i].app # job.app /\ ~Swapping(rows[i].app) /\ ~Removing(rows[i].app)
    BY <1>1, <1>5, <2>1 DEF Swapping, Removing, SwapSteps, RemoveSteps
  <2>3. From(rows[i].spec) /\ From(rows[job.row].spec) /\ rows[i].spec.app # rows[job.row].spec.app
    BY <1>1, <1>2, <2>1, <2>2 DEF SpecsAreSubmitted
  <2>4. rows[i].spec.dom # d
    BY <2>3, OwnOtherDomain DEF d
  <2>5. rows[i].spec.dom \in Domains
    BY <1>1, <2>1, RowTyped
  <2> QED  BY <1>3, <1>4, <2>1, <2>2, <2>4, <2>5
<1> QED  BY <1>1, <1>5, ServeMoves

\* The candidate, recorded, goes on serving.
LEMMA ServeRecordRunning ==
  ASSUME Faults \subseteq {"run", "lost", "router"}, DInv, RecordRunning PROVE RowsServe'
<1> DEFINE row == NewRow("running", job.spec, job.sched, job.new)
<1>1. /\ IInv /\ SInv /\ WorldTypeOK /\ OldRowRetired /\ pc = "record" /\ pc' = "idle"
      /\ rows' = Append(rows, row) /\ UNCHANGED <<conts, routes>> /\ [Next]_vars
  BY DEF DInv, RInv, SInv, IInv, TypeOK, RecordRunning, RecordDeployment, Done, edge, Next, Deploy
<1>2. ContsKept  BY <1>1, UnchangedConts
<1>3. rows \in Seq(Row)  BY <1>1 DEF WorldTypeOK
<1>4. row.spec = job.spec /\ row.reps = job.new
  BY DEF NewRow
<1>5. routes'[job.spec.dom] = Upstreams(job.new) /\ UpLive(job.new)
      /\ SeqSet(job.new) \subseteq ContIds
  BY <1>1, ListedConts DEF DInv, CandServes, DeploySteps, SwapSteps
<1> HIDE DEF row
<1>6. ASSUME NEW i \in RowIds', rows'[i].status = "running"
      PROVE  \/ /\ i \in RowIds /\ rows'[i] = rows[i]
                /\ ~Swapping(rows[i].app) /\ ~Removing(rows[i].app)
                /\ routes'[rows[i].spec.dom] = routes[rows[i].spec.dom]
             \/ routes'[rows'[i].spec.dom] = Upstreams(rows[i].reps)' /\ UpLive(rows[i].reps)'
  <2>1. CASE i \in RowIds /\ rows'[i] = rows[i]
    <3>1. rows[i].app # job.app
      BY <1>1, <1>6, <2>1 DEF OldRowRetired, WithStatus
    <3> QED  BY <1>1, <2>1, <3>1 DEF Swapping, Removing
  <2>2. CASE rows'[i] = row
    <3>1. rows'[i].spec = job.spec /\ rows'[i].reps = job.new
      BY <1>4, <2>2
    <3>2. Upstreams(rows[i].reps)' = Upstreams(job.new)
      BY <1>2, <1>5, <3>1, UpstreamsKept
    <3>3. UpLive(rows[i].reps)' = UpLive(job.new)
      BY <1>1, <3>1, UpLiveKept
    <3> QED  BY <1>5, <3>1, <3>2, <3>3
  <2> QED  BY <1>1, <1>3, <2>1, <2>2 DEF RowIds
<1> QED  BY <1>1, <1>6, ServeMoves

\* A row is retired: of the app that is swapped, or at the end of its removal.
LEMMA ServeRetire ==
  ASSUME Faults \subseteq {"run", "lost", "router"}, DInv, RetireOldRow \/ RetireRemoved
  PROVE  RowsServe'
<1> DEFINE old == IF pc = "status" THEN CurrentDeployment(job.app) ELSE job.row
<1>1. /\ WorldTypeOK /\ GenerationIsRow /\ AskedTypeOK /\ IInv /\ OneRunning
      /\ UNCHANGED <<conts, asked, edge, routes>> /\ [Next]_vars
  BY DEF DInv, RInv, SInv, IInv, TypeOK, RetireOldRow, RetireRemoved, edge, Next, Deploy, Remove
<1>2. /\ SetStatus(old, "retired")
      /\ \/ pc = "status" /\ pc' = "record" /\ UNCHANGED job
         \/ pc = "rmstatus" /\ pc' = "idle"
  BY DEF RetireOldRow, RetireRemoved, Goto, Done
<1>3. old \in WithStatus(job.app, "running")
  <2>1. CASE pc = "status"
    <3>1. WithStatus(job.app, "running") # {}  BY <1>1, <2>1 DEF IInv, HolderOK
    <3> QED  BY <1>1, <2>1, <3>1, NoCurrentRow, CurrentRow
  <2>2. CASE pc = "rmstatus"
    BY <1>1, <2>2 DEF IInv, HolderOK, RemoveSteps
  <2> QED  BY <1>2, <2>1, <2>2
<1> HIDE DEF old
<1>4. old \in RowIds /\ rows[old].app = job.app /\ rows[old].status = "running"
  BY <1>3 DEF WithStatus
<1>5. /\ RowIds' = RowIds
      /\ \A k \in RowIds : rows'[k] = IF k = old THEN [rows[k] EXCEPT !.status = "retired"]
                                      ELSE rows[k]
  BY <1>1, <1>2, <1>4, EdgeUnchanged, StatusSet DEF Status
<1>6. rows'[old].status # "running"
  BY <1>1, <1>4, <1>5, RowTyped DEF Row
<1>7. ASSUME NEW i \in RowIds', rows'[i].status = "running"
      PROVE  /\ i \in RowIds /\ rows'[i] = rows[i]
             /\ ~Swapping(rows[i].app) /\ ~Removing(rows[i].app)
             /\ routes'[rows[i].spec.dom] = routes[rows[i].spec.dom]
  <2>1. i \in RowIds /\ rows'[i] = rows[i] /\ i # old
    BY <1>5, <1>6, <1>7
  <2>2. rows[i].app # job.app
    BY <1>1, <1>4, <1>7, <2>1 DEF OneRunning
  <2> QED  BY <1>1, <2>1, <2>2 DEF Swapping, Removing
<1> QED  BY <1>1, <1>7, ServeMoves

\* A removal that has found no row ends at once: the app runs nothing.
LEMMA ServeRemoveContainers ==
  ASSUME Faults \subseteq {"run", "lost", "router"}, DInv, RemoveContainers PROVE RowsServe'
<1>1. /\ pc = "rmconts" /\ UNCHANGED <<rows, routes>> /\ [Next]_vars
      /\ \/ job.row = 0 /\ pc' = "idle"
         \/ pc' = "rmroute" /\ UNCHANGED job
  BY DEF RemoveContainers, Done, Goto, edge, Next, Remove
<1>2. CASE pc' = "rmroute" /\ UNCHANGED job
  BY <1>1, <1>2, ServeStays DEF SwapSteps, RemoveSteps
<1>3. CASE job.row = 0 /\ pc' = "idle"
  <2>1. \A i \in RowIds : rows[i].status = "running" => rows[i].app # job.app
    BY <1>1, <1>3 DEF DInv, NoRow, WithStatus
  <2>2. \A i \in RowIds : rows[i].status = "running" =>
          ~Swapping(rows[i].app) /\ ~Removing(rows[i].app)
    BY <2>1 DEF Swapping, Removing
  <2> QED  BY <1>1, <2>2, ServeMoves DEF RowIds
<1> QED  BY <1>1, <1>2, <1>3

LEMMA ServeRequest ==
  ASSUME Faults \subseteq {"run", "lost", "router"}, DInv, Request PROVE RowsServe'
<1>1. IInv /\ [Next]_vars  BY DEF DInv, RInv, SInv, Next
<1>2. CASE UNCHANGED <<rows, routes, pc, job>>
  BY <1>1, <1>2, ServeStays
<1>3. CASE UNCHANGED <<rows, routes>> /\ pc = "idle"
  BY <1>1, <1>3, ServeStays DEF SwapSteps, RemoveSteps
<1>4. ASSUME NEW s \in Spec0, NEW sched, pc = "idle", AbandonDeploy(s, sched), rows' # rows
      PROVE  RowsServe'
  <2> DEFINE row == NewRow("failed", s, FALSE, <<>>)
  <2>1. rows' = Append(rows, row) /\ UNCHANGED routes /\ row \in Row /\ row.status # "running"
    BY <1>4, FailedRow DEF AbandonDeploy
  <2> HIDE DEF row
  <2> QED  BY <1>1, <1>4, <2>1, ServeFailedRow DEF SwapSteps, RemoveSteps
<1> QED  BY <1>1, <1>2, <1>3, <1>4, RequestCases
         DEF AskRollback, AskScale, BeginRemove, StartDeploy, AbandonDeploy, world

LEMMA ServeHolder ==
  ASSUME Faults \subseteq {"run", "lost", "router"}, DInv,
         \/ RunReplica \/ RunReplicaFails \/ SetStaging \/ HealthGate \/ RemoveStaging
         \/ RetireOldSet \/ UndoStaging \/ Discard
  PROVE  RowsServe'
<1>1. IInv /\ [Next]_vars  BY DEF DInv, RInv, SInv, Next, Deploy
<1>2. CASE RunReplica \/ RunReplicaFails \/ HealthGate \/ Discard
  <2>1. UNCHANGED <<rows, routes>> /\ pc \notin SwapSteps \cup RemoveSteps
    BY <1>2 DEF RunReplica, RunReplicaFails, HealthGate, Discard, edge, world, SwapSteps, RemoveSteps
  <2> QED  BY <1>1, <2>1, ServeStays
<1>3. CASE SetStaging \/ RemoveStaging \/ UndoStaging
  <2>1. "ambiguous" \notin Faults  OBVIOUS
  <2>2. UNCHANGED <<rows, routes, job>>
    BY <1>3, <2>1 DEF SetStaging, RemoveStaging, UndoStaging, BestEffort, Applied, Rejected, edge,
       Goto
  <2>3. pc \notin RemoveSteps /\ (pc \in SwapSteps => pc' \in SwapSteps)
    BY <1>3 DEF SetStaging, RemoveStaging, UndoStaging, Goto, SwapSteps, RemoveSteps
  <2> QED  BY <1>1, <2>2, <2>3, ServeStays
<1>4. CASE RetireOldSet
  <2>1. UNCHANGED <<rows, routes, job>> /\ pc \notin RemoveSteps /\ pc' \in SwapSteps
    BY <1>4 DEF RetireOldSet, Goto, edge, SwapSteps, RemoveSteps
  <2> QED  BY <1>1, <2>1, ServeStays
<1> QED  BY <1>2, <1>3, <1>4

LEMMA ServeRecordFailed ==
  ASSUME Faults \subseteq {"run", "lost", "router"}, DInv, RecordFailed PROVE RowsServe'
<1> DEFINE row == NewRow("failed", job.spec, FALSE, <<>>)
<1>1. job \in Job /\ rows' = Append(rows, row) /\ pc = "fail" /\ UNCHANGED routes /\ [Next]_vars
  BY JobTyped DEF DInv, RInv, SInv, RecordFailed, RecordDeployment, edge, Next, Deploy
<1>2. row \in Row /\ row.status # "running"
  BY <1>1, FailedRow DEF Job
<1> HIDE DEF row
<1> QED  BY <1>1, <1>2, ServeFailedRow DEF SwapSteps, RemoveSteps

LEMMA NextRowsServe ==
  ASSUME OwnDomains, Faults \subseteq {"run", "lost", "router"}, DInv, [Next]_vars
  PROVE  RowsServe'
<1>1. CASE UNCHANGED vars
  BY <1>1, ServeStays DEF vars
<1>2. CASE Environment
  BY <1>2 DEF Environment, Cancel, CrashRestart, Die
<1> QED  BY <1>1, <1>2, ServeRequest, ServeHolder, ServeFlip, ServeRetire, ServeRecordRunning,
            ServeRecordFailed, ServeRemoveContainers, ServeRemoveRoute DEF Next, Deploy, Remove

-----------------------------------------------------------------------------
(* The candidate serves once it has been flipped to *)

\* The candidate keeps what it has reached as the deploy goes on.
LEMMA CandGoesOn ==
  ASSUME DInv, [Next]_vars, "die" \notin Faults, UNCHANGED job,
         pc \in {"stage", "gate", "flip"} \cup SwapSteps,
         pc' \in {"stage", "gate", "flip"} \cup SwapSteps,
         pc' \in {"flip"} \cup SwapSteps => UpLive(job.new),
         pc' \in {"stage", "gate"} => pc \in {"stage", "gate"},
         pc' \in SwapSteps => routes'[job.spec.dom] = Upstreams(job.new)
  PROVE  CandServes'
<1>1. SInv /\ CandServes /\ IInv /\ ContsKept
  BY NextKeepsConts DEF DInv, RInv, SInv
<1>2. \A c \in SeqSet(job.new) : c \in ContIds /\ conts'[c] = conts[c]
  BY <1>1, CandidateStays DEF DInv
<1>3. UpLive(job.new)' = UpLive(job.new)
  BY <1>2, UpLiveKept
<1>4. Upstreams(job.new)' = Upstreams(job.new)
  BY <1>1, <1>2, UpstreamsKept
<1>5. Len(job'.new) = job'.spec.count
  BY <1>1 DEF CandServes
<1>6. pc' \in {"stage", "gate"} => \A c \in SeqSet(job'.new) : conts'[c].state = "running"
  BY <1>1, <1>2 DEF CandServes
<1>7. pc' # "run"  BY DEF SwapSteps
<1>8. pc' \in {"flip"} \cup SwapSteps => UpLive(job.new)'
  BY <1>3
<1>9. pc' \in SwapSteps => routes'[job'.spec.dom] = Upstreams(job.new)'
  BY <1>4
<1>10. (pc \in {"run", "stage", "gate"} => \A c \in SeqSet(job.new) : conts[c].state = "running")'
  BY <1>6, <1>7
<1> QED  BY <1>5, <1>8, <1>9, <1>10 DEF CandServes

\* Every replica started so far runs.
LEMMA CandStarts ==
  ASSUME DInv, RunReplica PROVE CandServes'
<1>1. /\ IInv /\ SInv /\ pc = "run" /\ conts \in Seq(Container) /\ job \in Job /\ CandServes
      /\ StartContainer /\ job' = [job EXCEPT !.new = Append(@, Len(conts) + 1)]
      /\ pc' = (IF NextReplica = job.spec.count THEN "stage" ELSE "run") /\ UNCHANGED rows
  BY JobTyped DEF DInv, RInv, SInv, IInv, TypeOK, WorldTypeOK, RunReplica
<1>2. Len(job'.new) = NextReplica /\ job'.spec = job.spec /\ job' \in Job
  BY <1>1, CandidateGrows
<1>3. PICK ready \in BOOLEAN :
        conts' = Append(conts, NewContainer(job.app, job.tgt[NextReplica], job.id,
                                            ReplicaIdx, ready))
  BY <1>1 DEF StartContainer
<1> DEFINE k == NewContainer(job.app, job.tgt[NextReplica], job.id, ReplicaIdx, ready)
<1>4. k \in Container /\ k.state = "running"
  BY <1>1, NextReplicaTyped DEF NewContainer
<1>5. conts' = Append(conts, k)  BY <1>3
<1> HIDE DEF k
<1>6. /\ \A c \in ContIds : conts'[c] = conts[c]
      /\ conts'[Len(conts) + 1] = k
  BY <1>1, <1>4, <1>5, ContainersAppended
<1>7. SeqSet(job.new) \subseteq ContIds /\ \A c \in SeqSet(job.new) : conts[c].state = "running"
  BY <1>1, ListedConts DEF CandServes, DeploySteps
<1>8. SeqSet(job'.new) \subseteq SeqSet(job.new) \cup {Len(conts) + 1}
  <2>1. job.new \in Seq(Nat) /\ Len(conts) + 1 \in Nat
    BY <1>1 DEF Job
  <2>2. job'.new = Append(job.new, Len(conts) + 1)
    BY <1>1 DEF Job
  <2> QED  BY <2>1, <2>2 DEF SeqSet
<1>9. \A c \in SeqSet(job'.new) : conts'[c].state = "running"
  BY <1>4, <1>6, <1>7, <1>8
<1> QED  BY <1>1, <1>2, <1>9 DEF CandServes, SwapSteps

LEMMA CandBegins ==
  ASSUME NEW s, NEW sched, StartDeploy(s, sched) PROVE CandServes'
<1>1. pc' = "run" /\ SeqSet(job'.new) = {}
  BY DEF StartDeploy, SeqSet
<1>2. (\A c \in SeqSet(job.new) : conts[c].state = "running")'
  BY <1>1 DEF SeqSet
<1> QED  BY <1>1, <1>2 DEF CandServes, SwapSteps

\* No candidate is being brought up.
LEMMA CandOver ==
  ASSUME pc' \notin {"run", "stage", "gate", "flip"} \cup SwapSteps PROVE CandServes'
BY DEF CandServes

LEMMA CandUntouched ==
  ASSUME CandServes, UNCHANGED <<conts, routes, pc, job>> PROVE CandServes'
<1>1. UpLive(job.new)' = UpLive(job.new)
  BY DEF UpLive, Answers, SeqSet
<1>2. Upstreams(job.new)' = Upstreams(job.new)
  BY DEF Upstreams, UpstreamOf
<1> QED  BY <1>1, <1>2 DEF CandServes

LEMMA NextCandServes ==
  ASSUME Faults \subseteq {"run", "lost", "router"}, DInv, [Next]_vars PROVE CandServes'
<1>1. /\ IInv /\ SInv /\ WorldTypeOK /\ CandServes /\ EdgeInv
      /\ "ambiguous" \notin Faults /\ "die" \notin Faults
  BY DEF DInv, RInv, SInv, IInv, TypeOK
<1>2. CASE Request
  <2>1. CASE UNCHANGED <<conts, routes, pc, job>>
    BY <1>1, <2>1, CandUntouched
  <2>2. CASE pc' = "rmconts"
    BY <2>2, CandOver DEF SwapSteps
  <2> QED  BY <1>1, <1>2, <2>1, <2>2, RequestCases, CandBegins
           DEF AskRollback, AskScale, BeginRemove, AbandonDeploy, world
<1>3. CASE RunReplicaFails \/ UndoStaging \/ Discard \/ RecordFailed \/ RecordRunning \/ Remove
  <2>1. pc' \in {"undo", "discard", "fail", "idle", "rmroute", "rmstatus"}
    BY <1>3 DEF RunReplicaFails, UndoStaging, Discard, RecordFailed, RecordRunning, Remove,
       RemoveContainers, RemoveRoute, RetireRemoved, Goto, Done
  <2> QED  BY <2>1, CandOver DEF SwapSteps
<1>4. CASE SetStaging
  <2>1. pc = "stage" /\ UNCHANGED job /\ pc' \in {"gate", "undo"}
    BY <1>4 DEF SetStaging, Goto
  <2> QED  BY <1>1, <2>1, CandGoesOn, CandOver DEF SwapSteps
<1>5. CASE HealthGate
  <2>1. /\ pc = "gate" /\ UNCHANGED job
        /\ \/ pc' = "undo"
           \/ /\ pc' = "flip"
              /\ \A i \in DOMAIN job.new : Gated(job.spec.gate, job.new, job.new[i])
    BY <1>5 DEF HealthGate, Goto
  <2>2. pc' = "flip" => UpLive(job.new)
    BY <2>1, GatedIsUp
  <2> QED  BY <1>1, <2>1, <2>2, CandGoesOn, CandOver DEF SwapSteps
<1>6. CASE Flip
  <2>1. /\ pc = "flip" /\ UNCHANGED job
        /\ \/ pc' = "undo"
           \/ pc' = "unstage" /\ routes' = [routes EXCEPT ![job.spec.dom] = Upstreams(job.new)]
    BY <1>6 DEF Flip, Goto, Applied, Flipped
  <2>2. job.spec.dom \in Domains /\ routes \in [Domains -> SUBSET Upstream] /\ UpLive(job.new)
    BY <1>1, <2>1, JobTyped DEF WorldTypeOK, Job, Spec0, CandServes
  <2> QED  BY <1>1, <2>1, <2>2, CandGoesOn, CandOver DEF SwapSteps
<1>7. CASE RemoveStaging \/ RetireOldSet \/ RetireOldRow
  <2>1. UNCHANGED <<job, routes>>
    BY <1>1, <1>7, ConfigurationKept DEF RemoveStaging, RetireOldSet, RetireOldRow, Goto, edge
  <2>2. pc \in SwapSteps /\ pc' \in SwapSteps
    BY <1>7 DEF RemoveStaging, RetireOldSet, RetireOldRow, Goto, SwapSteps
  <2>3. routes[job.spec.dom] = Upstreams(job.new) /\ UpLive(job.new)
    BY <1>1, <2>2 DEF CandServes
  <2>4. pc' \notin {"stage", "gate"}  BY <2>2 DEF SwapSteps
  <2> QED  BY <1>1, <2>1, <2>2, <2>3, <2>4, CandGoesOn
<1>8. CASE Environment \/ UNCHANGED vars
  BY <1>1, <1>8, CandUntouched DEF Environment, Cancel, CrashRestart, Die, vars
<1> QED  BY <1>2, <1>3, <1>4, <1>5, <1>6, <1>7, <1>8, CandStarts DEF Next, Deploy

-----------------------------------------------------------------------------
(* No downtime *)

LEMMA NextNoRow ==
  ASSUME IInv, NoRow, [Next]_vars PROVE NoRow'
<1>1. WorldTypeOK  BY DEF IInv, TypeOK
<1>2. CASE pc' # "rmconts"
  BY <1>2 DEF NoRow
<1>3. CASE UNCHANGED <<rows, pc, job>>
  BY <1>3 DEF NoRow, WithStatus, RowIds
<1>4. ASSUME NEW a \in Apps, BeginRemove(a) PROVE NoRow'
  <2>1. job'.app = a /\ job'.row = CurrentDeployment(a) /\ rows' = rows
    BY <1>4 DEF BeginRemove, world
  <2>2. job'.row = 0 => WithStatus(a, "running") = {}
    BY <1>1, <2>1, NoCurrentRow
  <2> QED  BY <2>1, <2>2 DEF NoRow, WithStatus, RowIds
<1>5. CASE Request
  <2>1. CASE \E s \in Spec0, sched \in BOOLEAN :
               pc = "idle" /\ (StartDeploy(s, sched) \/ AbandonDeploy(s, sched))
    BY <1>2, <2>1 DEF StartDeploy, AbandonDeploy
  <2> QED  BY <1>3, <1>4, <1>5, <2>1, RequestCases DEF IInv, AskRollback, AskScale, world
<1>6. CASE Deploy \/ Remove
  <2>1. pc' # "rmconts"
    BY <1>6 DEF Deploy, Remove, RunReplica, RunReplicaFails, SetStaging, HealthGate, Flip,
       RemoveStaging, RetireOldSet, RetireOldRow, RecordRunning, UndoStaging, Discard,
       RecordFailed, RemoveContainers, RemoveRoute, RetireRemoved, Goto, Done
  <2> QED  BY <1>2, <2>1
<1>7. CASE Cancel
  <2>1. job \in Job /\ UNCHANGED <<rows, pc>>  BY <1>7, JobTyped DEF Cancel, world
  <2>2. job'.app = job.app /\ job'.row = job.row  BY <1>7, <2>1 DEF Cancel, Job
  <2> QED  BY <2>1, <2>2 DEF NoRow, WithStatus, RowIds
<1>8. CASE CrashRestart \/ (\E c \in ContIds : Die(c)) \/ UNCHANGED vars
  BY <1>2, <1>3, <1>8 DEF CrashRestart, Done, Die, vars
<1> QED  BY <1>5, <1>6, <1>7, <1>8 DEF Next, Environment

LEMMA KnownGateable ==
  ASSUME \A s \in Specs : Gateable(s), GatesOK, NEW sp, Known(sp) PROVE Gateable(sp)
BY DEF GatesOK, Known, Gateable

\* What a step makes of the spec of the deploy under way.
LEMMA SpecMoves ==
  ASSUME IInv, [Next]_vars, pc' \in DeploySteps
  PROVE  \/ pc \in DeploySteps /\ job'.spec = job.spec
         \/ \E s \in Spec0 : Known(s) /\ job'.spec.gate = s.gate /\ job'.spec.count = s.count
<1>1. ASSUME NEW s \in Spec0, NEW sched, Known(s), StartDeploy(s, sched)
      PROVE  job'.spec.gate = s.gate /\ job'.spec.count = s.count
  BY <1>1 DEF StartDeploy, Spec0
<1>2. CASE Request
  <2>1. CASE UNCHANGED <<pc, job>>
    BY <2>1
  <2>2. CASE pc' = "rmconts"
    BY <2>2 DEF DeploySteps, SwapSteps, UndoSteps
  <2> QED  BY <1>1, <1>2, <2>1, <2>2, RequestCases
           DEF AskRollback, AskScale, BeginRemove, AbandonDeploy
<1>3. CASE RunReplica \/ RunReplicaFails
  <2>1. job \in Job /\ pc \in DeploySteps
    BY <1>3, JobTyped DEF RunReplica, RunReplicaFails, DeploySteps
  <2> QED  BY <1>3, <2>1 DEF RunReplica, RunReplicaFails, Job
<1>4. CASE SetStaging \/ HealthGate \/ Flip \/ RemoveStaging \/ RetireOldSet \/ RetireOldRow
           \/ UndoStaging \/ Discard
  BY <1>4 DEF SetStaging, HealthGate, Flip, RemoveStaging, RetireOldSet, RetireOldRow,
     UndoStaging, Discard, Goto, DeploySteps, SwapSteps, UndoSteps
<1>5. CASE RecordRunning \/ RecordFailed \/ Remove \/ CrashRestart
  <2>1. pc' \in {"idle", "rmroute", "rmstatus"}
    BY <1>5 DEF RecordRunning, RecordFailed, Remove, RemoveContainers, RemoveRoute,
       RetireRemoved, CrashRestart, Goto, Done
  <2> QED  BY <2>1 DEF DeploySteps, SwapSteps, UndoSteps
<1>6. CASE Cancel
  <2>1. job \in Job  BY <1>6, JobTyped DEF Cancel
  <2> QED  BY <1>6, <2>1 DEF Cancel, Job
<1>7. CASE (\E c \in ContIds : Die(c)) \/ UNCHANGED vars
  BY <1>7 DEF Die, vars
<1> QED  BY <1>2, <1>3, <1>4, <1>5, <1>6, <1>7 DEF Next, Deploy, Environment

LEMMA NextGatesOK ==
  ASSUME \A s \in Specs : Gateable(s), IInv, GatesOK, [Next]_vars PROVE GatesOK'
<1>1. rows \in Seq(Row)
  BY DEF IInv, TypeOK, WorldTypeOK
<1>2. ASSUME NEW i \in RowIds' PROVE Gateable(rows'[i].spec)
  <2>1. CASE UNCHANGED rows
    BY <2>1 DEF GatesOK, RowIds
  <2>2. ASSUME NEW row \in Row, rows' = Append(rows, row),
               Known(row.spec) \/ (pc \in DeploySteps /\ row.spec = job.spec)
        PROVE  Gateable(rows'[i].spec)
    <3>1. Gateable(row.spec)
      BY <2>2, KnownGateable DEF GatesOK
    <3>2. rows'[i] = row \/ (i \in RowIds /\ rows'[i] = rows[i])
      BY <1>1, <2>2 DEF RowIds
    <3> QED  BY <3>1, <3>2 DEF GatesOK
  <2>3. ASSUME NEW k \in RowIds, SetStatus(k, "retired") PROVE Gateable(rows'[i].spec)
    <3>1. i \in RowIds /\ rows[i] \in Row
      BY <1>1, <2>3 DEF SetStatus, RowIds
    <3>2. rows'[i].spec = rows[i].spec
      BY <1>1, <2>3, <3>1 DEF SetStatus, Row, RowIds
    <3> QED  BY <3>1, <3>2 DEF GatesOK
  <2> QED  BY <2>1, <2>2, <2>3, TableMoves
<1>3. ASSUME pc' \in DeploySteps PROVE Gateable(job'.spec)
  <2>1. CASE pc \in DeploySteps /\ job'.spec = job.spec
    BY <2>1 DEF GatesOK
  <2>2. ASSUME NEW s, Known(s), job'.spec.gate = s.gate, job'.spec.count = s.count
        PROVE  Gateable(job'.spec)
    BY <2>2, KnownGateable DEF Gateable
  <2> QED  BY <1>3, <2>1, <2>2, SpecMoves
<1> QED  BY <1>2, <1>3 DEF GatesOK, Gateable

LEMMA InitDInv == Init => DInv
<1>1. ASSUME Init PROVE RowIds = {} /\ ContIds = {} /\ pc = "idle"
  BY <1>1 DEF Init, WorldInit, RowIds, ContIds
<1> QED  BY <1>1, InitRInv DEF DInv, GenerationIsRow, RowsServe, CandServes, NamesUnique, NoRow,
            GatesOK, DeploySteps, SwapSteps, UndoSteps

LEMMA NextDInv ==
  ASSUME OwnDomains, \A s \in Specs : Gateable(s), Faults \subseteq {"run", "lost", "router"},
         DInv, [Next]_vars
  PROVE  DInv'
<1>1. RInv'
  <2>1. ExclusiveDomains  BY DEF OwnDomains, ExclusiveDomains
  <2>2. Faults \cap {"store", "ambiguous"} = {}  OBVIOUS
  <2> QED  BY <2>1, <2>2, NextRInv DEF DInv
<1>2. IInv /\ "die" \notin Faults  BY DEF DInv, RInv, SInv
<1>3. GenerationIsRow'  BY <1>2, NextGeneration DEF DInv
<1> QED  BY <1>1, <1>2, <1>3, NextRowsServe, NextCandServes, NamesStayUnique, NextNoRow, NextGatesOK
         DEF DInv

\* The invariant gives what Caddy serves.
LEMMA DInvServes == DInv => NoDowntime
<1> SUFFICES ASSUME DInv, NEW a \in Apps, NEW d \in Served(a)
             PROVE  /\ caddy[d] # {}
                    /\ \A u \in caddy[d] : Behind(u) # {} /\ \A c \in Behind(u) : Answers(c)
  BY DEF NoDowntime
<1>1. IInv /\ WorldTypeOK /\ NamesUnique /\ caddy = routes
  BY DEF DInv, RInv, SInv, IInv, TypeOK, EdgeInv
<1>2. ASSUME NEW s \in Seq(Nat), SeqSet(s) \subseteq ContIds, UpLive(s), routes[d] = Upstreams(s)
      PROVE  /\ caddy[d] # {}
             /\ \A u \in caddy[d] : Behind(u) # {} /\ \A c \in Behind(u) : Answers(c)
  <2>1. DOMAIN s = 1..Len(s) /\ Len(s) \in Nat  OBVIOUS
  <2> QED  BY <1>1, <1>2, <2>1, UpIsServed
<1>3. ~Removing(a)
  <2> SUFFICES ASSUME Removing(a) PROVE FALSE
    OBVIOUS
  <2>1. ~Swapping(a)  BY DEF Removing, Swapping, RemoveSteps, SwapSteps
  <2>2. Served(a) = {}  BY <2>1 DEF Served
  <2> QED  BY <2>2
<1>4. CASE Swapping(a)
  <2>1. pc \in SwapSteps /\ d = job.spec.dom
    BY <1>3, <1>4 DEF Served, Swapping
  <2>2. routes[d] = Upstreams(job.new) /\ UpLive(job.new)
    BY <2>1 DEF DInv, CandServes
  <2>3. SeqSet(job.new) \subseteq ContIds /\ job.new \in Seq(Nat)
    BY <1>1, <2>1, ListedConts, JobTyped DEF DeploySteps, SwapSteps, Job
  <2> QED  BY <1>2, <2>2, <2>3
<1>5. CASE ~Swapping(a)
  <2>1. PICK i : i = CurrentDeployment(a) /\ i # 0 /\ d = rows[i].spec.dom
    BY <1>3, <1>5 DEF Served
  <2>2. i \in RowIds /\ rows[i].status = "running" /\ rows[i].app = a
    BY <1>1, <2>1, CurrentRow DEF WithStatus
  <2>3. routes[d] = Upstreams(rows[i].reps) /\ UpLive(rows[i].reps)
    BY <1>3, <1>5, <2>1, <2>2 DEF DInv, RowsServe
  <2>4. SeqSet(rows[i].reps) \subseteq ContIds /\ rows[i].reps \in Seq(Nat)
    BY <1>1, <2>2, ListedConts, RowTyped DEF Row
  <2> QED  BY <1>2, <2>3, <2>4
<1> QED  BY <1>4, <1>5

\* No downtime window: at every step of every deploy, rollback, scale or
\* removal, whatever cannot be started or posted, what Caddy sends an app's
\* traffic to is up and ready.  Docker's removals and the store work, nobody
\* hangs up, the daemon stays up and no container dies; an app has its domain to
\* itself; and of a set of replicas each has passed a gate of its own.
THEOREM NeverDown ==
  ASSUME OwnDomains, \A s \in Specs : Gateable(s), Faults \subseteq {"run", "lost", "router"}
  PROVE  Spec => []NoDowntime
<1>1. DInv /\ [Next]_vars => DInv'  BY NextDInv
<1> QED  BY <1>1, InitDInv, DInvServes, PTL DEF Spec

\* The whole invariant of the route table: the rows' specs are those submitted,
\* Caddy serves what the router believes, and every running row outside its
\* swap is routed.
THEOREM EdgeFollowsTable ==
  ASSUME ExclusiveDomains, Faults \cap {"store", "ambiguous"} = {}
  PROVE  Spec => []RInv
<1>1. RInv /\ [Next]_vars => RInv'  BY NextRInv
<1> QED  BY <1>1, InitRInv, PTL DEF Spec

-----------------------------------------------------------------------------
(* Orphans: the invariant *)

Gone(c) == conts[c].state = "gone"

\* Every container that is left is one a running row lists, or the candidate's.
AllOwned ==
  \A c \in ContIds : ~Gone(c) =>
    \/ \E i \in RowIds : rows[i].status = "running" /\ c \in SeqSet(rows[i].reps)
    \/ pc \in DeploySteps /\ c \in SeqSet(job.new)

\* What has been removed when the holder of r.mu gets to its next write.
Cleared ==
  /\ pc = "status" => \A c \in SeqSet(rows[CurrentDeployment(job.app)].reps) : Gone(c)
  /\ pc = "fail" => \A c \in SeqSet(job.new) : Gone(c)
  /\ pc \in {"rmroute", "rmstatus"} => \A c \in ContIds : conts[c].app = job.app => Gone(c)

\* Nobody hangs up.
HolderLives == pc # "idle" => job.live

OInv == SInv /\ GenerationIsRow /\ NoRow /\ AllOwned /\ Cleared /\ HolderLives

\* The failures that leave a container behind are left out: a start or a removal
\* that fails half done, a crash, a client that hangs up, a row not written.
Tidy == Faults \cap {"lost", "remove", "cancel", "crash", "store"} = {}

-----------------------------------------------------------------------------
(* The steps *)

LEMMA GoneStays ==
  ASSUME IInv, [Next]_vars, NEW c \in ContIds, Gone(c)
  PROVE  c \in ContIds' /\ conts'[c].state = "gone" /\ conts'[c].app = conts[c].app
<1>1. conts \in Seq(Container) /\ conts[c] \in Container
  BY DEF IInv, TypeOK, WorldTypeOK, ContIds
<1>2. ContsKept  BY NextKeepsConts
<1>3. CASE \E d \in ContIds : Die(d)
  <2>1. PICK d \in ContIds : conts[d].state = "running" /\ conts' = [conts EXCEPT ![d].state = "dead"]
    BY <1>3 DEF Die
  <2>2. d # c  BY <2>1 DEF Gone
  <2> QED  BY <1>1, <1>2, <2>1, <2>2 DEF ContsKept, Gone
<1>4. CASE pc = "run" /\ StartContainer
  BY <1>1, <1>2, <1>4, NextReplicaTyped, ContainersAppended DEF StartContainer, Gone
<1>5. ASSUME NEW cs, conts' = WithoutConts(cs) PROVE conts'[c].state = "gone"
  BY <1>1, <1>5 DEF WithoutConts, Gone, Container
<1> QED  BY <1>2, <1>3, <1>4, <1>5, ContsMove DEF ContsKept, Gone

\* Whoever owns a container after a step: what had an owner must still have one.
LEMMA OwnersMove ==
  ASSUME OInv,
         \A c \in ContIds' : ~Gone(c)' =>
           (c \in ContIds /\ ~Gone(c)) \/ (pc' \in DeploySteps /\ c \in SeqSet(job'.new)),
         \A i \in RowIds : rows[i].status = "running" =>
           \/ i \in RowIds' /\ rows'[i] = rows[i]
           \/ \A c \in SeqSet(rows[i].reps) : conts'[c].state = "gone",
         pc \in DeploySteps => \A c \in SeqSet(job.new) :
           \/ pc' \in DeploySteps /\ c \in SeqSet(job'.new)
           \/ conts'[c].state = "gone"
           \/ \E i \in RowIds' : rows'[i].status = "running" /\ c \in SeqSet(rows'[i].reps)
  PROVE  AllOwned'
<1> SUFFICES ASSUME NEW c \in ContIds', conts'[c].state # "gone"
             PROVE  \/ \E i \in RowIds' : rows'[i].status = "running" /\ c \in SeqSet(rows'[i].reps)
                    \/ pc' \in DeploySteps /\ c \in SeqSet(job'.new)
  BY DEF AllOwned, Gone, SeqSet
<1>1. CASE pc' \in DeploySteps /\ c \in SeqSet(job'.new)
  BY <1>1
<1>2. CASE c \in ContIds /\ ~Gone(c)
  <2>1. CASE pc \in DeploySteps /\ c \in SeqSet(job.new)
    BY <2>1
  <2>2. ASSUME NEW i \in RowIds, rows[i].status = "running", c \in SeqSet(rows[i].reps)
        PROVE  \E j \in RowIds' : rows'[j].status = "running" /\ c \in SeqSet(rows'[j].reps)
    <3>1. i \in RowIds' /\ rows'[i] = rows[i]  BY <2>2
    <3> QED  BY <2>2, <3>1
  <2> QED  BY <1>2, <2>1, <2>2 DEF OInv, AllOwned
<1> QED  BY <1>1, <1>2 DEF Gone

\* No container is started, and no row changes or comes.
LEMMA OwnersStay ==
  ASSUME OInv, [Next]_vars, UNCHANGED rows,
         \A c \in ContIds' : ~Gone(c)' => c \in ContIds,
         pc \in DeploySteps => pc' \in DeploySteps /\ job'.new = job.new
  PROVE  AllOwned'
<1>1. IInv  BY DEF OInv, SInv
<1>2. ASSUME NEW c \in ContIds', ~Gone(c)' PROVE c \in ContIds /\ ~Gone(c)
  BY <1>1, <1>2, GoneStays DEF Gone
<1>3. \A i \in RowIds : i \in RowIds' /\ rows'[i] = rows[i]
  BY DEF RowIds
<1> QED  BY <1>2, <1>3, OwnersMove

\* Only a start makes a container.
LEMMA NoNewConts ==
  ASSUME IInv, [Next]_vars, ~(pc = "run" /\ StartContainer) PROVE ContIds' = ContIds
<1>1. conts \in Seq(Container)  BY DEF IInv, TypeOK, WorldTypeOK
<1>2. ASSUME NEW c \in ContIds, Die(c) PROVE ContIds' = ContIds
  BY <1>1, <1>2 DEF Die, ContIds
<1> QED  BY <1>1, <1>2, ContsMove, ContainersRemoved DEF ContIds

\* A removal that nothing disturbs removes everything.
LEMMA EachRemoved ==
  ASSUME WorldTypeOK, Faults \cap {"remove", "cancel"} = {}, NEW cs, cs \subseteq ContIds,
         RemoveEach(cs)
  PROVE  \A c \in cs : conts'[c].state = "gone"
<1>1. conts' = WithoutConts(cs)
  <2>1. PICK kept \in SUBSET cs : kept = {} /\ conts' = WithoutConts(cs \ kept)
    BY DEF RemoveEach
  <2>2. cs \ kept = cs  BY <2>1
  <2> QED  BY <2>1, <2>2
<1>2. \A c \in ContIds : conts[c] \in Container
  BY DEF WorldTypeOK, ContIds
<1> QED  BY <1>1, <1>2 DEF WithoutConts, Container

LEMMA OwnRunReplica ==
  ASSUME Tidy, OInv, RunReplica \/ RunReplicaFails
  PROVE  AllOwned' /\ Cleared' /\ HolderLives'
<1>1. /\ IInv /\ [Next]_vars /\ pc = "run" /\ UNCHANGED rows /\ job \in Job /\ job.live
      /\ conts \in Seq(Container) /\ "lost" \notin Faults
      /\ pc' \in {"run", "stage", "undo"} /\ pc' \in DeploySteps
  BY JobTyped DEF OInv, SInv, IInv, TypeOK, WorldTypeOK, HolderLives, RunReplica,
     RunReplicaFails, Next, Deploy, Tidy, DeploySteps, UndoSteps
<1>2. Cleared'
  BY <1>1 DEF Cleared
<1>3. CASE UNCHANGED <<conts, job>>
  <2>1. \A c \in ContIds' : ~Gone(c)' => c \in ContIds
    BY <1>3 DEF ContIds
  <2> QED  BY <1>1, <1>2, <1>3, <2>1, OwnersStay DEF HolderLives
<1>4. CASE StartContainer /\ job' = [job EXCEPT !.new = Append(@, Len(conts) + 1)]
  <2>1. job'.live = job.live /\ job'.new = Append(job.new, Len(conts) + 1) /\ job.new \in Seq(Nat)
    BY <1>1, <1>4 DEF Job
  <2>2. SeqSet(job'.new) = SeqSet(job.new) \cup {Len(conts) + 1}
    <3> DEFINE c0 == Len(conts) + 1
    <3>1. c0 \in Nat  BY <1>1
    <3> HIDE DEF c0
    <3>2. /\ \A i \in 1..Len(job.new) : Append(job.new, c0)[i] = job.new[i]
          /\ Append(job.new, c0)[Len(job.new) + 1] = c0
          /\ DOMAIN Append(job.new, c0) = 1..(Len(job.new) + 1)
          /\ DOMAIN job.new = 1..Len(job.new) /\ Len(job.new) \in Nat
      BY <2>1, <3>1
    <3>3. 1..(Len(job.new) + 1) = 1..Len(job.new) \cup {Len(job.new) + 1}
      BY <3>2
    <3>4. SeqSet(Append(job.new, c0)) = SeqSet(job.new) \cup {c0}
      BY <3>2, <3>3 DEF SeqSet
    <3> QED  BY <2>1, <3>4 DEF c0
  <2>3. ContIds' = ContIds \cup {Len(conts) + 1} /\ \A c \in ContIds : conts'[c] = conts[c]
    BY <1>1, <1>4 DEF StartContainer, ContIds
  <2>4. AllOwned'
    BY <1>1, <2>2, <2>3, OwnersMove DEF RowIds, Gone
  <2> QED  BY <1>1, <1>2, <2>1, <2>4 DEF HolderLives
<1> QED  BY <1>1, <1>3, <1>4 DEF RunReplica, RunReplicaFails

\* The steps of a deploy that leave its containers and the table alone.
LEMMA OwnDeployGoesOn ==
  ASSUME OInv, SetStaging \/ HealthGate \/ Flip \/ RemoveStaging \/ UndoStaging
  PROVE  AllOwned' /\ Cleared' /\ HolderLives'
<1>1. /\ [Next]_vars /\ UNCHANGED <<rows, conts, job>> /\ pc \in DeploySteps
      /\ pc' \in {"gate", "flip", "undo", "unstage", "retire", "discard"}
      /\ pc' \in DeploySteps /\ job.live
  BY DEF OInv, HolderLives, SetStaging, HealthGate, Flip, RemoveStaging, UndoStaging, Goto, world,
     Next, Deploy, DeploySteps, SwapSteps, UndoSteps
<1>2. AllOwned'
  BY <1>1, OwnersStay DEF ContIds
<1> QED  BY <1>1, <1>2 DEF Cleared, HolderLives

LEMMA OwnRetireOldSet ==
  ASSUME Tidy, OInv, RetireOldSet PROVE AllOwned' /\ Cleared' /\ HolderLives'
<1> DEFINE cur == CurrentDeployment(job.app)
<1>1. /\ IInv /\ WorldTypeOK /\ [Next]_vars /\ pc = "retire" /\ UNCHANGED <<rows, job>> /\ job.live
      /\ \/ pc' = "record"
         \/ pc' = "status" /\ cur # 0 /\ RemoveEach(SeqSet(rows[cur].reps))
  BY DEF OInv, SInv, IInv, TypeOK, HolderLives, RetireOldSet, Goto, Next, Deploy
<1>2. pc \in DeploySteps /\ pc' \in DeploySteps
  BY <1>1 DEF DeploySteps, SwapSteps
<1>3. AllOwned'
  BY <1>1, <1>2, NoNewConts, OwnersStay
<1>4. ASSUME pc' = "status" PROVE \A c \in SeqSet(rows[cur].reps) : conts'[c].state = "gone"
  <2>1. SeqSet(rows[cur].reps) \subseteq ContIds
    BY <1>1, <1>4, CurrentRow, ListedConts
  <2>2. Faults \cap {"remove", "cancel"} = {}  BY DEF Tidy
  <2> QED  BY <1>1, <1>4, <2>1, <2>2, EachRemoved
<1>5. cur = CurrentDeployment(job.app)'
  BY <1>1 DEF CurrentDeployment, Newest, WithStatus, RowIds
<1> HIDE DEF cur
<1>6. Cleared'
  <2>1. (pc = "status" => \A c \in SeqSet(rows[CurrentDeployment(job.app)].reps) : Gone(c))'
    BY <1>1, <1>4, <1>5 DEF Gone, SeqSet
  <2> QED  BY <1>1, <2>1 DEF Cleared
<1> QED  BY <1>1, <1>3, <1>6 DEF HolderLives

LEMMA OwnDiscard ==
  ASSUME Tidy, OInv, Discard PROVE AllOwned' /\ Cleared' /\ HolderLives'
<1>1. /\ IInv /\ WorldTypeOK /\ [Next]_vars /\ pc = "discard" /\ pc' = "fail"
      /\ UNCHANGED <<rows, job>> /\ job.live /\ RemoveEach(SeqSet(job.new))
  BY DEF OInv, SInv, IInv, TypeOK, HolderLives, Discard, Goto, Next, Deploy
<1>2. pc \in DeploySteps /\ pc' \in DeploySteps
  BY <1>1 DEF DeploySteps, UndoSteps
<1>3. AllOwned'
  BY <1>1, <1>2, NoNewConts, OwnersStay
<1>4. \A c \in SeqSet(job.new) : conts'[c].state = "gone"
  <2>1. SeqSet(job.new) \subseteq ContIds  BY <1>1, <1>2, ListedConts
  <2>2. Faults \cap {"remove", "cancel"} = {}  BY DEF Tidy
  <2> QED  BY <1>1, <2>1, <2>2, EachRemoved
<1>5. (\A c \in SeqSet(job.new) : Gone(c))'
  BY <1>1, <1>4 DEF Gone, SeqSet
<1> QED  BY <1>1, <1>3, <1>5 DEF HolderLives, Cleared

\* A running row is retired: everything it lists is gone.
LEMMA OwnRetire ==
  ASSUME Tidy, OInv, RetireOldRow \/ RetireRemoved PROVE AllOwned' /\ Cleared' /\ HolderLives'
<1> DEFINE old == IF pc = "status" THEN CurrentDeployment(job.app) ELSE job.row
<1>1. /\ WorldTypeOK /\ GenerationIsRow /\ AskedTypeOK /\ IInv /\ [Next]_vars
      /\ UNCHANGED <<conts, asked, edge>> /\ "store" \notin Faults
  BY DEF OInv, SInv, IInv, TypeOK, RetireOldRow, RetireRemoved, Next, Deploy, Remove, Tidy
<1>2. /\ SetStatus(old, "retired")
      /\ \/ pc = "status" /\ pc' = "record" /\ UNCHANGED job
         \/ pc = "rmstatus" /\ pc' = "idle"
  BY <1>1 DEF RetireOldRow, RetireRemoved, Goto, Done
<1>3. old \in WithStatus(job.app, "running")
  <2>1. CASE pc = "status"
    <3>1. WithStatus(job.app, "running") # {}  BY <1>1, <2>1 DEF IInv, HolderOK
    <3> QED  BY <1>1, <2>1, <3>1, NoCurrentRow, CurrentRow
  <2>2. CASE pc = "rmstatus"
    BY <1>1, <2>2 DEF IInv, HolderOK, RemoveSteps
  <2> QED  BY <1>2, <2>1, <2>2
<1>4. old \in RowIds /\ rows[old].app = job.app
  BY <1>3 DEF WithStatus
<1>5. \A c \in SeqSet(rows[old].reps) : conts'[c].state = "gone"
  <2>1. CASE pc = "status"
    BY <1>1, <2>1 DEF OInv, Cleared, Gone
  <2>2. CASE pc = "rmstatus"
    <3>1. \A c \in SeqSet(rows[old].reps) : c \in ContIds /\ conts[c].app = job.app
      BY <1>1, <1>4, ListedConts DEF GenerationIsRow
    <3> QED  BY <1>1, <2>2, <3>1 DEF OInv, Cleared, Gone
  <2> QED  BY <1>2, <2>1, <2>2
<1> HIDE DEF old
<1>6. RowIds' = RowIds /\ \A k \in RowIds : k # old => rows'[k] = rows[k]
  BY <1>1, <1>2, <1>4, EdgeUnchanged, StatusSet DEF Status
<1>7. \A c \in ContIds' : ~Gone(c)' => c \in ContIds /\ ~Gone(c)
  BY <1>1 DEF ContIds, Gone
<1>8. \A i \in RowIds : \/ i \in RowIds' /\ rows'[i] = rows[i]
                        \/ \A c \in SeqSet(rows[i].reps) : conts'[c].state = "gone"
  BY <1>5, <1>6
<1>9. pc \in DeploySteps => pc' \in DeploySteps /\ UNCHANGED job
  BY <1>2 DEF DeploySteps, SwapSteps, UndoSteps
<1>10. AllOwned'
  BY <1>7, <1>8, <1>9, OwnersMove
<1> QED  BY <1>2, <1>10 DEF Cleared, HolderLives, OInv

\* A row is recorded: it lists the candidate, or the candidate is gone.
LEMMA OwnRecord ==
  ASSUME Tidy, OInv, RecordRunning \/ RecordFailed PROVE AllOwned' /\ Cleared' /\ HolderLives'
<1>1. PICK st, sched, reps :
        /\ rows' = Append(rows, NewRow(st, job.spec, sched, reps))
        /\ \/ pc = "record" /\ st = "running" /\ reps = job.new
           \/ pc = "fail"
  <2>1. "store" \notin Faults  BY DEF Tidy
  <2> QED  BY <2>1 DEF RecordRunning, RecordFailed, RecordDeployment
<1>2. IInv /\ rows \in Seq(Row) /\ UNCHANGED conts /\ pc' = "idle"
  BY DEF OInv, SInv, IInv, TypeOK, WorldTypeOK, RecordRunning, RecordFailed, Done
<1> DEFINE row == NewRow(st, job.spec, sched, reps)
<1>3. row.status = st /\ row.reps = reps
  BY DEF NewRow
<1>4. rows' = Append(rows, row)  BY <1>1
<1> HIDE DEF row
<1>5. /\ RowIds' = RowIds \cup {Len(rows) + 1}
      /\ \A i \in RowIds : rows'[i] = rows[i]
      /\ rows'[Len(rows) + 1] = row
  BY <1>2, <1>4 DEF RowIds
<1>6. \A c \in SeqSet(job.new) :
        \/ conts'[c].state = "gone"
        \/ \E i \in RowIds' : rows'[i].status = "running" /\ c \in SeqSet(rows'[i].reps)
  <2>1. CASE pc = "record"
    BY <1>1, <1>3, <1>5, <2>1
  <2>2. CASE pc = "fail"
    BY <1>2, <2>2 DEF OInv, Cleared, Gone
  <2> QED  BY <1>1, <2>1, <2>2
<1>7. \A c \in ContIds' : ~Gone(c)' => c \in ContIds /\ ~Gone(c)
  BY <1>2 DEF ContIds, Gone
<1>8. AllOwned'
  BY <1>5, <1>6, <1>7, OwnersMove
<1> QED  BY <1>2, <1>8 DEF Cleared, HolderLives

\* Every container of the app that is left is on a node of its running row.
LEMMA OwnRemoveContainers ==
  ASSUME Tidy, OInv, RemoveContainers PROVE AllOwned' /\ Cleared' /\ HolderLives'
<1>1. /\ WorldTypeOK /\ GenerationIsRow /\ IInv /\ [Next]_vars /\ OneRunning
      /\ pc = "rmconts" /\ UNCHANGED rows /\ job.live
      /\ \/ job.row = 0 /\ pc' = "idle"
         \/ job.row # 0 /\ pc' = "rmroute" /\ UNCHANGED job
  BY DEF OInv, SInv, IInv, TypeOK, HolderLives, RemoveContainers, Done, Goto, Next, Remove, Tidy
<1>2. pc \notin DeploySteps
  BY <1>1 DEF DeploySteps, SwapSteps, UndoSteps
<1>3. AllOwned'
  BY <1>1, <1>2, NoNewConts, OwnersStay
<1>4. CASE job.row = 0 /\ pc' = "idle"
  BY <1>3, <1>4 DEF Cleared, HolderLives
<1>5. CASE job.row # 0 /\ pc' = "rmroute" /\ UNCHANGED job
  <2>1. conts' = WithoutConts(Labelled)
    <3>1. PICK skip : skip = {} /\ conts' = WithoutConts({c \in Labelled : conts[c].node \notin skip})
      BY DEF RemoveContainers, Tidy
    <3>2. {c \in Labelled : conts[c].node \notin skip} = Labelled
      BY <3>1
    <3> QED  BY <3>1, <3>2
  <2>2. ContIds' = ContIds /\ \A c \in ContIds : conts'[c].app = conts[c].app
    BY <1>1, <2>1, ContainersRemoved DEF WorldTypeOK
  <2>3. ASSUME NEW c \in ContIds, conts[c].app = job.app PROVE conts'[c].state = "gone"
    <3>1. CASE Gone(c)
      BY <1>1, <3>1, GoneStays
    <3>2. CASE ~Gone(c)
      <4>1. PICK i \in RowIds : rows[i].status = "running" /\ c \in SeqSet(rows[i].reps)
        BY <1>2, <3>2 DEF OInv, AllOwned
      <4>2. rows[i].app = job.app
        BY <1>1, <2>3, <4>1 DEF GenerationIsRow
      <4>3. job.row \in RowIds /\ rows[job.row].status = "running" /\ rows[job.row].app = job.app
        BY <1>1, <1>5 DEF IInv, HolderOK, RemoveSteps, WithStatus
      <4>4. i = job.row
        BY <1>1, <4>1, <4>2, <4>3 DEF OneRunning
      <4>5. c \in Labelled
        BY <1>5, <2>3, <3>2, <4>1, <4>4 DEF Labelled, ReplicaNodes, Gone
      <4>6. conts[c] \in Container
        BY <1>1 DEF WorldTypeOK, ContIds
      <4> QED  BY <2>1, <4>5, <4>6 DEF WithoutConts, Container
    <3> QED  BY <3>1, <3>2
  <2>4. (\A c \in ContIds : conts[c].app = job.app => Gone(c))'
    BY <1>5, <2>2, <2>3 DEF Gone
  <2> QED  BY <1>1, <1>3, <1>5, <2>4 DEF Cleared, HolderLives
<1> QED  BY <1>1, <1>4, <1>5

LEMMA OwnRemoveRoute ==
  ASSUME OInv, RemoveRoute PROVE AllOwned' /\ Cleared' /\ HolderLives'
<1>1. /\ [Next]_vars /\ UNCHANGED <<rows, conts, job>> /\ pc = "rmroute" /\ pc' = "rmstatus"
      /\ job.live
  BY DEF OInv, HolderLives, RemoveRoute, Goto, Next, Remove
<1>2. AllOwned'
  BY <1>1, OwnersStay DEF ContIds, DeploySteps, SwapSteps, UndoSteps
<1>3. (\A c \in ContIds : conts[c].app = job.app => Gone(c))'
  BY <1>1 DEF OInv, Cleared, ContIds, Gone
<1> QED  BY <1>1, <1>2, <1>3 DEF Cleared, HolderLives

\* A request, and a container that dies, leave every container its owner.
LEMMA OwnRequest ==
  ASSUME OInv, Request PROVE AllOwned' /\ Cleared' /\ HolderLives'
<1>1. IInv /\ [Next]_vars /\ rows \in Seq(Row)
  BY DEF OInv, SInv, IInv, TypeOK, WorldTypeOK, Next
<1>2. CASE UNCHANGED <<rows, conts, pc, job>>
  <2>1. CurrentDeployment(job.app)' = CurrentDeployment(job.app)
    BY <1>2 DEF CurrentDeployment, Newest, WithStatus, RowIds
  <2>2. AllOwned'
    BY <1>1, <1>2, OwnersStay DEF ContIds
  <2>3. Cleared'
    BY <1>2, <2>1 DEF OInv, Cleared, Gone, ContIds, SeqSet
  <2> QED  BY <1>2, <2>2, <2>3 DEF OInv, HolderLives
<1>3. CASE UNCHANGED conts /\ pc = "idle" /\ (pc' \in {"run", "rmconts"} => job'.live)
           /\ pc' \in {"idle", "run", "rmconts"}
           /\ (UNCHANGED rows \/ \E row : rows' = Append(rows, row))
  <2>1. pc \notin DeploySteps
    BY <1>3 DEF DeploySteps, SwapSteps, UndoSteps
  <2>2. \A c \in ContIds' : ~Gone(c)' => c \in ContIds /\ ~Gone(c)
    BY <1>3 DEF ContIds, Gone
  <2>3. \A i \in RowIds : i \in RowIds' /\ rows'[i] = rows[i]
    BY <1>1, <1>3 DEF RowIds
  <2>4. AllOwned'
    BY <2>1, <2>2, <2>3, OwnersMove
  <2> QED  BY <1>3, <2>4 DEF Cleared, HolderLives
<1>4. ASSUME NEW a \in Apps, BeginRemove(a) PROVE AllOwned' /\ Cleared' /\ HolderLives'
  BY <1>3, <1>4 DEF BeginRemove, world
<1>5. ASSUME NEW s \in Spec0, NEW sched \in BOOLEAN, pc = "idle",
             StartDeploy(s, sched) \/ AbandonDeploy(s, sched)
      PROVE  AllOwned' /\ Cleared' /\ HolderLives'
  <2>1. CASE StartDeploy(s, sched)
    <3>1. UNCHANGED <<rows, conts>> /\ pc' = "run" /\ job'.live
      BY <2>1 DEF StartDeploy
    <3> QED  BY <1>3, <1>5, <3>1
  <2>2. CASE AbandonDeploy(s, sched)
    <3>1. UNCHANGED <<conts, pc>> /\ (UNCHANGED rows \/ \E row : rows' = Append(rows, row))
      BY <2>2 DEF AbandonDeploy
    <3> QED  BY <1>3, <1>5, <3>1
  <2> QED  BY <1>5, <2>1, <2>2
<1> QED  BY <1>1, <1>2, <1>4, <1>5, RequestCases DEF AskRollback, AskScale, world

LEMMA OwnDie ==
  ASSUME OInv, NEW d \in ContIds, Die(d) PROVE AllOwned' /\ Cleared' /\ HolderLives'
<1>1. /\ IInv /\ [Next]_vars /\ UNCHANGED <<rows, pc, job>> /\ WorldTypeOK
      /\ ContIds' = ContIds
  BY DEF OInv, SInv, IInv, TypeOK, Die, Next, Environment, ContIds
<1>2. CurrentDeployment(job.app)' = CurrentDeployment(job.app)
  BY <1>1 DEF CurrentDeployment, Newest, WithStatus, RowIds
<1>3. AllOwned'
  BY <1>1, OwnersStay
<1>4. (pc = "status" => \A c \in SeqSet(rows[CurrentDeployment(job.app)].reps) : Gone(c))'
  <2> SUFFICES ASSUME pc = "status", NEW c \in SeqSet(rows[CurrentDeployment(job.app)].reps)
               PROVE  conts'[c].state = "gone"
    BY <1>1, <1>2 DEF Gone, SeqSet
  <2>1. WithStatus(job.app, "running") # {}
    BY <1>1 DEF IInv, HolderOK
  <2>2. CurrentDeployment(job.app) \in RowIds
    BY <1>1, <2>1, NoCurrentRow, CurrentRow
  <2>3. c \in ContIds /\ Gone(c)
    BY <1>1, <2>2, ListedConts DEF OInv, Cleared
  <2> QED  BY <1>1, <2>3, GoneStays
<1>5. (pc = "fail" => \A c \in SeqSet(job.new) : Gone(c))'
  <2> SUFFICES ASSUME pc = "fail", NEW c \in SeqSet(job.new) PROVE conts'[c].state = "gone"
    BY <1>1 DEF Gone, SeqSet
  <2>1. c \in ContIds /\ Gone(c)
    BY <1>1, ListedConts DEF OInv, Cleared, DeploySteps, UndoSteps
  <2> QED  BY <1>1, <2>1, GoneStays
<1>6. (pc \in {"rmroute", "rmstatus"} => \A c \in ContIds : conts[c].app = job.app => Gone(c))'
  <2> SUFFICES ASSUME pc \in {"rmroute", "rmstatus"}, NEW c \in ContIds, conts'[c].app = job.app
               PROVE  conts'[c].state = "gone"
    BY <1>1 DEF Gone
  <2>1. conts[c].app = job.app
    BY <1>1, NextKeepsConts DEF ContsKept
  <2> QED  BY <1>1, <2>1, GoneStays DEF OInv, Cleared
<1> QED  BY <1>1, <1>3, <1>4, <1>5, <1>6 DEF Cleared, HolderLives, OInv

LEMMA StutterOwn ==
  ASSUME OInv, UNCHANGED vars PROVE AllOwned' /\ Cleared' /\ HolderLives'
<1>1. CurrentDeployment(job.app)' = CurrentDeployment(job.app)
  BY DEF CurrentDeployment, Newest, WithStatus, RowIds, vars
<1>2. AllOwned'
  BY OwnersStay DEF ContIds, vars
<1>3. Cleared'
  BY <1>1 DEF OInv, Cleared, Gone, ContIds, SeqSet, vars
<1> QED  BY <1>2, <1>3 DEF OInv, HolderLives, vars

-----------------------------------------------------------------------------
(* No orphans *)

LEMMA NextOInv == ASSUME Tidy, OInv, [Next]_vars PROVE OInv'
<1>1. SInv'
  BY NextSInv DEF OInv, Tidy
<1>2. NoRow'
  BY NextNoRow DEF OInv, SInv
<1>3. AllOwned' /\ Cleared' /\ HolderLives'
  <2>1. CASE Deploy
    BY <2>1, OwnRunReplica, OwnDeployGoesOn, OwnRetireOldSet, OwnRetire, OwnRecord, OwnDiscard
       DEF Deploy
  <2>2. CASE Remove
    BY <2>2, OwnRemoveContainers, OwnRemoveRoute, OwnRetire DEF Remove
  <2>3. CASE Environment
    BY <2>3, OwnDie DEF Environment, Cancel, CrashRestart, Tidy
  <2> QED  BY <2>1, <2>2, <2>3, OwnRequest, StutterOwn DEF Next
<1>4. GenerationIsRow'
  BY NextGeneration DEF OInv, SInv
<1> QED  BY <1>1, <1>2, <1>3, <1>4 DEF OInv

LEMMA InitOInv == Init => OInv
<1>1. ASSUME Init PROVE RowIds = {} /\ ContIds = {} /\ pc = "idle"
  BY <1>1 DEF Init, WorldInit, RowIds, ContIds
<1> QED  BY <1>1, InitSInv DEF OInv, GenerationIsRow, NoRow, AllOwned, Cleared, HolderLives

\* At rest every container left belongs to its app's running deployment,
\* whatever cannot be started, whatever Caddy refuses or does behind the
\* daemon's back, and whatever container exits: failed candidates, retired sets
\* and removed apps leave nothing behind.  What can leave one are the failures
\* Tidy names.
THEOREM NothingLeftBehind == ASSUME Tidy PROVE Spec => []NoOrphans
<1>1. OInv /\ [Next]_vars => OInv'  BY NextOInv
<1>2. ASSUME OInv PROVE NoOrphans
  <2> SUFFICES ASSUME pc = "idle", NEW c \in ContIds, ~Gone(c)
               PROVE  /\ CurrentDeployment(conts[c].app) # 0
                      /\ c \in SeqSet(rows[CurrentDeployment(conts[c].app)].reps)
    BY DEF NoOrphans, Gone
  <2>1. WorldTypeOK /\ OneRunning /\ GenerationIsRow
    BY <1>2 DEF OInv, SInv, IInv, TypeOK
  <2>2. PICK i \in RowIds : rows[i].status = "running" /\ c \in SeqSet(rows[i].reps)
    BY <1>2 DEF OInv, AllOwned, DeploySteps, SwapSteps, UndoSteps
  <2>3. conts[c].app = rows[i].app
    BY <2>1, <2>2 DEF GenerationIsRow
  <2>4. i \in WithStatus(conts[c].app, "running")
    BY <2>2, <2>3 DEF WithStatus
  <2>5. i = CurrentDeployment(conts[c].app)
    BY <2>1, <2>4, CurrentIsRunning
  <2>6. i # 0
    BY <2>1 DEF WorldTypeOK, RowIds
  <2> QED  BY <2>2, <2>5, <2>6
<1> QED  BY <1>1, <1>2, InitOInv, PTL DEF Spec

=============================================================================
