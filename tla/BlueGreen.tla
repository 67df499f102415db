------------------------------ MODULE BlueGreen ------------------------------
(***************************************************************************)
(* Deploying, rolling back, scaling and removing image and git apps:       *)
(* Reconciler.Apply, Rollback and Remove, with deployReplicaSet's          *)
(* blue-green generation swap taken one external call at a time, and the   *)
(* API's scale handler.  Everything that changes state runs under r.mu     *)
(* (pc is where its holder is); Rollback and handleScale read the store    *)
(* before they take it.  The daemon may crash between any two calls.       *)
(***************************************************************************)
EXTENDS Controller

CONSTANT MaxAsked   \* bound: requests that have read the store and wait for r.mu

VARIABLES
  pc,     \* the next call of the operation that holds r.mu, "idle" if it is free
  job,    \* the local variables of that operation
  asked   \* rollback and scale requests, with the row they read lock-free

vars == <<rows, conts, routes, stage, caddy, pc, job, asked>>

SwapSteps == {"unstage", "retire", "status", "record"}   \* the flip is done
UndoSteps == {"undo", "discard", "fail"}                  \* the candidate has failed
DeploySteps == {"run", "stage", "gate", "flip"} \cup SwapSteps \cup UndoSteps
RemoveSteps == {"rmconts", "rmroute", "rmstatus"}

\* id: the deploy id; tgt: the replicas' nodes; new: the containers started;
\* row: the row a removal retires; live: the request's context is not cancelled.
Job == [app: Apps, spec: Spec0, sched: BOOLEAN, id: Nat, tgt: Seq(Nodes),
        new: Seq(Nat), row: Nat, live: BOOLEAN]
NoJob == [live |-> FALSE]

Ask == [kind: {"rollback"}, row: Nat \ {0}, count: {0}]
         \cup [kind: {"scale"}, row: Nat \ {0}, count: Counts]

MayFail(f) == f \in Faults \/ ~job.live

\* Caddy's answer to the post of a candidate routing table r, when the caller
\* goes on the same way whatever it is ("_ = r.router.Remove...").
BestEffort(r, st) ==
  \/ job.live /\ Applied(r, st)
  \/ MayFail("router") /\ Rejected
  \/ "ambiguous" \in Faults /\ AppliedUnknown(r)

Goto(l) == pc' = l /\ UNCHANGED job
\* Defect: the finished operation's local variables are left behind.
DoneDefect == pc' = "idle" /\ UNCHANGED job
Done == pc' = "idle" /\ job' = NoJob

-----------------------------------------------------------------------------
(* Requests, placement, and what comes before the first container *)

\* Rollback reads PreviousDeployment, and handleScale CurrentDeployment,
\* before Apply (or rollbackGit/rollbackImage) takes the lock.
AskRollback(a) ==
  /\ Cardinality(asked) < MaxAsked
  /\ PreviousDeployment(a) # 0
  /\ asked' = asked \cup {[kind |-> "rollback", row |-> PreviousDeployment(a), count |-> 0]}
  /\ UNCHANGED <<world, pc, job>>

AskScale(a, n) ==
  /\ Cardinality(asked) < MaxAsked
  /\ CurrentDeployment(a) # 0
  /\ asked' = asked \cup {[kind |-> "scale", row |-> CurrentDeployment(a), count |-> n]}
  /\ UNCHANGED <<world, pc, job>>

(***************************************************************************)
(* resolvePlacement for the anchor, then deployReplicaSet's own loop for   *)
(* the others: a pinned app stacks every replica on its node; a scheduled  *)
(* one goes wherever the scheduler finds room, which this module leaves    *)
(* open.                                                                   *)
(***************************************************************************)
Placements(s, sched) ==
  {t \in [1..s.count -> Nodes] :
     /\ s.node # AnyNode => t[1] = s.node
     /\ ~sched => \A i \in 1..s.count : t[i] = t[1]}

\* Node, router, network, image, secrets and backing are all in place: the
\* first reload (EnsureUp) has posted the committed table.
StartDeploy(s, sched) ==
  /\ Len(rows) < MaxRows
  /\ Len(conts) + s.count <= MaxConts
  /\ \E t \in Placements(s, sched) :
       job' = [app |-> s.app, spec |-> [s EXCEPT !.node = t[1]], sched |-> sched,
               id |-> NextDeployID, tgt |-> t, new |-> <<>>, row |-> 0, live |-> TRUE]
  /\ pc' = "run"
  /\ caddy' = routes
  /\ UNCHANGED <<rows, conts, routes, stage>>

\* One of those steps fails: recorded as a failed deployment by some
\* (placement, node, secrets, backing) and by others not; EnsureUp's reload
\* may have been reached or not.
AbandonDeploy(s, sched) ==
  /\ "run" \in Faults
  /\ Len(rows) < MaxRows
  /\ rows' \in {rows, Append(rows, NewRow("failed", s, FALSE, <<>>))}
  /\ caddy' \in {caddy, routes}
  /\ UNCHANGED <<conts, routes, stage, pc, job>>

BeginApply(s) ==
  /\ pc = "idle"
  /\ \/ StartDeploy(s, s.node = AnyNode)
     \/ AbandonDeploy(s, s.node = AnyNode)
  /\ UNCHANGED asked

\* The snapshot's node is concrete, its provenance is carried over.
BeginRollback(q) ==
  /\ pc = "idle" /\ q.kind = "rollback"
  /\ \/ StartDeploy(rows[q.row].spec, rows[q.row].sched)
     \/ AbandonDeploy(rows[q.row].spec, rows[q.row].sched)
  /\ asked' = asked \ {q}

\* A scheduled app's node is cleared, so that it is placed anew.
ScaledSpec(q) ==
  [rows[q.row].spec EXCEPT !.count = q.count,
                           !.node = IF rows[q.row].sched THEN AnyNode ELSE @]

\* Apply clones and builds a git app again: the head may have moved meanwhile.
Rebuilds(s) ==
  {s} \cup {[s EXCEPT !.ver = t.ver] : t \in {t \in Specs : s.git /\ t.git /\ t.app = s.app}}

BeginScale(q) ==
  /\ pc = "idle" /\ q.kind = "scale"
  /\ \E s \in Rebuilds(ScaledSpec(q)) :
       \/ StartDeploy(s, s.node = AnyNode)
       \/ AbandonDeploy(s, s.node = AnyNode)
  /\ asked' = asked \ {q}

-----------------------------------------------------------------------------
(* deployReplicaSet *)

NextReplica == Len(job.new) + 1
ReplicaIdx == IF job.spec.count = 1 THEN 0 ELSE NextReplica
NameIsFree == NameFree(job.app, job.tgt[NextReplica], job.id, ReplicaIdx)

StartContainer ==
  \E ready \in BOOLEAN :
    conts' = Append(conts, NewContainer(job.app, job.tgt[NextReplica], job.id,
                                        ReplicaIdx, ready))

RunReplica ==
  /\ pc = "run" /\ job.live /\ NameIsFree
  /\ StartContainer
  /\ job' = [job EXCEPT !.new = Append(@, Len(conts) + 1)]
  /\ pc' = IF NextReplica = job.spec.count THEN "stage" ELSE "run"
  /\ UNCHANGED <<rows, edge, asked>>

\* It cannot be started; it was, but the reply is lost; or it is up and cannot
\* be connected to the backing network.
RunReplicaFails ==
  /\ pc = "run"
  /\ \/ (MayFail("run") \/ ~NameIsFree) /\ UNCHANGED <<conts, job>>
     \/ "lost" \in Faults /\ NameIsFree /\ StartContainer /\ UNCHANGED job
     \/ /\ "run" \in Faults /\ job.live /\ NameIsFree
        /\ StartContainer
        /\ job' = [job EXCEPT !.new = Append(@, Len(conts) + 1)]
  /\ pc' = "undo"
  /\ UNCHANGED <<rows, edge, asked>>

SetStaging ==
  /\ pc = "stage"
  /\ \/ job.live /\ Applied(routes, stage \cup {job.id}) /\ Goto("gate")
     \/ MayFail("router") /\ Rejected /\ Goto("undo")
     \/ "ambiguous" \in Faults /\ AppliedUnknown(routes) /\ Goto("undo")
  /\ UNCHANGED <<rows, conts, asked>>

(***************************************************************************)
(* checkHealth for replica c of a generation staged behind one host.  A    *)
(* health path is probed through that host, so whichever staged replica    *)
(* Caddy picks may answer; Docker's own verdict is the container's; the    *)
(* liveness fallback wants the container up and the host answering.        *)
(***************************************************************************)
Answers(c) == conts[c].state = "running" /\ conts[c].ready
StagedAnswers(new) == \E i \in DOMAIN new : \E c \in Behind(UpstreamOf(new[i])) : Answers(c)

\* Defect: a container that is up is taken to be healthy.
GatedDefect(gate, new, c) == conts[c].state = "running"

Gated(gate, new, c) ==
  CASE gate = "path"     -> StagedAnswers(new)
    [] gate = "docker"   -> Answers(c)
    [] gate = "liveness" -> conts[c].state = "running" /\ StagedAnswers(new)

HealthGate ==
  /\ pc = "gate"
  /\ \/ /\ job.live
        /\ \A i \in DOMAIN job.new : Gated(job.spec.gate, job.new, job.new[i])
        /\ Goto("flip")
     \/ Goto("undo")      \* not ready by the deadline
  /\ UNCHANGED <<world, asked>>

\* Defects: the new upstreams are added to the old ones; only the route that
\* changes is posted.
FlippedDefectAdds == [routes EXCEPT ![job.spec.dom] = @ \cup Upstreams(job.new)]
FlippedDefectDrops == [NoRoutes EXCEPT ![job.spec.dom] = Upstreams(job.new)]

Flipped == [routes EXCEPT ![job.spec.dom] = Upstreams(job.new)]

Flip ==
  /\ pc = "flip"
  /\ \/ job.live /\ Applied(Flipped, stage) /\ Goto("unstage")
     \/ MayFail("router") /\ Rejected /\ Goto("undo")
     \/ "ambiguous" \in Faults /\ AppliedUnknown(Flipped) /\ Goto("undo")
  /\ UNCHANGED <<rows, conts, asked>>

RemoveStaging ==
  /\ pc = "unstage"
  /\ BestEffort(routes, stage \ {job.id})
  /\ Goto("retire")
  /\ UNCHANGED <<rows, conts, asked>>

\* Best-effort removal of containers cs: any may stay, and all that are left
\* when the client hangs up do.
RemoveEach(cs) ==
  \E kept \in SUBSET cs :
    /\ kept # {} => Faults \cap {"remove", "cancel"} # {}
    /\ ~job.live => kept = cs
    /\ conts' = WithoutConts(cs \ kept)

RetireOldSet ==
  /\ pc = "retire"
  /\ LET prev == CurrentDeployment(job.app) IN
       \/ prev = 0 /\ UNCHANGED conts /\ Goto("record")
       \/ prev # 0 /\ RemoveEach(SeqSet(rows[prev].reps)) /\ Goto("status")
       \/ "store" \in Faults /\ UNCHANGED conts /\ Goto("record")
  /\ UNCHANGED <<rows, edge, asked>>

\* Defect: the write is made under the request's context.
RetireOldRowDefect ==
  /\ pc = "status"
  /\ \/ job.live /\ SetStatus(CurrentDeployment(job.app), "retired")
     \/ ~job.live /\ UNCHANGED rows
  /\ Goto("record")
  /\ UNCHANGED <<conts, edge, asked>>

RetireOldRow ==
  /\ pc = "status"
  /\ \/ SetStatus(CurrentDeployment(job.app), "retired")
     \/ "store" \in Faults /\ UNCHANGED rows
  /\ Goto("record")
  /\ UNCHANGED <<conts, edge, asked>>

\* Defect: nothing is recorded once the client has hung up.
RecordRunningDefect ==
  /\ pc = "record"
  /\ rows' = IF job.live THEN Append(rows, NewRow("running", job.spec, job.sched, job.new))
             ELSE rows
  /\ Done
  /\ UNCHANGED <<conts, edge, asked>>

RecordRunning ==
  /\ pc = "record"
  /\ \/ RecordDeployment(NewRow("running", job.spec, job.sched, job.new))
     \/ "store" \in Faults /\ UNCHANGED rows
  /\ Done
  /\ UNCHANGED <<conts, edge, asked>>

\* Defect: it goes on until Caddy accepts.
UndoStagingDefect ==
  /\ pc = "undo"
  /\ \/ job.live /\ Applied(routes, stage \ {job.id}) /\ Goto("discard")
     \/ ~job.live /\ Rejected /\ Goto("undo")
  /\ UNCHANGED <<rows, conts, asked>>

\* recordFailedReplicaSet: drop the staging route, then the candidate's
\* containers, and record the attempt.
UndoStaging ==
  /\ pc = "undo"
  /\ BestEffort(routes, stage \ {job.id})
  /\ Goto("discard")
  /\ UNCHANGED <<rows, conts, asked>>

\* Defect: only the first replica is torn down.
DiscardDefect ==
  /\ pc = "discard"
  /\ RemoveEach({job.new[i] : i \in DOMAIN job.new \cap {1}})
  /\ Goto("fail")
  /\ UNCHANGED <<rows, edge, asked>>

Discard ==
  /\ pc = "discard"
  /\ RemoveEach(SeqSet(job.new))
  /\ Goto("fail")
  /\ UNCHANGED <<rows, edge, asked>>

\* Defect: the previous deployment is brought back to life instead.
RecordFailedDefect ==
  /\ pc = "fail"
  /\ IF PreviousDeployment(job.app) # 0
       THEN SetStatus(PreviousDeployment(job.app), "running")
       ELSE RecordDeployment(NewRow("failed", job.spec, FALSE, <<>>))
  /\ Done
  /\ UNCHANGED <<conts, edge, asked>>

RecordFailed ==
  /\ pc = "fail"
  /\ \/ RecordDeployment(NewRow("failed", job.spec, FALSE, <<>>))
     \/ "store" \in Faults /\ UNCHANGED rows
  /\ Done
  /\ UNCHANGED <<conts, edge, asked>>

-----------------------------------------------------------------------------
(* Remove, for an image or git app *)

BeginRemove(a) ==
  /\ pc = "idle"
  /\ \E s \in Specs : s.app = a   \* (fills job.spec, which a removal never reads)
       /\ job' = [app |-> a, spec |-> s, sched |-> FALSE, id |-> 0, tgt |-> <<>>,
                  new |-> <<>>, row |-> CurrentDeployment(a), live |-> TRUE]
  /\ pc' = "rmconts"
  /\ UNCHANGED <<world, asked>>

\* replicaNodeNames: the nodes the current row's replicas are on.
ReplicaNodes ==
  IF job.row = 0 THEN {Local} ELSE {conts[c].node : c \in SeqSet(rows[job.row].reps)}

Labelled == {c \in ContIds : /\ conts[c].app = job.app
                             /\ conts[c].node \in ReplicaNodes
                             /\ conts[c].state # "gone"}

\* Every container labelled with the app goes, node by node; a node that no
\* longer resolves is skipped, any other error ends the removal there.
RemoveContainers ==
  /\ pc = "rmconts"
  /\ \/ /\ job.live
        /\ \E skip \in SUBSET (ReplicaNodes \ {Local}) :
             /\ skip # {} => "remove" \in Faults
             /\ conts' = WithoutConts({c \in Labelled : conts[c].node \notin skip})
        /\ IF job.row = 0 THEN Done ELSE Goto("rmroute")
     \/ /\ Faults \cap {"remove", "cancel"} # {}
        /\ RemoveEach(Labelled)
        /\ Done
  /\ UNCHANGED <<rows, edge, asked>>

RemoveRoute ==
  /\ pc = "rmroute"
  /\ LET d == rows[job.row].spec.dom IN
       IF d = NoDomain
         THEN UNCHANGED edge
         ELSE BestEffort([routes EXCEPT ![d] = {}], stage)
  /\ Goto("rmstatus")
  /\ UNCHANGED <<rows, conts, asked>>

RetireRemoved ==
  /\ pc = "rmstatus"
  /\ \/ SetStatus(job.row, "retired")
     \/ "store" \in Faults /\ UNCHANGED rows
  /\ Done
  /\ UNCHANGED <<conts, edge, asked>>

-----------------------------------------------------------------------------
(* The environment *)

\* The client of the request in progress hangs up.
Cancel ==
  /\ "cancel" \in Faults /\ pc # "idle" /\ job.live
  /\ job' = [job EXCEPT !.live = FALSE]
  /\ UNCHANGED <<world, pc, asked>>

\* The daemon dies and comes back: buildInitialRoutes, SeedRoutes, EnsureUp.  It
\* goes on without routes if it cannot build them.
CrashRestart ==
  /\ "crash" \in Faults
  /\ \/ Applied(InitialRoutes, {})
     \/ "store" \in Faults /\ Applied(NoRoutes, {})
  /\ Done
  /\ asked' = {}
  /\ UNCHANGED <<rows, conts>>

Die(c) ==
  /\ "die" \in Faults
  /\ conts[c].state = "running"
  /\ conts' = [conts EXCEPT ![c].state = "dead"]
  /\ UNCHANGED <<rows, edge, pc, job, asked>>

-----------------------------------------------------------------------------
Init == WorldInit /\ pc = "idle" /\ job = NoJob /\ asked = {}

Deploy == \/ RunReplica \/ RunReplicaFails \/ SetStaging \/ HealthGate \/ Flip
          \/ RemoveStaging \/ RetireOldSet \/ RetireOldRow \/ RecordRunning
          \/ UndoStaging \/ Discard \/ RecordFailed
Remove == RemoveContainers \/ RemoveRoute \/ RetireRemoved

Request ==
  \/ \E a \in Apps : AskRollback(a) \/ BeginRemove(a)
  \/ \E a \in Apps, n \in Counts : AskScale(a, n)
  \/ \E s \in Specs : BeginApply(s)
  \/ \E q \in asked : BeginRollback(q) \/ BeginScale(q)

Environment == Cancel \/ CrashRestart \/ \E c \in ContIds : Die(c)

Next == Request \/ Deploy \/ Remove \/ Environment

Spec == Init /\ [][Next]_vars

\* Every call the holder of r.mu makes returns: the health gate has a deadline,
\* Caddy's client and the remote nodes' calls have timeouts.
FairSpec == Spec /\ WF_vars(Deploy \/ Remove)

-----------------------------------------------------------------------------
(* Properties *)

HolderTypeOK ==
  /\ pc \in {"idle"} \cup DeploySteps \cup RemoveSteps
  /\ IF pc = "idle" THEN job = NoJob ELSE job \in Job

AskedTypeOK == asked \subseteq Ask /\ \A q \in asked : q.row \in RowIds

TypeOK == WorldTypeOK /\ HolderTypeOK /\ AskedTypeOK

\* Where a deploy of a has flipped the route and not recorded it yet; where a
\* removal of a is under way.
Swapping(a) == pc \in SwapSteps /\ job.app = a
Removing(a) == pc \in RemoveSteps /\ job.app = a

\* An app never has two running deployments: the old row is retired before the
\* new one is recorded, and no other operation comes in between (reconciler.go,
\* deployReplicaSet; CurrentDeployment would otherwise hide the older one).
OneRunning ==
  \A i, j \in RowIds :
    (rows[i].app = rows[j].app /\ rows[i].status = "running" /\ rows[j].status = "running")
      => i = j

\* The deploy id predicted before the containers are named and labelled is the
\* id of the row that ends up listing them (NextDeployID against RecordDeployment).
GenerationIsRow ==
  \A i \in RowIds : \A c \in SeqSet(rows[i].reps) :
    conts[c].dep = i /\ conts[c].app = rows[i].app

\* Outside the window between flip and record, what the store says is running
\* is what the router routes, in memory and in Caddy: whatever failed, and
\* whether or not the daemon has restarted since (SetRoute's commit-on-success,
\* buildInitialRoutes).
RowIsRouted ==
  \A a \in Apps : \A d \in Domains \ {NoDomain} :
    (Claims(a, d) /\ ~Swapping(a) /\ ~Removing(a)) =>
      /\ routes[d] = Upstreams(rows[CurrentDeployment(a)].reps)
      /\ caddy[d] = routes[d]

\* The domain a is served on: the candidate's from the flip on, the current
\* row's otherwise.
Served(a) ==
  CASE Removing(a) -> {}
    [] Swapping(a) -> {job.spec.dom}
    [] OTHER -> {rows[i].spec.dom : i \in {CurrentDeployment(a)} \ {0}}

\* No downtime window (README, "blue-green"): at every step of every deploy,
\* successful or not, whatever Caddy sends a's traffic to is up and ready.
NoDowntime ==
  \A a \in Apps : \A d \in Served(a) :
    /\ caddy[d] # {}
    /\ \A u \in caddy[d] : Behind(u) # {} /\ \A c \in Behind(u) : Answers(c)

\* At rest every container left belongs to its app's running deployment: failed
\* candidates, retired sets and removed apps leave nothing behind.
NoOrphans ==
  pc = "idle" =>
    \A c \in ContIds : conts[c].state # "gone" =>
      /\ CurrentDeployment(conts[c].app) # 0
      /\ c \in SeqSet(rows[CurrentDeployment(conts[c].app)].reps)

\* A deployment that stopped running, or never ran, never runs again: a
\* rollback or a scale is a new row.
RetiredStaysRetired ==
  [][\A i \in RowIds : rows[i].status # "running" => rows'[i] = rows[i]]_vars

\* The generation of a that is served: the candidate from the flip on, none from
\* the removal of the route on, that of the current row otherwise; and the one
\* recorded, which a restart serves.  A domain that is not set counts for nothing.
NoGeneration == [gen |-> 0]
Generation(id, sp, us) ==
  [gen |-> id, spec |-> sp, ups |-> IF sp.dom = NoDomain THEN {} ELSE us]

RecordedOf(a) ==
  LET cur == CurrentDeployment(a) IN
  IF cur = 0 THEN NoGeneration ELSE Generation(cur, rows[cur].spec, Upstreams(rows[cur].reps))

LiveOf(a) ==
  LET cur == CurrentDeployment(a) IN
  CASE Swapping(a) -> Generation(job.id, job.spec, caddy[job.spec.dom])
    [] pc = "rmstatus" /\ job.app = a -> NoGeneration
    [] OTHER -> IF cur = 0 THEN NoGeneration
                ELSE Generation(cur, rows[cur].spec, caddy[rows[cur].spec.dom])

Promise == INSTANCE Rollout WITH
  Nothing <- NoGeneration,
  live <- [a \in Apps |-> LiveOf(a)],
  recorded <- [a \in Apps |-> RecordedOf(a)],
  past <- {i \in RowIds : rows[i].status # "failed"}

\* To a client a deploy is one step, whatever happens half way: Caddy goes over
\* to the whole new set of one app at once, the store follows or the daemon's
\* restart takes that app back to what is recorded, and all the others stay as
\* they are (deployReplicaSet, removeSingleService, buildInitialRoutes).
RollsOut == Promise!Spec

\* A candidate that has gone live is recorded as running, under the id it was
\* given before its first container: it never serves behind the store's back
\* (deployReplicaSet from SetRoute to RecordDeployment).
LiveIsRecorded ==
  \A i \in 1..MaxRows :
    (pc \in SwapSteps /\ job.id = i) ~> (i \in RowIds /\ rows[i].status = "running")

\* Nothing holds r.mu forever.
LockReleased == pc # "idle" ~> pc = "idle"

-----------------------------------------------------------------------------
(* The inductive invariant *)

\* What the holder of r.mu keeps in its local variables still agrees with the
\* store and with Docker when it acts on it: nothing moves the next deploy id,
\* or the row to retire, under it (the one-mutex discipline of Reconciler.mu).
CandidateOK ==
  /\ job.app = job.spec.app
  /\ job.id = NextDeployID
  /\ DOMAIN job.tgt = 1..job.spec.count
  /\ \A c \in SeqSet(job.new) :
       c \in ContIds /\ conts[c].dep = job.id /\ conts[c].app = job.app

HolderOK ==
  /\ pc \in DeploySteps => CandidateOK
  /\ pc = "run" => Len(job.new) < job.spec.count
  /\ pc = "status" => WithStatus(job.app, "running") # {}
  /\ pc \in {"rmroute", "rmstatus"} => job.row # 0
  /\ (pc \in RemoveSteps /\ job.row # 0) => job.row \in WithStatus(job.app, "running")

\* When a deploy is about to record its row, the old one has been retired.
OldRowRetired == pc = "record" => WithStatus(job.app, "running") = {}

\* No two apps claim one domain.  lwd does not see to it: the operator does.
ExclusiveDomains ==
  \A s, t \in Specs : (s.dom = t.dom /\ s.dom # NoDomain) => s.app = t.app

\* A spec a client submitted, but for its count and its node.
From(sp) == \E s \in Specs : s.app = sp.app /\ s.dom = sp.dom

\* Every spec the store or the holder has comes from one a client submitted.
SpecsAreSubmitted ==
  /\ \A i \in RowIds : rows[i].app = rows[i].spec.app /\ From(rows[i].spec)
  /\ pc \in DeploySteps => From(job.spec)

\* RowIsRouted, from the first instant on: the flip changes the route of the
\* app it deploys only, and a removal drops it only just before it retires the
\* row.
EdgeInv ==
  /\ caddy = routes
  /\ \A i \in RowIds :
       /\ rows[i].status = "running" /\ rows[i].spec.dom # NoDomain
       /\ ~Swapping(rows[i].app) /\ ~(pc = "rmstatus" /\ job.app = rows[i].app)
       => routes[rows[i].spec.dom] = Upstreams(rows[i].reps)
  /\ pc \in SwapSteps => routes[job.spec.dom] = Upstreams(job.new)

\* No two containers that are left have the same name on the same node.
NamesUnique ==
  \A c, d \in ContIds :
    ( /\ conts[c].state # "gone" /\ conts[d].state # "gone"
      /\ conts[c].app = conts[d].app /\ conts[c].node = conts[d].node
      /\ conts[c].dep = conts[d].dep /\ conts[c].idx = conts[d].idx ) => c = d

\* The three strengthenings: what holds whatever fails; what holds as long as
\* the store takes its writes; and, if besides no failed post has changed
\* anything and domains are exclusive, what makes every running row routed.
IInv == TypeOK /\ HolderOK
SInv == IInv /\ OneRunning /\ OldRowRetired
RInv == SInv /\ SpecsAreSubmitted /\ EdgeInv

=============================================================================
