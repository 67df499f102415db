-------------------------------- MODULE Fleet --------------------------------
(***************************************************************************)
(* BlueGreen on a fleet of nodes that come and go: the reconcile loop,     *)
(* which observes every replica without r.mu, heals the dead ones in place *)
(* and fails over the nodes it has lost (reconcile.go, replicaheal.go);    *)
(* EvacuateNode, which moves what the scheduler placed on a node           *)
(* (evacuate.go), for the loop or for an operator's drain (api.go).  A     *)
(* heal or an evacuation holds r.mu from its first call to its last, as a  *)
(* deploy does.  Pools and capacities are left open: wherever the scheduler*)
(* may place, it may also find no room.                                    *)
(***************************************************************************)
EXTENDS BlueGreen

CONSTANTS
  Managed,      \* the registered nodes: those that may be lost or drained
  MaxAttempts,  \* config.HealMaxAttempts
  MaxAway,      \* bound: nodes away at a time
  MaxCordoned   \* bound: nodes cordoned at a time

\* A node that is away refuses containers, and keeps those it has.
ASSUME ManagedAssumption == Managed \subseteq Nodes \ {Local}
ASSUME AttemptsAssumption == MaxAttempts \in Nat \ {0}
ASSUME CordonedAssumption == MaxCordoned \in Nat
ASSUME AwayAssumption == MaxAway \in Nat /\ (MaxAway > 0 => {"run", "remove"} \subseteq Faults)

VARIABLES
  away,      \* nodes that do not answer
  cordoned,  \* nodes whose row in the registry is not schedulable
  op,        \* the local variables of the heal or evacuation that holds r.mu
  loop,      \* where the goroutine of RunLoop is, and what it has observed
  heal,      \* Reconciler.heal: attempts, and whether the backoff still runs
  since,     \* Reconciler.unreachableSince: nodes with a running grace timer
  drained    \* history: cordoned nodes an evacuation has emptied

fleet == <<away, cordoned, op, loop, heal, since, drained>>
all   == <<vars, fleet>>
holder == <<pc, job, asked>>           \* BlueGreen's own
nodeVars == <<away, cordoned, drained>>

\* node, apps, failed: of an evacuation, the node, the apps still to look at,
\* and whether a move has failed; row, reps: the deployment being worked on and
\* its replicas as they will be recorded; todo: the replica indexes left; id:
\* the deploy id its containers are named by; fresh: the ones started.
Op == [kind: {"none", "heal", "evac"}, at: {"rest", "apps", "pick", "run", "stage", "gate",
         "unstage", "flip", "drop", "save", "undo", "discard"},
       node: Nodes, byLoop: BOOLEAN, apps: SUBSET Apps, failed: BOOLEAN,
       row: Nat, reps: Seq(Nat), todo: Seq(Nat), id: Nat, fresh: Seq(Nat)]
NoOp == [kind |-> "none", at |-> "rest", node |-> Local, byLoop |-> FALSE, apps |-> {},
         failed |-> FALSE, row |-> 0, reps |-> <<>>, todo |-> <<>>, id |-> 0, fresh |-> <<>>]

AtRest == [at |-> "rest"]
Loop == [at: {"rest"}]
          \cup [at: {"read"}, app: Apps, row: Nat, reps: Seq(Nat)]
          \cup [at: {"dead"}, app: Apps, row: Nat, idx: SUBSET Nat]
          \cup [at: {"well"}, app: Apps]
          \cup [at: {"failover"}, node: Nodes]
NoHeal == [attempts |-> 0, waits |-> FALSE]

Free == pc = "idle" /\ op = NoOp
NodeOf(c) == conts[c].node

\* The elements of a set of replica indexes, in increasing order.
InOrder(is) == CHOOSE s \in [1..Cardinality(is) -> is] :
                 \A i, j \in DOMAIN s : i < j => s[i] < s[j]

\* Removal of containers whose errors are dropped: those on a node that is
\* away stay.
RemoveReachable(cs) ==
  \E kept \in SUBSET cs :
    /\ {c \in cs : NodeOf(c) \in away} \subseteq kept
    /\ "remove" \notin Faults => kept = {}
    /\ conts' = WithoutConts(cs \ kept)

\* The outcomes of a post that is not made for a request.
TryPost(r, st) ==
  \/ Applied(r, st)
  \/ "router" \in Faults /\ Rejected
  \/ "ambiguous" \in Faults /\ AppliedUnknown(r)

\* Defect: a cordon is not looked at.
CandidatesDefect(exclude) == Nodes \ (away \cup exclude)

\* The schedulableCandidates Place does not turn down.
Candidates(exclude) == Nodes \ (away \cup cordoned \cup exclude)

-----------------------------------------------------------------------------
(* BlueGreen's requests and steps, on a fleet *)

\* Every target is resolved and its network made up front, and what is
\* scheduled is scheduled on a candidate; a rollback's anchor is where it was.
Placed(anchor) ==
  pc' = "run" => \A i \in DOMAIN job'.tgt :
    /\ job'.tgt[i] \notin away
    /\ job'.sched /\ (i > 1 \/ anchor) => job'.tgt[i] \in Candidates({})

FleetRequest ==
  /\ \/ \E a \in Apps : AskRollback(a) \/ \E n \in Counts : AskScale(a, n)
     \/ Free /\ (\E s \in Specs : BeginApply(s)) /\ Placed(TRUE)
     \/ Free /\ (\E q \in asked : BeginScale(q)) /\ Placed(TRUE)
     \/ Free /\ (\E q \in asked : BeginRollback(q)) /\ Placed(FALSE)
     \/ Free /\ \E a \in Apps : BeginRemove(a)
  /\ UNCHANGED fleet

\* A node that is away starts, loses and vouches for no container.  (Nothing here
\* tells a container that is not ready from one whose gate fails anyway.)
Reaches ==
  /\ \A c \in ContIds : NodeOf(c) \in away => conts'[c] = conts[c]
  /\ \A c \in DOMAIN conts' \ ContIds : conts'[c].node \notin away /\ conts'[c].ready
  /\ (pc = "gate" /\ pc' = "flip") => \A c \in SeqSet(job.new) : NodeOf(c) \notin away

\* resetHeal: a deployment that has been recorded starts with a clean slate.
FleetDeploy ==
  /\ Deploy \/ Remove
  /\ Reaches
  /\ heal' = IF pc = "record" /\ rows' # rows THEN [heal EXCEPT ![job.app] = NoHeal] ELSE heal
  /\ UNCHANGED <<op, loop, since, nodeVars>>

-----------------------------------------------------------------------------
(* Steps a heal and an evacuation have in common *)

At(kind, l) == op.kind = kind /\ op.at = l /\ pc = "idle"
AtEither(l) == op.kind # "none" /\ op.at = l /\ pc = "idle"
Healing == op.kind = "heal"

\* The next call is l; nothing else of the operation changes.
OpGoto(l) == op' = [op EXCEPT !.at = l] /\ UNCHANGED <<loop, heal, since, nodeVars>>

App == rows[op.row].app
Idx == Head(op.todo)
Old == op.reps[Idx]
NameIdx == IF Len(op.reps) > 1 THEN Idx ELSE 0

\* Starts the container that is to replace Old on node n, as deploy id.
RunOn(n, id) ==
  /\ n \notin away
  /\ NameFree(App, n, id, NameIdx)
  /\ conts' = Append(conts, NewContainer(App, n, id, NameIdx, TRUE))

\* The replica set that goes live: a heal has already put in what it started.
Merged == IF Healing THEN op.reps ELSE [op.reps EXCEPT ![Idx] = op.fresh[1]]

OpSetStaging ==
  /\ AtEither("stage")
  /\ \/ Applied(routes, stage \cup {op.id}) /\ OpGoto("gate")
     \/ "router" \in Faults /\ Rejected /\ OpGoto("undo")
     \/ "ambiguous" \in Faults /\ AppliedUnknown(routes) /\ OpGoto("undo")
  /\ UNCHANGED <<rows, conts, holder>>

OpGate ==
  /\ AtEither("gate")
  /\ \/ /\ \A c \in SeqSet(op.fresh) :
             NodeOf(c) \notin away /\ Gated(rows[op.row].spec.gate, op.fresh, c)
        /\ OpGoto(IF Healing THEN "flip" ELSE "unstage")
     \/ OpGoto("undo")
  /\ UNCHANGED vars

\* Defect: the replaced container goes before the route has been flipped.
OpUnstageDefect ==
  /\ AtEither("unstage")
  /\ TryPost(routes, stage \ {op.id})
  /\ OpGoto(IF Healing THEN "save" ELSE "drop")
  /\ UNCHANGED <<rows, conts, holder>>

\* A heal drops its staging route after the flip, a move before it.
OpUnstage ==
  /\ AtEither("unstage")
  /\ TryPost(routes, stage \ {op.id})
  /\ OpGoto(IF Healing THEN "save" ELSE "flip")
  /\ UNCHANGED <<rows, conts, holder>>

MergedRoute == [routes EXCEPT ![rows[op.row].spec.dom] = Upstreams(Merged)]

OpFlip ==
  /\ AtEither("flip")
  /\ LET failed == IF Healing THEN "undo" ELSE "discard" IN
       \/ Applied(MergedRoute, stage) /\ OpGoto(IF Healing THEN "unstage" ELSE "drop")
       \/ "router" \in Faults /\ Rejected /\ OpGoto(failed)
       \/ "ambiguous" \in Faults /\ AppliedUnknown(MergedRoute) /\ OpGoto(failed)
  /\ UNCHANGED <<rows, conts, holder>>

OpUndo ==
  /\ AtEither("undo")
  /\ TryPost(routes, stage \ {op.id})
  /\ OpGoto("discard")
  /\ UNCHANGED <<rows, conts, holder>>

\* tryHealWith's last lines: a failed attempt imposes a backoff, a successful
\* one forgets the attempts.
HealEnds(ok) ==
  /\ op' = NoOp /\ loop' = AtRest
  /\ heal' = [heal EXCEPT ![App] = IF ok THEN NoHeal ELSE [@ EXCEPT !.waits = TRUE]]
  /\ UNCHANGED <<since, nodeVars>>

\* The move is over: the next index, or the next app.
NextMove(reps, failed) ==
  LET last == Len(op.todo) = 1 IN
  /\ op' = [op EXCEPT !.todo = Tail(@), !.fresh = <<>>, !.failed = @ \/ failed,
                      !.id = 0, !.row = IF last THEN 0 ELSE @,
                      !.reps = IF last THEN <<>> ELSE reps,
                      !.at = IF last THEN "apps" ELSE "pick"]
  /\ UNCHANGED <<loop, heal, since, nodeVars>>

OpDiscard ==
  /\ AtEither("discard")
  /\ RemoveReachable(SeqSet(op.fresh))
  /\ IF Healing THEN HealEnds(FALSE) ELSE NextMove(op.reps, TRUE)
  /\ UNCHANGED <<rows, edge, holder>>

\* Defect: the row is written as it was read.
UpdateReplicasDefect == UNCHANGED rows

\* In place: the row keeps its id and its status.
UpdateReplicas == rows' = [rows EXCEPT ![op.row].reps = Merged]

OpSave ==
  /\ AtEither("save")
  /\ \/ /\ UpdateReplicas
        /\ IF Healing THEN HealEnds(TRUE) ELSE NextMove(Merged, FALSE)
     \/ /\ "store" \in Faults /\ UNCHANGED rows
        /\ IF Healing THEN HealEnds(FALSE) ELSE NextMove(op.reps, TRUE)
  /\ UNCHANGED <<conts, edge, holder>>

-----------------------------------------------------------------------------
(* The reconcile loop: observing and healing *)

\* reconcileApp reads the current row without r.mu ...
LoopRead(a) ==
  /\ loop = AtRest
  /\ CurrentDeployment(a) # 0
  /\ loop' = [at |-> "read", app |-> a, row |-> CurrentDeployment(a),
              reps |-> rows[CurrentDeployment(a)].reps]
  /\ UNCHANGED <<vars, op, heal, since, nodeVars>>

\* Defect: a container that has exited is not dead as long as it exists.
SurfaceIsDeadDefect(c, err) == err \/ conts[c].state = "gone"

\* What cannot be inspected counts as dead (err), whatever state it is in.
SurfaceIsDead(c, err) == err \/ conts[c].state # "running"

\* ... and looks at each replica it lists: the dead ones are to be healed,
\* those on nodes that do not answer are left to failover.
LoopProbe ==
  /\ loop.at = "read"
  /\ \E errs \in IF "inspect" \in Faults THEN SUBSET DOMAIN loop.reps ELSE {{}} :
     LET reached == {i \in DOMAIN loop.reps : NodeOf(loop.reps[i]) \notin away}
         dead    == {i \in reached : SurfaceIsDead(loop.reps[i], i \in errs)}
     IN loop' = CASE dead # {} -> [at |-> "dead", app |-> loop.app, row |-> loop.row, idx |-> dead]
                  [] dead = {} /\ reached = DOMAIN loop.reps -> [at |-> "well", app |-> loop.app]
                  [] OTHER -> AtRest
  /\ UNCHANGED <<vars, op, heal, since, nodeVars>>

\* clearHealAttempts.
LoopClear ==
  /\ loop.at = "well" /\ Free
  /\ heal' = [heal EXCEPT ![loop.app] = NoHeal]
  /\ loop' = AtRest
  /\ UNCHANGED <<vars, op, since, nodeVars>>

\* Defect: the row is not read again under the lock.
StillCurrentDefect == TRUE

\* tryHealWith reads the row again, now with r.mu.
StillCurrent == CurrentDeployment(loop.app) = loop.row

\* Defect: it never gives up.
EligibleDefect == ~heal[loop.app].waits

Eligible == heal[loop.app].attempts < MaxAttempts /\ ~heal[loop.app].waits

HealSkip ==
  /\ loop.at = "dead" /\ Free
  /\ ~StillCurrent \/ ~Eligible
  /\ loop' = AtRest
  /\ UNCHANGED <<vars, op, heal, since, nodeVars>>

\* healDeadReplicasLocked works on the row read again, at the indexes observed.
HealStart ==
  /\ loop.at = "dead" /\ Free /\ StillCurrent /\ Eligible
  /\ Len(conts) + Cardinality(loop.idx) <= MaxConts
  /\ op' = [NoOp EXCEPT !.kind = "heal", !.at = "pick", !.row = loop.row, !.id = NextDeployID,
                        !.reps = rows[loop.row].reps, !.todo = InOrder(loop.idx)]
  /\ heal' = [heal EXCEPT ![loop.app].attempts = @ + 1]
  /\ UNCHANGED <<vars, loop, since, nodeVars>>

\* The replica's own node is resolved, its network and image are ensured, and
\* the old container goes; any failure ends the heal.
HealRemoveOld ==
  /\ At("heal", "pick")
  /\ \/ NodeOf(Old) \notin away /\ RemoveReachable({Old}) /\ OpGoto("run")
     \/ "run" \in Faults /\ UNCHANGED conts /\ OpGoto("undo")
  /\ UNCHANGED <<rows, edge, holder>>

\* A fresh container on the same node; the second and third ways to fail: the
\* reply is lost, or the backing network cannot be joined.
HealRun ==
  /\ At("heal", "run")
  /\ LET started == [op EXCEPT !.reps[Idx] = Len(conts) + 1, !.fresh = Append(@, Len(conts) + 1),
                               !.todo = Tail(@)] IN
       \/ /\ RunOn(NodeOf(Old), op.id)
          /\ op' = [started EXCEPT !.at = IF Len(op.todo) = 1 THEN "stage" ELSE "pick"]
       \/ /\ "run" \in Faults \/ ~NameFree(App, NodeOf(Old), op.id, NameIdx)
          /\ UNCHANGED conts /\ op' = [op EXCEPT !.at = "undo"]
       \/ /\ "lost" \in Faults /\ RunOn(NodeOf(Old), op.id)
          /\ op' = [op EXCEPT !.at = "undo"]
       \/ /\ "run" \in Faults /\ RunOn(NodeOf(Old), op.id)
          /\ op' = [started EXCEPT !.at = "undo"]
  /\ UNCHANGED <<rows, edge, holder, loop, heal, since, nodeVars>>

BackoffElapses(a) ==
  /\ heal[a].waits
  /\ heal' = [heal EXCEPT ![a].waits = FALSE]
  /\ UNCHANGED <<vars, op, loop, since, nodeVars>>

-----------------------------------------------------------------------------
(* EvacuateNode *)

\* affectedByNode: the replicas of a's current deployment on node n.
AffectedIdx(a, n) ==
  IF CurrentDeployment(a) = 0 THEN {}
  ELSE {i \in DOMAIN rows[CurrentDeployment(a)].reps : NodeOf(rows[CurrentDeployment(a)].reps[i]) = n}

\* A pinned app is skipped.
ToMove(a, n) == AffectedIdx(a, n) # {} /\ rows[CurrentDeployment(a)].sched
IsPair(a) == Len(rows[CurrentDeployment(a)].reps) > 1

\* Bound: what is begun can be finished.
RoomToMove(n) ==
  LET apps == {a \in Apps : ToMove(a, n)} IN
  /\ Len(rows) + Cardinality({a \in apps : ~IsPair(a)}) <= MaxRows
  /\ Len(conts) + Cardinality({x \in apps \X (1..MaxConts) : x[2] \in AffectedIdx(x[1], n)})
       <= MaxConts

EvacStart(n, byLoop) ==
  /\ Free /\ RoomToMove(n)
  /\ op' = [NoOp EXCEPT !.kind = "evac", !.at = "apps", !.node = n, !.byLoop = byLoop,
                        !.apps = Apps]
  /\ UNCHANGED <<vars, loop, heal, since, nodeVars>>

EvacFailover == loop.at = "failover" /\ EvacStart(loop.node, TRUE)

NextApp(a) == At("evac", "apps") /\ a \in op.apps /\ ToMove(a, op.node)

\* A redeploy has ended and the row it was to replace still runs.
Unmoved == op.row # 0 /\ rows[op.row].status = "running"

\* rescheduleSurfaceLocked: a single replica is deployed anew on another node,
\* its provenance kept.
EvacRedeploy(a) ==
  /\ NextApp(a) /\ ~IsPair(a)
  /\ \E m \in Candidates({op.node}) :
       StartDeploy([rows[CurrentDeployment(a)].spec EXCEPT !.node = m], TRUE)
  /\ op' = [op EXCEPT !.apps = @ \ {a}, !.row = CurrentDeployment(a), !.failed = @ \/ Unmoved]
  /\ UNCHANGED <<asked, loop, heal, since, nodeVars>>

\* No other node has room, or what precedes the first container fails.
EvacGivesUp(a) ==
  /\ NextApp(a)
  /\ IF IsPair(a) THEN "run" \in Faults /\ UNCHANGED <<rows, conts, edge, pc, job>>
                  ELSE AbandonDeploy(rows[CurrentDeployment(a)].spec, TRUE)
  /\ op' = [op EXCEPT !.apps = @ \ {a}, !.row = 0, !.failed = TRUE]
  /\ UNCHANGED <<asked, loop, heal, since, nodeVars>>

\* evacuateReplicasLocked: of a set, the affected replicas only, one by one.
EvacReplicas(a) ==
  /\ NextApp(a) /\ IsPair(a)
  /\ op' = [op EXCEPT !.apps = @ \ {a}, !.at = "pick", !.failed = @ \/ Unmoved,
                      !.row = CurrentDeployment(a), !.reps = rows[CurrentDeployment(a)].reps,
                      !.todo = InOrder(AffectedIdx(a, op.node))]
  /\ UNCHANGED <<vars, loop, heal, since, nodeVars>>

\* Defect: only the node that is emptied is excluded.
NewHomesDefect == Candidates({op.node})

\* Neither that node nor one of the set's other replicas.
NewHomes == Candidates({op.node} \cup {NodeOf(op.reps[j]) : j \in DOMAIN op.reps \ {Idx}})

\* A replica is placed elsewhere and started there; the ways to fail are no room
\* or no start, a lost reply, and a backing network that cannot be joined.
EvacRun ==
  /\ At("evac", "pick")
  /\ \/ \E m \in NewHomes :
          /\ RunOn(m, NextDeployID)
          /\ \/ /\ \E l \in {"stage"} \cup (IF "run" \in Faults THEN {"undo"} ELSE {}) :
                     op' = [op EXCEPT !.at = l, !.id = NextDeployID, !.fresh = <<Len(conts) + 1>>]
                /\ UNCHANGED <<loop, heal, since, nodeVars>>
             \/ "lost" \in Faults /\ NextMove(op.reps, TRUE)
     \/ UNCHANGED conts /\ NextMove(op.reps, TRUE)
  /\ UNCHANGED <<rows, edge, holder>>

\* The replaced container goes, if its node is reachable.
EvacRemoveOld ==
  /\ At("evac", "drop")
  /\ RemoveReachable({Old})
  /\ OpGoto("save")
  /\ UNCHANGED <<rows, edge, holder>>

\* The result is reported; failoverLostNodes clears the node's timer whatever
\* it is.
EvacEnd ==
  /\ At("evac", "apps")
  /\ \A a \in op.apps : ~ToMove(a, op.node)
  /\ drained' = IF op.failed \/ Unmoved \/ op.node \notin cordoned THEN drained
                ELSE drained \cup {op.node}
  /\ op' = NoOp
  /\ IF op.byLoop THEN since' = since \ {op.node} /\ loop' = AtRest
                  ELSE UNCHANGED <<since, loop>>
  /\ UNCHANGED <<vars, away, cordoned, heal>>

\* failoverLostNodes looks at a node: reachable, lost since just now, still
\* within its grace period (no step), or lost for longer than that.
LoopNode(n) ==
  /\ loop = AtRest /\ Free
  /\ CASE n \notin away             -> since' = since \ {n} /\ UNCHANGED loop
       [] n \in away /\ n \notin since -> since' = since \cup {n} /\ UNCHANGED loop
       [] OTHER -> loop' = [at |-> "failover", node |-> n] /\ UNCHANGED since
  /\ UNCHANGED <<vars, op, heal, nodeVars>>

-----------------------------------------------------------------------------
(* The API's node handlers, and the environment *)

\* handleNodeDrain sets the cordon at once, and evacuates the node when it is
\* given r.mu; handleNodeEvacuate does without the cordon.
Cordon(n) ==
  /\ Cardinality(cordoned \cup {n}) <= MaxCordoned
  /\ cordoned' = cordoned \cup {n}
  /\ UNCHANGED <<vars, away, op, loop, heal, since, drained>>

Evacuate(n) == EvacStart(n, FALSE)

Uncordon(n) ==
  /\ cordoned' = cordoned \ {n}
  /\ drained' = drained \ {n}
  /\ UNCHANGED <<vars, away, op, loop, heal, since>>

GoAway(n) ==
  /\ n \notin away /\ Cardinality(away) < MaxAway
  /\ away' = away \cup {n}
  /\ UNCHANGED <<vars, cordoned, op, loop, heal, since, drained>>

ComeBack(n) ==
  /\ n \in away
  /\ away' = away \ {n}
  /\ UNCHANGED <<vars, cordoned, op, loop, heal, since, drained>>

FleetEnvironment ==
  \/ (Cancel \/ \E c \in ContIds : Die(c)) /\ UNCHANGED fleet
  \/ /\ CrashRestart
     /\ op' = NoOp /\ loop' = AtRest /\ since' = {}
     /\ heal' = [a \in Apps |-> NoHeal]
     /\ UNCHANGED nodeVars

-----------------------------------------------------------------------------
FleetInit ==
  /\ Init
  /\ away = {} /\ cordoned = {} /\ since = {} /\ drained = {}
  /\ op = NoOp /\ loop = AtRest
  /\ heal = [a \in Apps |-> NoHeal]

Common == OpSetStaging \/ OpGate \/ OpUnstage \/ OpFlip \/ OpUndo \/ OpDiscard \/ OpSave
Heal == HealRemoveOld \/ HealRun
Evac == \/ \E a \in Apps : EvacRedeploy(a) \/ EvacGivesUp(a) \/ EvacReplicas(a)
        \/ EvacRun \/ EvacRemoveOld \/ EvacEnd
Operation == FleetDeploy \/ Common \/ Heal \/ Evac

\* What the loop does with r.mu, once it is given it.
LoopLocks == LoopClear \/ HealSkip \/ HealStart \/ EvacFailover

FleetNext ==
  \/ FleetRequest \/ Operation \/ LoopProbe \/ LoopLocks \/ FleetEnvironment
  \/ \E a \in Apps : LoopRead(a) \/ BackoffElapses(a)
  \/ \E n \in Managed : LoopNode(n) \/ Cordon(n) \/ Evacuate(n)
                          \/ Uncordon(n) \/ GoAway(n) \/ ComeBack(n)

FleetSpec == FleetInit /\ [][FleetNext]_all

\* The holder of r.mu goes on; the loop ticks, gets to every app at every pass,
\* and is given r.mu in its turn (a Go mutex does not starve a waiter).
FleetFairSpec ==
  /\ FleetSpec
  /\ WF_all(Operation) /\ WF_all(LoopProbe) /\ SF_all(LoopLocks)
  /\ \A a \in Apps : SF_all(LoopRead(a)) /\ WF_all(BackoffElapses(a))

-----------------------------------------------------------------------------
(* Properties *)

FleetTypeOK ==
  /\ TypeOK
  /\ away \subseteq Managed /\ cordoned \subseteq Managed
  /\ since \subseteq Managed /\ drained \subseteq cordoned
  /\ op \in Op /\ loop \in Loop
  /\ heal \in [Apps -> [attempts: 0..MaxAttempts, waits: BOOLEAN]]

\* Whenever r.mu is free, the domain of every current deployment is routed to
\* exactly the replicas its row lists, in memory and in Caddy: deploys, in-place
\* heals and moves, those that failed half way and a restart in the middle of
\* one leave nothing else (SetRoute and UpdateReplicas, in this order).
RoutedAtRest ==
  Free => \A a \in Apps : \A d \in Domains \ {NoDomain} :
    Claims(a, d) => /\ routes[d] = Upstreams(rows[CurrentDeployment(a)].reps)
                    /\ caddy[d] = routes[d]

Replicas(a) ==
  IF CurrentDeployment(a) = 0 THEN {} ELSE SeqSet(rows[CurrentDeployment(a)].reps)

\* No step of a deploy, a move or a failover takes away a running replica of the
\* row that was current while Caddy goes on sending that row's domain to it; only a
\* removal does, and a heal (evacuate.go, evacuateReplicasLocked: the live route
\* flips first, "the OLD replica's container ... is then best-effort removed").
MovesKeepServing ==
  [][\A a \in Apps : \A c \in Replicas(a) :
       ( /\ pc \notin RemoveSteps /\ ~Healing
         /\ conts[c].state = "running" /\ conts'[c].state = "gone" )
       => UpstreamOf(c) \notin caddy'[rows[CurrentDeployment(a)].spec.dom]]_all

OnDistinctNodes(reps, cs) ==
  \A i, j \in DOMAIN reps : i # j => cs[reps[i]].node # cs[reps[j]].node

\* A move or a heal in place never stacks two replicas that were on different
\* nodes (evacuateReplicasLocked, "preserving spread").
SpreadKept ==
  [][\A i \in RowIds :
       OnDistinctNodes(rows[i].reps, conts) => OnDistinctNodes(rows'[i].reps, conts')]_all

\* While a heal or a move is at work on a row, that row is its app's current
\* one and lists the replicas the operation believes it does: nothing is
\* resurrected or overwritten that a deploy, removal or other move has changed
\* (tryHealWith reads the row again under r.mu).
WorksOnCurrentRow ==
  (op.row # 0 /\ op.at # "apps") =>
    /\ CurrentDeployment(App) = op.row
    /\ \A i \in DOMAIN op.reps :
         op.reps[i] # rows[op.row].reps[i] => Healing /\ op.reps[i] \in SeqSet(op.fresh)

\* A node that is cordoned, and that an evacuation has reported emptied, gets
\* nothing from the scheduler until it is uncordoned.
DrainedStaysEmpty == \A n \in drained : \A a \in Apps : ~ToMove(a, n)

HasDead(a) == \E c \in Replicas(a) : NodeOf(c) \notin away /\ conts[c].state # "running"

\* Bound: what the loop is about to begin does not fit into the instance.
Exhausted ==
  \/ loop.at = "dead" /\ Len(conts) + Cardinality(loop.idx) > MaxConts
  \/ loop.at = "failover" /\ ~RoomToMove(loop.node)

\* Once nodes stop going away, a deployment with a dead replica is healed,
\* replaced or removed, or given up after HealMaxAttempts attempts: those that failed
\* and those an inspection that fails has used up on healthy replicas (tryHealWith).
HealedOrGivenUp ==
  <>[](away = {}) =>
    \A a \in Apps : HasDead(a) ~> (~HasDead(a) \/ heal[a].attempts = MaxAttempts \/ Exhausted)

-----------------------------------------------------------------------------
(* The inductive invariant *)

HealSteps == {"pick", "run", "stage", "gate", "flip", "unstage", "save", "undo", "discard"}
EvacSteps == {"apps", "pick", "stage", "gate", "unstage", "flip", "drop", "save", "undo", "discard"}

\* A deployment is being worked on.
Working == op.kind # "none" /\ op.at # "apps"

\* What an operation at work has read and started agrees with the store and
\* with Docker: it is the only one that changes the row and its replicas.
WorkOK ==
  /\ pc = "idle"
  /\ op.row \in RowIds /\ CurrentDeployment(App) = op.row
  /\ DOMAIN op.reps = DOMAIN rows[op.row].reps /\ SeqSet(op.todo) \subseteq DOMAIN op.reps
  /\ SeqSet(op.reps) \cup SeqSet(op.fresh) \subseteq ContIds
  /\ \A i \in DOMAIN op.reps :
       op.reps[i] # rows[op.row].reps[i] => Healing /\ op.reps[i] \in SeqSet(op.fresh)
  /\ (op.at \in {"pick", "run"} \/ ~Healing) => op.todo # <<>>

\* A healed replica is on its predecessor's node, a moved one on a node of its own.
PlacedApart ==
  /\ Healing => \A i \in DOMAIN op.reps : NodeOf(op.reps[i]) = NodeOf(rows[op.row].reps[i])
  /\ (~Healing /\ op.at # "pick") =>
       /\ op.fresh # <<>>
       /\ \A j \in DOMAIN op.reps \ {Idx} : NodeOf(op.fresh[1]) # NodeOf(op.reps[j])

OpOK ==
  /\ op.kind = "none" => op = NoOp
  /\ Healing => op.at \in HealSteps
  /\ op.kind = "evac" => op.at \in EvacSteps
  /\ IF Working THEN WorkOK /\ PlacedApart ELSE op.fresh = <<>>

\* What the loop has observed is of a row that still exists, with as many replicas.
LoopOK ==
  /\ loop.at = "read" =>
       /\ loop.row \in RowIds /\ DOMAIN loop.reps = DOMAIN rows[loop.row].reps
       /\ SeqSet(loop.reps) \subseteq ContIds
  /\ loop.at = "dead" =>
       /\ loop.row \in RowIds
       /\ loop.idx # {} /\ loop.idx \subseteq DOMAIN rows[loop.row].reps

FInv == IInv /\ FleetTypeOK /\ OpOK /\ LoopOK

\* A heal or a move has flipped the route to the set it has yet to record.
FlipDone == Working /\ op.at \in (IF Healing THEN {"unstage", "save"} ELSE {"drop", "save"})

\* EdgeInv of BlueGreen, with the window between the flip of a heal or a move
\* and its save.
FleetEdge ==
  /\ caddy = routes
  /\ \A i \in RowIds :
       /\ rows[i].status = "running" /\ rows[i].spec.dom # NoDomain
       /\ ~Swapping(rows[i].app) /\ ~(pc = "rmstatus" /\ job.app = rows[i].app)
       /\ ~(FlipDone /\ i = op.row)
       => routes[rows[i].spec.dom] = Upstreams(rows[i].reps)
  /\ pc \in SwapSteps => routes[job.spec.dom] = Upstreams(job.new)
  /\ FlipDone => routes[rows[op.row].spec.dom] = Upstreams(Merged)

\* What makes RoutedAtRest inductive, under the assumptions of RInv.
FRInv == FInv /\ SInv /\ SpecsAreSubmitted /\ FleetEdge

\* The containers of set s are a's, and of a pair or more each bears its index.
Named(a, s) ==
  \A k \in DOMAIN s : conts[s[k]].app = a /\ (Len(s) > 1 => conts[s[k]].idx = k)

\* No row lists any of the containers of s.
Apart(s) == \A i \in RowIds : SeqSet(s) \cap SeqSet(rows[i].reps) = {}

OnEdge(d, us) == routes[d] = us /\ caddy[d] = us

\* The candidate of a deploy: in no row, there until it is discarded, and alone
\* on its domain from the flip on.
FreshOK ==
  pc \in DeploySteps =>
    /\ Apart(job.new) /\ Len(job.new) <= job.spec.count
    /\ \A k \in DOMAIN job.new :
         /\ job.spec.count > 1 => conts[job.new[k]].idx = k
         /\ pc # "fail" => conts[job.new[k]].state # "gone"
    /\ pc \in SwapSteps => OnEdge(job.spec.dom, Upstreams(job.new))

\* The same of the container that is to replace one of a set that is moved.
MoveOK ==
  Working =>
    IF Healing THEN Named(App, op.reps)
    ELSE /\ Len(op.reps) > 1
         /\ op.at # "pick" =>
              /\ Apart(op.fresh)
              /\ conts[op.fresh[1]].app = App /\ conts[op.fresh[1]].idx = Idx
              /\ conts[op.fresh[1]].state # "gone"
         /\ FlipDone => OnEdge(rows[op.row].spec.dom, Upstreams(Merged))

\* What makes MovesKeepServing hold, whatever fails.
MInv ==
  /\ FInv /\ NamesUnique /\ SpecsAreSubmitted
  /\ \A i \in RowIds : Named(rows[i].app, rows[i].reps)
  /\ FreshOK /\ MoveOK

\* No rollback is asked for: it goes back to the node the row was on.
NoRollbacks == \A q \in asked : q.kind = "scale"

\* A set that goes live, and is recorded, has as many replicas as its spec asks for.
FullSets ==
  /\ pc \in DeploySteps => Len(job.new) <= job.spec.count
  /\ pc \in DeploySteps \ ({"run"} \cup UndoSteps) => Len(job.new) = job.spec.count
  /\ \A i \in RowIds : rows[i].status = "running" => Len(rows[i].reps) = rows[i].spec.count

\* The nodes that have been emptied, and the one that is being emptied.
Shut == drained \cup {n \in {op.node} : op.kind = "evac"}

\* What the scheduler has chosen, and is yet to be recorded, is on none of them.
AvoidsShut ==
  /\ pc \in DeploySteps =>
       /\ \A k \in DOMAIN job.new : NodeOf(job.new[k]) = job.tgt[k]
       /\ job.sched => \A k \in DOMAIN job.tgt : job.tgt[k] \notin Shut
  /\ (Working /\ ~Healing /\ op.at # "pick") => NodeOf(op.fresh[1]) \notin Shut

\* An evacuation without a failed move leaves nothing of the apps behind it on its
\* node, but for the replicas still to move and a redeploy that has yet to end.
LeavesNothing ==
  op.kind = "evac" =>
    /\ op.row # 0 => op.row \in RowIds
    /\ ~op.failed => \A a \in Apps \ op.apps :
         \/ ~ToMove(a, op.node)
         \/ Working /\ a = App /\ AffectedIdx(a, op.node) \subseteq SeqSet(op.todo)
         \/ ~Working /\ Unmoved /\ a = App

\* What makes DrainedStaysEmpty inductive, with FInv and SInv, as long as the store
\* takes its writes.
Drains == FullSets /\ AvoidsShut /\ LeavesNothing /\ DrainedStaysEmpty
DrainInv == FInv /\ SInv /\ Drains

-----------------------------------------------------------------------------
(* What comments say, and the code does not do *)

\* reconcile.go:250: "recreate ONLY those dead replicas ... healthy replicas ...
\* are never touched".
HealTouchesOnlyDead ==
  [][HealRemoveOld => \A c \in ContIds : conts'[c] # conts[c] => SurfaceIsDead(c, FALSE)]_all
=============================================================================
