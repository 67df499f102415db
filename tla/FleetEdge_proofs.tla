-------------------------- MODULE FleetEdge_proofs --------------------------
(***************************************************************************)
(* Theorems about Fleet and the router: heals and moves change the route of*)
(* a deployment and its row so that the two agree whenever r.mu is free;   *)
(* no deploy, move or failover takes a replica away while it is served; and*)
(* every change is one step to a client (Rollout).  A node that has been   *)
(* emptied stays empty.                                                    *)
(***************************************************************************)
EXTENDS Fleet_proofs

-----------------------------------------------------------------------------
(* The window between flip and save *)

LEMMA FlipDoneIsWork ==
  ASSUME FInv, FlipDone
  PROVE  Working /\ pc = "idle" /\ op.at # "pick" /\ ~Free
<1>1. Working /\ pc = "idle" /\ op.at # "pick"
  BY WorkTyped DEF FlipDone
<1>2. op # NoOp
  BY <1>1 DEF Working, NoOp
<1> QED  BY <1>1, <1>2 DEF Free

\* It is the operation's alone.
LEMMA FlipDoneKept == ASSUME UNCHANGED op PROVE FlipDone' = FlipDone /\ Merged' = Merged
BY DEF FlipDone, Working, Healing, Merged, Idx

\* An operation that goes on to its next call.
LEMMA OpMerged ==
  ASSUME FInv, Working, NEW l, OpGoto(l)
  PROVE  /\ op'.row = op.row /\ op'.kind = op.kind /\ op'.at = l /\ Merged' = Merged
         /\ (Working' <=> l # "apps") /\ (Healing' <=> Healing)
<1>1. op \in Op /\ op' = [op EXCEPT !.at = l]
  BY FleetParts DEF OpGoto
<1>2. /\ op'.row = op.row /\ op'.kind = op.kind /\ op'.at = l
      /\ op'.reps = op.reps /\ op'.todo = op.todo /\ op'.fresh = op.fresh
  BY <1>1 DEF Op
<1> QED  BY <1>2 DEF Merged, Healing, Working, Idx

LEMMA FRParts ==
  ASSUME FRInv
  PROVE  FInv /\ SInv /\ IInv /\ OneRunning /\ SpecsAreSubmitted /\ FleetEdge /\ caddy = routes
         /\ WorldTypeOK /\ AskedTypeOK
BY WorldTyped DEF FRInv, SInv, FleetEdge

\* Outside the window it is the edge of BlueGreen.
LEMMA Unflipped == ASSUME FRInv, ~FlipDone PROVE RInv
BY DEF FRInv, RInv, FleetEdge, EdgeInv

LEMMA UnflippedAfter == ASSUME FInv', RInv', ~FlipDone' PROVE FRInv'
BY DEF FRInv, RInv, FleetEdge, EdgeInv

\* A step of BlueGreen's, or none, outside the window.
LEMMA BlueGreenEdge ==
  ASSUME ExclusiveDomains, Faults \cap {"store", "ambiguous"} = {},
         FRInv, FInv', [Next]_vars, ~FlipDone, ~FlipDone'
  PROVE  FRInv'
BY Unflipped, UnflippedAfter, NextRInv

-----------------------------------------------------------------------------
(* A step that leaves the table and the routes *)

\* The table stays and nobody deploys.
LEMMA TableIdle ==
  ASSUME FRInv, IInv', UNCHANGED rows, pc' = "idle" PROVE SInv' /\ SpecsAreSubmitted'
<1>1. OneRunning' /\ OldRowRetired'
  BY FRParts, TableStays
<1>2. SpecsAreSubmitted'
  BY FRParts DEF SpecsAreSubmitted, From, RowIds, DeploySteps, SwapSteps, UndoSteps
<1> QED  BY <1>1, <1>2 DEF SInv

\* The row at work is the running row of its app.
LEMMA RowAtWork ==
  ASSUME FInv, Working
  PROVE  op.row \in RowIds /\ rows[op.row].status = "running" /\ rows[op.row].app = App
<1>1. op.row \in RowIds /\ CurrentDeployment(App) = op.row /\ WorldTypeOK
  BY WorkTyped, WorldTyped DEF WorkOK
<1>2. op.row # 0
  BY <1>1 DEF WorldTypeOK, RowIds
<1>3. op.row \in WithStatus(App, "running")
  BY <1>1, <1>2, CurrentRow
<1> QED  BY <1>3 DEF WithStatus

\* FleetEdge after a step between two calls of a heal or a move.
LEMMA EdgeMovesIdle ==
  ASSUME FRInv, ContsKept, pc = "idle", pc' = "idle", caddy' = routes',
         \A i \in RowIds' :
           /\ rows'[i].status = "running" /\ rows'[i].spec.dom # NoDomain
           /\ ~(FlipDone' /\ i = op'.row)
           => \/ /\ i \in RowIds /\ rows'[i] = rows[i] /\ ~(FlipDone /\ i = op.row)
                 /\ routes'[rows[i].spec.dom] = routes[rows[i].spec.dom]
              \/ routes'[rows'[i].spec.dom] = Upstreams(rows[i].reps)',
         FlipDone' => routes'[rows'[op'.row].spec.dom] = Upstreams(Merged)'
  PROVE  FleetEdge'
<1>1. ASSUME NEW i \in RowIds', rows'[i].status = "running", rows'[i].spec.dom # NoDomain,
             ~(FlipDone' /\ i = op'.row)
      PROVE  routes'[rows'[i].spec.dom] = Upstreams(rows[i].reps)'
  <2>1. CASE /\ i \in RowIds /\ rows'[i] = rows[i] /\ ~(FlipDone /\ i = op.row)
             /\ routes'[rows[i].spec.dom] = routes[rows[i].spec.dom]
    <3>1. routes[rows[i].spec.dom] = Upstreams(rows[i].reps)
      BY <1>1, <2>1, FRParts DEF FleetEdge, Swapping, SwapSteps
    <3>2. SeqSet(rows[i].reps) \subseteq ContIds
      BY <2>1, FRParts, ListedConts
    <3> QED  BY <2>1, <3>1, <3>2, UpstreamsKept
  <2> QED  BY <1>1, <2>1
<1> QED  BY <1>1 DEF FleetEdge, SwapSteps

\* The table, the routes and the window stay.
LEMMA IdleStep ==
  ASSUME FRInv, FInv', ContsKept, pc = "idle", UNCHANGED <<rows, routes, pc>>,
         caddy' = caddy \/ caddy' = routes, FlipDone' = FlipDone,
         FlipDone => op'.row = op.row /\ Merged' = Merged
  PROVE  FRInv'
<1>1. SInv' /\ SpecsAreSubmitted'
  BY FRParts, TableIdle DEF FInv
<1>2. caddy' = routes' /\ RowIds' = RowIds
  BY FRParts DEF RowIds
<1>3. ASSUME FlipDone' PROVE routes'[rows'[op'.row].spec.dom] = Upstreams(Merged)'
  <2>1. FlipDone /\ routes[rows[op.row].spec.dom] = Upstreams(Merged) /\ FInv
    BY <1>3, FRParts DEF FleetEdge
  <2>2. SeqSet(Merged) \subseteq ContIds
    BY <2>1, FlipDoneIsWork, MergedTyped
  <2> DEFINE s == Merged
  <2>3. Upstreams(s)' = Upstreams(s)
    BY <2>1, <2>2, UpstreamsKept
  <2> QED  BY <2>1, <2>3
<1>4. FleetEdge'
  BY <1>2, <1>3, EdgeMovesIdle
<1> QED  BY <1>1, <1>4 DEF FRInv

-----------------------------------------------------------------------------
(* Action by action *)

LEMMA FleetKeepsConts == ASSUME FInv, [FleetNext]_all PROVE ContsKept
BY FleetKeepsReplicas, Kept DEF Saves, OpSave

\* What a post does when none is half done.
LEMMA TriedPost ==
  ASSUME "ambiguous" \notin Faults, FRInv, NEW st, TryPost(routes, st)
  PROVE  UNCHANGED routes /\ caddy' = routes
BY FRParts DEF TryPost, Applied, Rejected, edge

\* An operation goes on to a call that is on the same side of the window.
LEMMA GoesOnEdge ==
  ASSUME FRInv, FInv', Working, ContsKept, UNCHANGED <<rows, routes, pc>>,
         caddy' = caddy \/ caddy' = routes, NEW l, OpGoto(l), l # "apps",
         FlipDone <=> l \in (IF Healing THEN {"unstage", "save"} ELSE {"drop", "save"})
  PROVE  FRInv'
<1>1. /\ op'.row = op.row /\ op'.at = l /\ Merged' = Merged
      /\ Working' /\ (Healing' <=> Healing) /\ pc = "idle"
  BY FRParts, OpMerged, WorkTyped
<1>2. FlipDone' <=> FlipDone
  BY <1>1 DEF FlipDone
<1>3. FlipDone' = FlipDone
  BY <1>2 DEF FlipDone
<1> QED  BY <1>1, <1>3, IdleStep

LEMMA OpSetStagingEdge ==
  ASSUME "ambiguous" \notin Faults, FRInv, FInv', OpSetStaging PROVE FRInv'
<1>1. /\ Working /\ op.at = "stage" /\ UNCHANGED <<rows, conts, holder, pc>>
  BY AtWork DEF OpSetStaging, holder
<1>2. UNCHANGED routes /\ (caddy' = caddy \/ caddy' = routes)
  BY DEF OpSetStaging, Applied, Rejected, edge
<1>3. PICK l \in {"gate", "undo"} : OpGoto(l)
  BY DEF OpSetStaging
<1>4. ~FlipDone /\ ContsKept
  BY <1>1, FRParts, Kept DEF FlipDone
<1> QED  BY <1>1, <1>2, <1>3, <1>4, GoesOnEdge

LEMMA OpGateEdge == ASSUME FRInv, FInv', OpGate PROVE FRInv'
<1>1. Working /\ op.at = "gate" /\ UNCHANGED <<rows, conts, routes, caddy, pc>>
  BY AtWork DEF OpGate, vars
<1>2. \/ OpGoto("undo")
      \/ Healing /\ OpGoto("flip")
      \/ ~Healing /\ OpGoto("unstage")
  BY DEF OpGate
<1>3. ~FlipDone /\ ContsKept
  BY <1>1, FRParts, Kept DEF FlipDone
<1> QED  BY <1>1, <1>2, <1>3, GoesOnEdge

LEMMA OpUnstageEdge ==
  ASSUME "ambiguous" \notin Faults, FRInv, FInv', OpUnstage PROVE FRInv'
<1>1. Working /\ op.at = "unstage" /\ UNCHANGED <<rows, conts, pc>>
  BY AtWork DEF OpUnstage, holder
<1>2. UNCHANGED routes /\ caddy' = routes /\ ContsKept
  BY <1>1, TriedPost, FRParts, Kept DEF OpUnstage
<1>3. \/ Healing /\ OpGoto("save")
      \/ ~Healing /\ OpGoto("flip")
  BY DEF OpUnstage
<1>4. FlipDone <=> Healing
  BY <1>1 DEF FlipDone
<1> QED  BY <1>1, <1>2, <1>3, <1>4, GoesOnEdge

LEMMA OpUndoEdge ==
  ASSUME "ambiguous" \notin Faults, FRInv, FInv', OpUndo PROVE FRInv'
<1>1. Working /\ op.at = "undo" /\ UNCHANGED <<rows, conts, pc>> /\ OpGoto("discard")
  BY AtWork DEF OpUndo, holder
<1>2. UNCHANGED routes /\ caddy' = routes /\ ContsKept /\ ~FlipDone
  BY <1>1, TriedPost, FRParts, Kept DEF OpUndo, FlipDone
<1> QED  BY <1>1, <1>2, GoesOnEdge

\* A heal has ended, or a move has.
LEMMA OutOfWindow ==
  ASSUME FInv, \/ \E ok : HealEnds(ok)
               \/ \E reps, failed : NextMove(reps, failed)
  PROVE  ~FlipDone'
<1>1. CASE \E ok : HealEnds(ok)
  BY <1>1 DEF HealEnds, FlipDone, Working, NoOp
<1>2. CASE \E reps, failed : NextMove(reps, failed)
  <2>1. op \in Op  BY FleetParts
  <2>2. op'.at \in {"apps", "pick"}
    BY <1>2, <2>1 DEF NextMove, Op
  <2> QED  BY <2>2 DEF FlipDone
<1> QED  BY <1>1, <1>2

\* Steps before the flip, and after a failure, that only start or remove containers.
LEMMA ContainersEdge ==
  ASSUME FRInv, FInv', OpDiscard \/ HealRemoveOld \/ HealRun \/ EvacRun PROVE FRInv'
<1>1. /\ Working /\ pc = "idle" /\ op.at \in {"discard", "pick", "run"}
      /\ UNCHANGED <<rows, routes, caddy, pc>>
  BY AtWork DEF OpDiscard, HealRemoveOld, HealRun, EvacRun, At, Working, holder, edge
<1>2. ContsKept
  BY FRParts, FleetKeepsConts DEF FleetNext, Operation, Common, Heal, Evac
<1>3. ~FlipDone
  BY <1>1 DEF FlipDone
<1>4. ~FlipDone'
  <2>1. op \in Op  BY FRParts, FleetParts
  <2>2. CASE OpDiscard
    BY <2>2, FRParts, OutOfWindow DEF OpDiscard
  <2>3. CASE HealRemoveOld \/ HealRun
    <3>1. op'.at \in {"run", "undo", "stage", "pick"}
      BY <2>1, <2>3 DEF HealRemoveOld, HealRun, OpGoto, Op
    <3> QED  BY <3>1 DEF FlipDone
  <2>4. CASE EvacRun
    <3>1. (\E reps, failed : NextMove(reps, failed)) \/ op'.at \in {"stage", "undo"}
      BY <2>1, <2>4 DEF EvacRun, Op
    <3> QED  BY <3>1, FRParts, OutOfWindow DEF FlipDone
  <2> QED  BY <2>2, <2>3, <2>4, <1>1, FRParts
<1>5. FlipDone' = FlipDone
  BY <1>3, <1>4 DEF FlipDone
<1> QED  BY <1>1, <1>2, <1>3, <1>5, IdleStep

\* The replaced container goes after the flip.
LEMMA EvacRemoveOldEdge == ASSUME FRInv, FInv', EvacRemoveOld PROVE FRInv'
<1>1. /\ Working /\ ~Healing /\ op.at = "drop" /\ UNCHANGED <<rows, routes, caddy, pc>>
      /\ OpGoto("save")
  BY DEF EvacRemoveOld, At, Working, Healing, holder, edge
<1>2. ContsKept /\ FlipDone
  BY <1>1, FRParts, RemoveReachableConts DEF EvacRemoveOld, FlipDone
<1> QED  BY <1>1, <1>2, GoesOnEdge

\* The flip changes the route of the row at work only.
LEMMA OpFlipEdge ==
  ASSUME ExclusiveDomains, "ambiguous" \notin Faults, FRInv, FInv', OpFlip PROVE FRInv'
<1> DEFINE d == rows[op.row].spec.dom
<1>1. /\ Working /\ op.at = "flip" /\ pc = "idle" /\ UNCHANGED <<rows, conts, pc>> /\ FInv
  BY AtWork, FRParts DEF OpFlip, holder
<1>2. ContsKept /\ ~FlipDone /\ RowIds' = RowIds
  BY <1>1, Kept DEF FlipDone, RowIds
<1>3. CASE Rejected /\ OpGoto(IF Healing THEN "undo" ELSE "discard")
  BY <1>1, <1>2, <1>3, GoesOnEdge DEF Rejected, edge
<1>4. CASE Applied(MergedRoute, stage) /\ OpGoto(IF Healing THEN "unstage" ELSE "drop")
  <2>1. /\ op'.row = op.row /\ Merged' = Merged /\ Working' /\ (Healing' <=> Healing)
        /\ op'.at = (IF Healing THEN "unstage" ELSE "drop")
    BY <1>1, <1>4, OpMerged
  <2>2. FlipDone'
    BY <2>1 DEF FlipDone
  <2>3. op.row \in RowIds /\ rows[op.row].status = "running"
    BY <1>1, RowAtWork
  <2>4. routes \in [Domains -> SUBSET Upstream] /\ d \in Domains
    BY <2>3, FRParts, RowTyped DEF WorldTypeOK
  <2>5. /\ routes' = [routes EXCEPT ![d] = Upstreams(Merged)] /\ caddy' = routes'
    BY <1>4 DEF Applied, MergedRoute
  <2>6. ASSUME NEW i \in RowIds', rows'[i].status = "running", rows'[i].spec.dom # NoDomain,
               ~(FlipDone' /\ i = op'.row)
        PROVE  /\ i \in RowIds /\ rows'[i] = rows[i] /\ ~(FlipDone /\ i = op.row)
               /\ routes'[rows[i].spec.dom] = routes[rows[i].spec.dom]
    <3>1. i \in RowIds /\ rows'[i] = rows[i] /\ i # op.row
      BY <1>1, <1>2, <2>1, <2>2, <2>6
    <3>2. rows[i].spec.dom # d
      BY <2>3, <2>6, <3>1, FRParts, DomainOwner
    <3>3. rows[i].spec.dom \in Domains
      BY <3>1, FRParts, RowTyped
    <3> QED  BY <1>2, <2>4, <2>5, <3>1, <3>2, <3>3
  <2>7. routes'[rows'[op'.row].spec.dom] = Upstreams(Merged)'
    <3>1. SeqSet(Merged) \subseteq ContIds
      BY <1>1, MergedTyped
    <3> DEFINE m == Merged
    <3>2. Upstreams(m)' = Upstreams(m)
      BY <1>2, <2>1, <3>1, UpstreamsKept
    <3> QED  BY <1>1, <2>1, <2>4, <2>5, <3>2
  <2> HIDE DEF d
  <2>8. SInv' /\ SpecsAreSubmitted' /\ FleetEdge'
    BY <1>1, <1>2, <2>5, <2>6, <2>7, TableIdle, EdgeMovesIdle DEF FInv
  <2> QED  BY <2>8 DEF FRInv
<1> QED  BY <1>3, <1>4 DEF OpFlip

\* The save closes the window: what is routed is what the row lists.
LEMMA OpSaveEdge ==
  ASSUME "store" \notin Faults, FRInv, FInv', OpSave PROVE FRInv'
<1>1. /\ Working /\ op.at = "save" /\ pc = "idle" /\ UNCHANGED <<conts, edge, holder>>
      /\ UpdateReplicas /\ FInv /\ WorldTypeOK
  BY AtWork, FRParts DEF OpSave
<1>2. FlipDone /\ ContsKept /\ pc' = "idle" /\ UNCHANGED <<routes, caddy>>
  BY <1>1, Kept DEF FlipDone, holder, edge
<1>3. ~FlipDone'
  BY FRParts, OutOfWindow DEF OpSave
<1>4. Merged \in Seq(Nat) /\ SeqSet(Merged) \subseteq ContIds /\ op.row \in RowIds
  BY <1>1, MergedTyped, RowAtWork
<1> DEFINE reps == Merged
<1>5. reps \in Seq(Nat) /\ rows' = [rows EXCEPT ![op.row].reps = reps]
  BY <1>1, <1>4 DEF UpdateReplicas
<1>6. routes[rows[op.row].spec.dom] = Upstreams(reps) /\ SeqSet(reps) \subseteq ContIds
  BY <1>2, <1>4, FRParts DEF FleetEdge
<1> HIDE DEF reps
<1>7. /\ RowIds' = RowIds
      /\ \A k \in RowIds : k # op.row => rows'[k] = rows[k]
      /\ rows'[op.row].reps = reps
      /\ \A k \in RowIds : /\ rows'[k].app = rows[k].app /\ rows'[k].status = rows[k].status
                           /\ rows'[k].spec = rows[k].spec
  BY <1>1, <1>4, <1>5, ReplicasUpdated
<1>8. OneRunning' /\ OldRowRetired' /\ SpecsAreSubmitted'
  <2>1. OneRunning'
    BY <1>7, FRParts DEF OneRunning
  <2>2. SpecsAreSubmitted'
    BY <1>2, <1>7, FRParts DEF SpecsAreSubmitted, From, DeploySteps, SwapSteps, UndoSteps
  <2> QED  BY <1>2, <2>1, <2>2 DEF OldRowRetired
<1>9. ASSUME NEW i \in RowIds', rows'[i].status = "running", rows'[i].spec.dom # NoDomain
      PROVE  \/ /\ i \in RowIds /\ rows'[i] = rows[i] /\ ~(FlipDone /\ i = op.row)
                /\ routes'[rows[i].spec.dom] = routes[rows[i].spec.dom]
             \/ routes'[rows'[i].spec.dom] = Upstreams(rows[i].reps)'
  <2>1. CASE i # op.row
    BY <1>2, <1>7, <1>9, <2>1
  <2>2. CASE i = op.row
    <3>1. rows'[i].reps = reps /\ rows'[i].spec = rows[op.row].spec
      BY <1>4, <1>7, <2>2
    <3>2. Upstreams(rows[i].reps)' = Upstreams(reps)
      BY <1>2, <1>6, <3>1, UpstreamsKept
    <3> QED  BY <1>2, <1>6, <3>1, <3>2
  <2> QED  BY <2>1, <2>2
<1>10. caddy' = routes'
  BY <1>2, FRParts
<1>11. FleetEdge'
  BY <1>1, <1>2, <1>3, <1>9, <1>10, EdgeMovesIdle
<1>12. IInv'  BY DEF FInv
<1> QED  BY <1>8, <1>11, <1>12 DEF FRInv, SInv

-----------------------------------------------------------------------------
(* The redeploy of a single replica *)

LEMMA EvacRedeployEdge ==
  ASSUME FRInv, FInv', NEW a \in Apps, EvacRedeploy(a) PROVE FRInv'
<1> DEFINE cur == CurrentDeployment(a)
<1>1. PICK m \in Candidates({op.node}) :
        StartDeploy([rows[cur].spec EXCEPT !.node = m], TRUE)
  BY DEF EvacRedeploy
<1>2. /\ op.at = "apps" /\ pc = "idle" /\ cur \in RowIds /\ rows[cur].spec \in Spec0
      /\ op \in Op /\ op' = [op EXCEPT !.apps = @ \ {a}, !.row = cur, !.failed = @ \/ Unmoved]
  BY FRParts, NextAppRow, FleetParts DEF EvacRedeploy
<1>3. ~FlipDone /\ ~FlipDone'
  BY <1>2 DEF FlipDone, Working, Op
<1>4. /\ UNCHANGED <<rows, conts, routes>> /\ caddy' = routes /\ pc' = "run"
      /\ job'.spec.app = rows[cur].spec.app /\ job'.spec.dom = rows[cur].spec.dom
  <2> DEFINE s == [rows[cur].spec EXCEPT !.node = m]
  <2>1. s \in Spec0 /\ s.app = rows[cur].spec.app /\ s.dom = rows[cur].spec.dom
    BY <1>2 DEF Spec0, Candidates
  <2>2. StartDeploy(s, TRUE)  BY <1>1
  <2> HIDE DEF s
  <2>3. job'.spec.app = s.app /\ job'.spec.dom = s.dom
    BY <2>1, <2>2 DEF StartDeploy, Spec0
  <2> QED  BY <2>1, <2>2, <2>3 DEF StartDeploy
<1> HIDE DEF cur
<1>5. RInv /\ ContsKept /\ IInv'
  BY <1>3, <1>4, Unflipped, FRParts, Kept DEF FInv
<1>6. OneRunning' /\ OldRowRetired'
  BY <1>4, FRParts, TableStays
<1>7. SpecsAreSubmitted'
  <2>1. From(rows[cur].spec)
    BY <1>2, FRParts DEF SpecsAreSubmitted
  <2> QED  BY <1>4, <2>1, FRParts DEF SpecsAreSubmitted, From, RowIds
<1>8. EdgeInv'
  BY <1>2, <1>4, <1>5, EdgeStays DEF SwapSteps
<1> QED  BY <1>3, <1>5, <1>6, <1>7, <1>8, UnflippedAfter DEF RInv, SInv

LEMMA EvacGivesUpEdge ==
  ASSUME FRInv, FInv', NEW a \in Apps, EvacGivesUp(a) PROVE FRInv'
<1> DEFINE cur == CurrentDeployment(a)
           row == NewRow("failed", rows[cur].spec, FALSE, <<>>)
<1>1. /\ op.at = "apps" /\ pc = "idle" /\ cur \in RowIds /\ rows[cur].spec \in Spec0
      /\ op \in Op /\ op' = [op EXCEPT !.apps = @ \ {a}, !.row = 0, !.failed = TRUE]
  BY FRParts, NextAppRow, FleetParts DEF EvacGivesUp
<1>2. ~FlipDone /\ ~FlipDone'
  BY <1>1 DEF FlipDone, Working, Op
<1>3. FlipDone' = FlipDone /\ RInv
  BY <1>2, Unflipped DEF FlipDone
<1>4. UNCHANGED <<conts, routes, pc, job>> /\ (caddy' = caddy \/ caddy' = routes)
      /\ (UNCHANGED rows \/ rows' = Append(rows, row))
  BY DEF EvacGivesUp, AbandonDeploy, edge
<1>5. ContsKept /\ IInv' /\ caddy' = routes'
  BY <1>4, FRParts, Kept DEF FInv
<1>6. CASE UNCHANGED rows
  BY <1>1, <1>2, <1>3, <1>4, <1>5, <1>6, IdleStep
<1>7. CASE rows' = Append(rows, row)
  <2>1. row \in Row /\ row.status # "running" /\ row.spec = rows[cur].spec /\ row.app = row.spec.app
    BY <1>1, FailedRow DEF NewRow
  <2>2. From(rows[cur].spec)
    BY <1>1, FRParts DEF SpecsAreSubmitted
  <2> HIDE DEF row, cur
  <2>3. OneRunning' /\ OldRowRetired'
    BY <1>1, <1>4, <1>7, <2>1, FRParts, TableGrows
  <2>4. SpecsAreSubmitted'
    <3>1. \A i \in RowIds' : rows'[i] = row \/ (i \in RowIds /\ rows'[i] = rows[i])
      BY <1>7, FRParts, WorldTyped DEF RowIds
    <3>2. \A i \in RowIds' : rows'[i].app = rows'[i].spec.app /\ From(rows'[i].spec)
      <4> SUFFICES ASSUME NEW i \in RowIds'
                   PROVE  rows'[i].app = rows'[i].spec.app /\ From(rows'[i].spec)
        OBVIOUS
      <4>1. CASE rows'[i] = row
        BY <2>1, <2>2, <4>1
      <4>2. CASE i \in RowIds /\ rows'[i] = rows[i]
        BY <4>2, FRParts DEF SpecsAreSubmitted
      <4> QED  BY <3>1, <4>1, <4>2
    <3>3. pc' \notin DeploySteps
      BY <1>1, <1>4 DEF DeploySteps, SwapSteps, UndoSteps
    <3> QED  BY <3>2, <3>3 DEF SpecsAreSubmitted, From
  <2>5. EdgeInv'
    BY <1>1, <1>3, <1>4, <1>5, <1>7, <2>1, FailedRowEdge DEF SwapSteps
  <2> QED  BY <1>2, <1>5, <2>3, <2>4, <2>5, UnflippedAfter DEF RInv, SInv
<1> QED  BY <1>4, <1>6, <1>7

-----------------------------------------------------------------------------
(* Requests, deploys and the environment *)

LEMMA FleetRequestEdge ==
  ASSUME ExclusiveDomains, Faults \cap {"store", "ambiguous"} = {}, FRInv, FInv', FleetRequest
  PROVE  FRInv'
<1>1. Next /\ UNCHANGED op
  BY FleetRequestIsRequest DEF fleet
<1>2. FlipDone' = FlipDone /\ Merged' = Merged
  BY <1>1, FlipDoneKept
<1>3. CASE FlipDone
  <2>1. pc = "idle" /\ ~Free /\ FInv
    BY <1>3, FRParts, FlipDoneIsWork
  <2>2. UNCHANGED <<rows, conts, routes, caddy, pc>>
    BY <2>1 DEF FleetRequest, AskRollback, AskScale, world
  <2> QED  BY <1>1, <1>2, <2>1, <2>2, Kept, IdleStep
<1>4. CASE ~FlipDone
  BY <1>1, <1>2, <1>4, BlueGreenEdge
<1> QED  BY <1>3, <1>4

LEMMA FleetDeployEdge ==
  ASSUME ExclusiveDomains, Faults \cap {"store", "ambiguous"} = {}, FRInv, FInv', FleetDeploy
  PROVE  FRInv'
<1>1. Next /\ pc # "idle" /\ UNCHANGED op
  BY DEF FleetDeploy, Next, Deploy, Remove, RunReplica, RunReplicaFails, SetStaging, HealthGate,
     Flip, RemoveStaging, RetireOldSet, RetireOldRow, RecordRunning, UndoStaging, Discard,
     RecordFailed, RemoveContainers, RemoveRoute, RetireRemoved
<1>2. ~FlipDone /\ ~FlipDone'
  BY <1>1, FRParts, FlipDoneIsWork, FlipDoneKept
<1> QED  BY <1>1, <1>2, BlueGreenEdge

\* A restart finds in the store the row as it was before the heal or the move.
LEMMA FleetRestartEdge ==
  ASSUME ExclusiveDomains, "store" \notin Faults, FRInv, FInv', CrashRestart, op' = NoOp
  PROVE  FRInv'
<1>1. /\ UNCHANGED <<rows, conts>> /\ pc' = "idle" /\ routes' = InitialRoutes /\ caddy' = routes'
  BY DEF CrashRestart, Applied, Done
<1>2. ~FlipDone' /\ ContsKept /\ RowIds' = RowIds /\ IInv'
  BY <1>1, FRParts, Kept DEF FlipDone, Working, NoOp, RowIds, FInv
<1>3. ASSUME NEW i \in RowIds, rows[i].status = "running", rows[i].spec.dom # NoDomain
      PROVE  routes'[rows[i].spec.dom] = Upstreams(rows[i].reps)'
  <2>1. RouteFromStore(rows[i].spec.dom) = Upstreams(rows[i].reps)
    BY <1>3, FRParts, StoreHasRoute
  <2>2. rows[i].spec.dom \in Domains /\ SeqSet(rows[i].reps) \subseteq ContIds
    BY FRParts, RowTyped, ListedConts
  <2>3. Upstreams(rows[i].reps)' = Upstreams(rows[i].reps)
    BY <1>1, <1>2, <2>2, UpstreamsKept
  <2> QED  BY <1>1, <2>1, <2>2, <2>3 DEF InitialRoutes
<1>4. FleetEdge'
  BY <1>1, <1>2, <1>3 DEF FleetEdge, SwapSteps
<1>5. SInv' /\ SpecsAreSubmitted'
  BY <1>1, <1>2, TableIdle
<1> QED  BY <1>4, <1>5 DEF FRInv

LEMMA FleetEnvironmentEdge ==
  ASSUME ExclusiveDomains, Faults \cap {"store", "ambiguous"} = {}, FRInv, FInv', FleetEnvironment
  PROVE  FRInv'
<1>1. CASE CrashRestart /\ op' = NoOp
  BY <1>1, FleetRestartEdge
<1>2. CASE (Cancel \/ \E c \in ContIds : Die(c)) /\ UNCHANGED op
  <2>1. FlipDone' = FlipDone /\ Merged' = Merged
    BY <1>2, FlipDoneKept
  <2>2. CASE ~FlipDone
    BY <1>2, <2>1, <2>2, BlueGreenEdge DEF Next, Environment
  <2>3. CASE FlipDone
    <3>1. pc = "idle"
      BY <2>3, FRParts, FlipDoneIsWork
    <3>2. PICK c \in ContIds : Die(c)
      BY <1>2, <3>1 DEF Cancel
    <3>3. UNCHANGED <<rows, routes, caddy, pc>> /\ ContsKept
      BY <3>2, FRParts, DeadConts DEF Die, edge
    <3> QED  BY <1>2, <2>1, <3>1, <3>3, IdleStep
  <2> QED  BY <2>2, <2>3
<1> QED  BY <1>1, <1>2 DEF FleetEnvironment, fleet

\* The loop, the nodes, and an operation that begins or ends.
LEMMA QuietEdge ==
  ASSUME ExclusiveDomains, Faults \cap {"store", "ambiguous"} = {}, FRInv, FInv', UNCHANGED vars, UNCHANGED op \/ (~FlipDone /\ ~FlipDone') PROVE FRInv'
<1>1. UNCHANGED <<rows, conts, routes, caddy, pc>>
  BY DEF vars
<1>2. CASE ~FlipDone /\ ~FlipDone'
  BY <1>2, BlueGreenEdge
<1>3. CASE UNCHANGED op /\ FlipDone
  <2>1. pc = "idle" /\ FInv
    BY <1>3, FRParts, FlipDoneIsWork
  <2> QED  BY <1>1, <1>3, <2>1, FlipDoneKept, Kept, IdleStep
<1> QED  BY <1>2, <1>3, FlipDoneKept

LEMMA LoopEdge ==
  ASSUME ExclusiveDomains, Faults \cap {"store", "ambiguous"} = {}, FRInv, FInv',
         \/ UNCHANGED all \/ LoopProbe \/ LoopLocks \/ EvacEnd
         \/ \E a \in Apps : LoopRead(a) \/ BackoffElapses(a) \/ EvacReplicas(a)
         \/ \E n \in Managed : LoopNode(n) \/ Cordon(n) \/ Evacuate(n)
                                 \/ Uncordon(n) \/ GoAway(n) \/ ComeBack(n)
  PROVE  FRInv'
<1>1. UNCHANGED vars
  BY DEF all, LoopProbe, LoopLocks, LoopClear, HealSkip, HealStart, EvacFailover, EvacStart, Evacuate,
     EvacEnd, LoopRead, BackoffElapses, LoopNode, Cordon, Uncordon, GoAway, ComeBack, EvacReplicas
<1>2. CASE UNCHANGED op
  BY <1>1, <1>2, QuietEdge
<1>3. CASE ~UNCHANGED op
  <2>1. \/ HealStart \/ EvacEnd \/ (\E a \in Apps : EvacReplicas(a))
        \/ \E n, byLoop : EvacStart(n, byLoop)
    BY <1>3 DEF all, fleet, LoopProbe, LoopLocks, LoopClear, HealSkip, EvacFailover, Evacuate,
       LoopRead, BackoffElapses, LoopNode, Cordon, Uncordon, GoAway, ComeBack
  <2>2. op \in Op /\ NoOp \in Op
    BY FRParts, FleetParts, RestOK
  <2>3. op'.at \in {"pick", "apps", "rest"}
    <3>1. HealStart => op'.at = "pick"
      BY <2>2 DEF HealStart, Op
    <3>2. \A a \in Apps : EvacReplicas(a) => op'.at = "pick"
      BY <2>2 DEF EvacReplicas, Op
    <3>3. \A n, byLoop : EvacStart(n, byLoop) => op'.at = "apps"
      BY <2>2 DEF EvacStart, Op
    <3>4. EvacEnd => op'.at = "rest"
      BY RestOK DEF EvacEnd
    <3> QED  BY <2>1, <3>1, <3>2, <3>3, <3>4
  <2>4. op.at \in {"apps", "rest"}
    <3>1. op.at = "apps" \/ op = NoOp
      BY <2>1 DEF HealStart, EvacEnd, EvacReplicas, EvacStart, NextApp, At, Free
    <3> QED  BY <3>1, RestOK
  <2>5. ~FlipDone /\ ~FlipDone'
    BY <2>3, <2>4 DEF FlipDone
  <2> QED  BY <1>1, <2>5, QuietEdge
<1> QED  BY <1>2, <1>3

-----------------------------------------------------------------------------
(* The theorem *)

LEMMA NextFRInv ==
  ASSUME ExclusiveDomains, Faults \cap {"store", "ambiguous"} = {}, FRInv, [FleetNext]_all
  PROVE  FRInv'
<1>1. FInv' /\ "store" \notin Faults /\ "ambiguous" \notin Faults
  BY FRParts, NextFInv
<1>2. CASE Common \/ Heal
  BY <1>1, <1>2, OpSetStagingEdge, OpGateEdge, OpUnstageEdge, OpFlipEdge, OpUndoEdge, OpSaveEdge,
     ContainersEdge DEF Common, Heal
<1>3. CASE Evac
  BY <1>1, <1>3, EvacRedeployEdge, EvacGivesUpEdge, ContainersEdge, EvacRemoveOldEdge, LoopEdge DEF Evac
<1>4. CASE FleetRequest \/ FleetDeploy \/ FleetEnvironment
  BY <1>1, <1>4, FleetRequestEdge, FleetDeployEdge, FleetEnvironmentEdge
<1>5. CASE \/ UNCHANGED all \/ LoopProbe \/ LoopLocks
           \/ \E a \in Apps : LoopRead(a) \/ BackoffElapses(a)
           \/ \E n \in Managed : LoopNode(n) \/ Cordon(n) \/ Evacuate(n)
                                   \/ Uncordon(n) \/ GoAway(n) \/ ComeBack(n)
  BY <1>1, <1>5, LoopEdge
<1> QED  BY <1>2, <1>3, <1>4, <1>5 DEF FleetNext, Operation

LEMMA InitFRInv == FleetInit => FRInv
<1> SUFFICES ASSUME FleetInit PROVE FRInv
  OBVIOUS
<1>1. FInv /\ RInv
  BY InitFInv, InitRInv DEF FleetInit
<1>2. ~FlipDone
  BY DEF FleetInit, FlipDone, Working, NoOp
<1> QED  BY <1>1, <1>2 DEF FRInv, RInv, FleetEdge, EdgeInv

\* The inductive invariant of routes and rows on a fleet: what RestIsRouted and
\* FleetRollsOut rest on, with the window between a move's flip (SetRoute) and its
\* save (UpdateReplicas) told apart (healDeadReplicasLocked, evacuateReplicasLocked).
THEOREM FleetEdgeInductive ==
  ASSUME ExclusiveDomains, Faults \cap {"store", "ambiguous"} = {}
  PROVE  FleetSpec => []FRInv
<1>1. FRInv /\ [FleetNext]_all => FRInv'
  BY NextFRInv
<1> QED  BY <1>1, InitFRInv, PTL DEF FleetSpec

\* Whenever r.mu is free, every current deployment's domain is routed, in memory
\* and in Caddy, to exactly the replicas its row lists: whatever containers and
\* nodes die, whichever starts, removals and posts fail, whoever hangs up, and
\* whenever the daemon restarts, between a flip and a save too.  The store takes
\* its writes, a failed post has changed nothing, and no two apps claim one domain.
THEOREM RestIsRouted ==
  ASSUME ExclusiveDomains, Faults \cap {"store", "ambiguous"} = {}
  PROVE  FleetSpec => []RoutedAtRest
<1>1. FleetSpec => []FRInv  BY FleetEdgeInductive
<1>2. ASSUME FRInv PROVE RoutedAtRest
  <2> SUFFICES ASSUME Free, NEW a \in Apps, NEW d \in Domains \ {NoDomain}, Claims(a, d)
               PROVE  /\ routes[d] = Upstreams(rows[CurrentDeployment(a)].reps)
                      /\ caddy[d] = routes[d]
    BY DEF RoutedAtRest
  <2> DEFINE i == CurrentDeployment(a)
  <2>1. i # 0 /\ rows[i].spec.dom = d  BY DEF Claims
  <2>2. WorldTypeOK /\ FleetEdge /\ FInv  BY <1>2, FRParts
  <2>3. i \in RowIds /\ rows[i].status = "running"
    BY <2>1, <2>2, CurrentRow DEF WithStatus
  <2>4. pc = "idle" /\ ~FlipDone
    BY <2>2, FlipDoneIsWork DEF Free
  <2> HIDE DEF i
  <2>5. routes[d] = Upstreams(rows[i].reps)
    BY <2>1, <2>2, <2>3, <2>4 DEF FleetEdge, Swapping, SwapSteps
  <2> QED  BY <2>2, <2>5 DEF i, FleetEdge
<1> QED  BY <1>1, <1>2, PTL

-----------------------------------------------------------------------------
(* Moves keep serving: what a step does *)

\* An app does not change its domain.
OneDomain == \A s, t \in Specs : s.app = t.app => s.dom = t.dom

LEMMA MParts ==
  ASSUME MInv
  PROVE  /\ FInv /\ IInv /\ WorldTypeOK /\ NamesUnique /\ SpecsAreSubmitted /\ FreshOK /\ MoveOK
         /\ \A i \in RowIds : Named(rows[i].app, rows[i].reps)
BY WorldTyped DEF MInv

\* A step of BlueGreen's, or none; a call of a heal or a move; or the turn of an
\* app that is deployed anew on another node, or cannot be moved.
LEMMA FleetCases ==
  ASSUME FInv, [FleetNext]_all
  PROVE  \/ [Next]_vars
         \/ /\ Common \/ Heal \/ EvacRun \/ EvacRemoveOld
            /\ Working /\ pc = "idle" /\ UNCHANGED holder /\ (UNCHANGED rows \/ Saves)
         \/ \E a \in Apps : EvacRedeploy(a) \/ EvacGivesUp(a)
<1>1. CASE Common \/ Heal \/ EvacRun \/ EvacRemoveOld
  <2>1. Working /\ pc = "idle" /\ UNCHANGED holder
    BY <1>1, AtWork DEF Common, OpSetStaging, OpGate, OpUnstage, OpFlip, OpUndo, OpDiscard, OpSave,
       Heal, HealRemoveOld, HealRun, EvacRun, EvacRemoveOld, At, Working, vars, holder
  <2>2. UNCHANGED rows \/ Saves
    BY <1>1 DEF Common, OpSetStaging, OpGate, OpUnstage, OpFlip, OpUndo, OpDiscard, OpSave,
       Heal, HealRemoveOld, HealRun, EvacRun, EvacRemoveOld, vars, Saves
  <2> QED  BY <1>1, <2>1, <2>2
<1>2. CASE FleetRequest \/ FleetDeploy \/ FleetEnvironment
  BY <1>2, FleetRequestIsRequest DEF FleetDeploy, FleetEnvironment, Next, Environment
<1>3. CASE \/ UNCHANGED all \/ LoopProbe \/ LoopLocks \/ EvacEnd
           \/ \E a \in Apps : LoopRead(a) \/ BackoffElapses(a) \/ EvacReplicas(a)
           \/ \E n \in Managed : LoopNode(n) \/ Cordon(n) \/ Evacuate(n)
                                   \/ Uncordon(n) \/ GoAway(n) \/ ComeBack(n)
  BY <1>3 DEF all, LoopProbe, LoopLocks, LoopClear, HealSkip, HealStart, EvacFailover, EvacStart,
     Evacuate, EvacEnd, LoopRead, BackoffElapses, LoopNode, Cordon, Uncordon, GoAway, ComeBack,
     EvacReplicas
<1> QED  BY <1>1, <1>2, <1>3 DEF FleetNext, Operation, Evac

\* The container that is to replace the one at work.
LEMMA RunOnStarts ==
  ASSUME FInv, Working, op.todo # <<>>, NEW n \in Nodes, NEW id \in Nat, RunOn(n, id)
  PROVE  /\ conts'[Len(conts) + 1].app = App /\ conts'[Len(conts) + 1].idx = NameIdx
         /\ conts'[Len(conts) + 1].state = "running"
         /\ \A c \in ContIds : conts'[c] = conts[c]
         /\ NamesUnique => NamesUnique'
<1> DEFINE k == NewContainer(App, n, id, NameIdx, TRUE)
<1>1. WorldTypeOK /\ conts \in Seq(Container)
  BY WorldTyped
<1>2. NameIdx \in Nat /\ App \in Apps
  BY TodoTyped, WorkTyped DEF NameIdx
<1>3. k \in Container /\ k.app = App /\ k.idx = NameIdx /\ k.state = "running"
  BY <1>2 DEF NewContainer, Container, ContState
<1>4. conts' = Append(conts, k) /\ NameFree(k.app, k.node, k.dep, k.idx)
  BY DEF RunOn, NewContainer
<1> HIDE DEF k
<1>5. conts'[Len(conts) + 1] = k /\ \A c \in ContIds : conts'[c] = conts[c]
  BY <1>1, <1>3, <1>4, ContainersAppended
<1>6. NamesUnique => NamesUnique'
  BY <1>1, <1>3, <1>4, NameGiven
<1> QED  BY <1>3, <1>5, <1>6

LEMMA ReachableLeft ==
  ASSUME FInv, NamesUnique, NEW cs, RemoveReachable(cs)
  PROVE  NamesUnique' /\ \A c \in ContIds \ cs : conts'[c] = conts[c]
<1>1. PICK kept : conts' = WithoutConts(cs \ kept)
  BY DEF RemoveReachable
<1>2. NamesUnique'
  BY <1>1, WorldTyped, NamesLeft
<1> QED  BY <1>1, <1>2 DEF WithoutConts

\* No step gives two containers the same name on the same node.
LEMMA FleetNames ==
  ASSUME MInv, [FleetNext]_all PROVE NamesUnique'
<1>1. FInv /\ IInv /\ NamesUnique
  BY MParts
<1>2. CASE UNCHANGED conts
  BY <1>1, <1>2 DEF NamesUnique, ContIds
<1>3. CASE [Next]_vars
  BY <1>1, <1>3, NamesStayUnique
<1>4. CASE OpDiscard \/ HealRemoveOld \/ EvacRemoveOld
  BY <1>1, <1>2, <1>4, ReachableLeft, Zenon DEF OpDiscard, HealRemoveOld, EvacRemoveOld
<1>5. CASE HealRun \/ EvacRun
  <2>1. Working /\ op.at \in {"pick", "run"}
    BY <1>5 DEF HealRun, EvacRun, At, Working
  <2>2. op.todo # <<>>
    BY <1>1, <2>1, WorkTyped DEF WorkOK
  <2>3. NewHomes \subseteq Nodes /\ NextDeployID \in Nat /\ op.id \in Nat /\ NodeOf(Old) \in Nodes
    BY <1>1, <2>1, <2>2, WorldTyped, OpTyped, TodoTyped DEF NewHomes, Candidates, NextDeployID
  <2> QED  BY <1>1, <1>2, <1>5, <2>1, <2>2, <2>3, RunOnStarts DEF HealRun, EvacRun
<1>6. CASE \/ OpSetStaging \/ OpGate \/ OpUnstage \/ OpFlip \/ OpUndo \/ OpSave
           \/ \E a \in Apps : EvacRedeploy(a) \/ EvacGivesUp(a)
  BY <1>2, <1>6 DEF OpSetStaging, OpGate, OpUnstage, OpFlip, OpUndo, OpSave, vars, EvacRedeploy,
     EvacGivesUp, StartDeploy, AbandonDeploy
<1> QED  BY <1>1, <1>3, <1>4, <1>5, <1>6, FleetCases DEF Common, Heal

-----------------------------------------------------------------------------
(* Moves keep serving: the replicas of a row *)

LEMMA NamedKept ==
  ASSUME ContsKept, NEW a, NEW s, SeqSet(s) \subseteq ContIds, Named(a, s)
  PROVE  \A k \in DOMAIN s : conts'[s[k]].app = a /\ (Len(s) > 1 => conts'[s[k]].idx = k)
BY DEF Named, ContsKept, SeqSet

\* Every row is one of before, with the replicas it had, or one whose replicas are
\* its app's and bear their indexes.
LEMMA RowsNamed ==
  ASSUME MInv, ContsKept,
         \A i \in RowIds' :
           \/ i \in RowIds /\ rows'[i].app = rows[i].app /\ rows'[i].reps = rows[i].reps
           \/ \A k \in DOMAIN rows'[i].reps :
                /\ conts'[rows'[i].reps[k]].app = rows'[i].app
                /\ Len(rows'[i].reps) > 1 => conts'[rows'[i].reps[k]].idx = k
  PROVE  (\A i \in RowIds : Named(rows[i].app, rows[i].reps))'
<1> SUFFICES ASSUME NEW i \in RowIds'
             PROVE  \A k \in DOMAIN rows'[i].reps :
                      /\ conts'[rows'[i].reps[k]].app = rows'[i].app
                      /\ Len(rows'[i].reps) > 1 => conts'[rows'[i].reps[k]].idx = k
  BY Zenon DEF Named
<1>1. CASE i \in RowIds /\ rows'[i].app = rows[i].app /\ rows'[i].reps = rows[i].reps
  <2>1. Named(rows[i].app, rows[i].reps) /\ SeqSet(rows[i].reps) \subseteq ContIds
    BY <1>1, MParts, ListedConts
  <2> QED  BY <1>1, <2>1, NamedKept
<1> QED  BY <1>1

\* The set that goes live.
LEMMA MergedNamed ==
  ASSUME MInv, Working, op.at # "pick" PROVE Named(App, Merged)
<1>1. FInv /\ MoveOK /\ Named(App, rows[op.row].reps)
  BY MParts, RowAtWork DEF App
<1>2. CASE Healing
  BY <1>1, <1>2 DEF MoveOK, Merged
<1>3. CASE ~Healing
  <2>1. /\ op.reps = rows[op.row].reps /\ Len(op.reps) > 1
        /\ conts[op.fresh[1]].app = App /\ conts[op.fresh[1]].idx = Idx
    BY <1>1, <1>3, MovesRecorded DEF MoveOK
  <2>2. /\ DOMAIN Merged = DOMAIN op.reps
        /\ \A i \in DOMAIN op.reps : \/ Merged[i] = op.reps[i]
                                     \/ i = Idx /\ Merged[i] = op.fresh[1]
    BY <1>1, MergedTyped
  <2> QED  BY <1>1, <2>1, <2>2 DEF Named
<1> QED  BY <1>2, <1>3

LEMMA NextNamed ==
  ASSUME MInv, [Next]_vars PROVE (\A i \in RowIds : Named(rows[i].app, rows[i].reps))'
<1>1. IInv /\ FreshOK /\ rows \in Seq(Row) /\ ContsKept
  BY MParts, WorldTyped, NextKeepsConts
<1>2. CASE UNCHANGED rows
  BY <1>1, <1>2, RowsNamed DEF RowIds
<1>3. ASSUME NEW row \in Row, rows' = Append(rows, row),
             row.reps = <<>> \/ (pc = "record" /\ row.reps = job.new),
             \A c \in SeqSet(row.reps) : c \in ContIds /\ conts[c].app = row.app
      PROVE  (\A i \in RowIds : Named(rows[i].app, rows[i].reps))'
  <2>1. \A i \in RowIds' : rows'[i] = row \/ (i \in RowIds /\ rows'[i] = rows[i])
    BY <1>1, <1>3 DEF RowIds
  <2>2. ASSUME NEW k \in DOMAIN row.reps
        PROVE  conts'[row.reps[k]].app = row.app /\ (Len(row.reps) > 1 => conts'[row.reps[k]].idx = k)
    <3>1. row.reps[k] \in ContIds /\ conts[row.reps[k]].app = row.app
      BY <1>3 DEF SeqSet
    <3>2. ASSUME Len(row.reps) > 1 PROVE conts[row.reps[k]].idx = k
      <4>1. pc = "record" /\ row.reps = job.new
        BY <1>3, <3>2
      <4>2. job \in Job /\ pc \in DeploySteps
        BY <1>1, <4>1, JobTyped DEF DeploySteps, SwapSteps
      <4>3. Len(job.new) \in Nat /\ job.spec.count \in Nat /\ Len(job.new) <= job.spec.count
        BY <1>1, <4>2 DEF Job, Spec0, FreshOK
      <4>4. job.spec.count > 1
        BY <3>2, <4>1, <4>3
      <4> QED  BY <1>1, <4>1, <4>2, <4>4 DEF FreshOK
    <3> QED  BY <1>1, <3>1, <3>2 DEF ContsKept
  <2>3. \A i \in RowIds' :
          \/ i \in RowIds /\ rows'[i].app = rows[i].app /\ rows'[i].reps = rows[i].reps
          \/ \A k \in DOMAIN rows'[i].reps :
               /\ conts'[rows'[i].reps[k]].app = rows'[i].app
               /\ Len(rows'[i].reps) > 1 => conts'[rows'[i].reps[k]].idx = k
    BY <2>1, <2>2
  <2> QED  BY <1>1, <2>3, RowsNamed
<1>4. ASSUME NEW j \in RowIds, SetStatus(j, "retired")
      PROVE  (\A i \in RowIds : Named(rows[i].app, rows[i].reps))'
  <2>1. \A i \in RowIds' : i \in RowIds /\ rows'[i].app = rows[i].app /\ rows'[i].reps = rows[i].reps
    BY <1>1, <1>4 DEF RowIds, SetStatus, Row
  <2> QED  BY <1>1, <2>1, RowsNamed
<1> QED  BY <1>1, <1>2, <1>3, <1>4, TableMoves

LEMMA SavedNamed ==
  ASSUME MInv, Saves, Working PROVE (\A i \in RowIds : Named(rows[i].app, rows[i].reps))'
<1>1. /\ op.at = "save" /\ UpdateReplicas /\ UNCHANGED <<conts, edge, holder>> /\ FInv
      /\ op.row \in RowIds /\ WorldTypeOK
  BY MParts, RowAtWork DEF Saves, OpSave, AtEither
<1> DEFINE reps == Merged
<1>2. reps \in Seq(Nat) /\ rows' = [rows EXCEPT ![op.row].reps = reps] /\ Named(App, reps)
  BY <1>1, MergedTyped, MergedNamed DEF UpdateReplicas
<1> HIDE DEF reps
<1>3. /\ RowIds' = RowIds /\ rows'[op.row].reps = reps
      /\ \A k \in RowIds : k # op.row => rows'[k] = rows[k]
      /\ \A k \in RowIds : rows'[k].app = rows[k].app
  BY <1>1, <1>2, ReplicasUpdated
<1>4. ContsKept
  BY <1>1, Kept
<1>5. \A k \in DOMAIN reps :
        conts'[reps[k]].app = App /\ (Len(reps) > 1 => conts'[reps[k]].idx = k)
  BY <1>1, <1>2 DEF Named
<1>6. rows'[op.row].app = App
  BY <1>1, <1>3 DEF App
<1>7. \A i \in RowIds' :
        \/ i \in RowIds /\ rows'[i].app = rows[i].app /\ rows'[i].reps = rows[i].reps
        \/ \A k \in DOMAIN rows'[i].reps :
             /\ conts'[rows'[i].reps[k]].app = rows'[i].app
             /\ Len(rows'[i].reps) > 1 => conts'[rows'[i].reps[k]].idx = k
  BY <1>3, <1>5, <1>6
<1> QED  BY <1>4, <1>7, RowsNamed

\* The row of an app that cannot be moved, if it is recorded at all.
LEMMA GivenUpRow ==
  ASSUME FInv, NEW a \in Apps, EvacGivesUp(a)
  PROVE  \/ UNCHANGED rows
         \/ \E row \in Row : /\ rows' = Append(rows, row) /\ row.reps = <<>> /\ row.app = row.spec.app
                             /\ row.spec = rows[CurrentDeployment(a)].spec
<1> DEFINE s == rows[CurrentDeployment(a)].spec
           row == NewRow("failed", s, FALSE, <<>>)
<1>1. s \in Spec0
  BY NextAppRow DEF EvacGivesUp
<1>2. row \in Row /\ row.reps = <<>> /\ row.app = row.spec.app /\ row.spec = s
  BY <1>1, FailedRow DEF NewRow
<1>3. UNCHANGED rows \/ rows' = Append(rows, row)
  BY DEF EvacGivesUp, AbandonDeploy
<1> HIDE DEF row
<1> QED  BY <1>2, <1>3

LEMMA FleetNamed ==
  ASSUME MInv, [FleetNext]_all PROVE (\A i \in RowIds : Named(rows[i].app, rows[i].reps))'
<1>1. FInv /\ ContsKept /\ rows \in Seq(Row)
  BY MParts, FleetKeepsConts, WorldTyped
<1>2. CASE UNCHANGED rows
  BY <1>1, <1>2, RowsNamed DEF RowIds
<1>3. ASSUME NEW a \in Apps, EvacGivesUp(a)
      PROVE  (\A i \in RowIds : Named(rows[i].app, rows[i].reps))'
  <2>1. ASSUME NEW row, rows' = Append(rows, row), row.reps = <<>>
        PROVE  (\A i \in RowIds : Named(rows[i].app, rows[i].reps))'
    <3>1. \A i \in RowIds' : rows'[i] = row \/ (i \in RowIds /\ rows'[i] = rows[i])
      BY <1>1, <2>1 DEF RowIds
    <3>2. DOMAIN row.reps = {}
      BY <2>1
    <3> QED  BY <1>1, <3>1, <3>2, RowsNamed
  <2> QED  BY <1>1, <1>2, <1>3, <2>1, GivenUpRow
<1>4. CASE \E a \in Apps : EvacRedeploy(a)
  BY <1>2, <1>4 DEF EvacRedeploy, StartDeploy
<1> QED  BY <1>1, <1>2, <1>3, <1>4, FleetCases, NextNamed, SavedNamed

-----------------------------------------------------------------------------
(* Moves keep serving: the specs *)

LEMMA SpecsGrow ==
  ASSUME SpecsAreSubmitted, pc' \in DeploySteps => From(job'.spec),
         \A i \in RowIds' :
           \/ i \in RowIds /\ rows'[i].app = rows[i].app /\ rows'[i].spec = rows[i].spec
           \/ rows'[i].app = rows'[i].spec.app /\ From(rows'[i].spec)
  PROVE  SpecsAreSubmitted'
<1>1. \A i \in RowIds' : rows'[i].app = rows'[i].spec.app /\ From(rows'[i].spec)
  <2> SUFFICES ASSUME NEW i \in RowIds'
               PROVE  rows'[i].app = rows'[i].spec.app /\ From(rows'[i].spec)
    OBVIOUS
  <2>1. CASE i \in RowIds /\ rows'[i].app = rows[i].app /\ rows'[i].spec = rows[i].spec
    BY <2>1 DEF SpecsAreSubmitted
  <2> QED  BY <2>1
<1> QED  BY <1>1 DEF SpecsAreSubmitted, From

\* Every spec on record, or deployed, is one a client has submitted.
LEMMA FleetSpecs ==
  ASSUME FInv, SpecsAreSubmitted, [FleetNext]_all PROVE SpecsAreSubmitted'
<1>1. WorldTypeOK /\ IInv /\ rows \in Seq(Row)
  BY WorldTyped
<1>2. CASE [Next]_vars
  BY <1>1, <1>2, SpecsStaySubmitted
<1>3. CASE Working /\ pc = "idle" /\ UNCHANGED holder /\ (UNCHANGED rows \/ Saves)
  <2>1. pc' \notin DeploySteps
    BY <1>3 DEF holder, DeploySteps, SwapSteps, UndoSteps
  <2>2. CASE UNCHANGED rows
    BY <2>1, <2>2, SpecsGrow DEF RowIds
  <2>3. CASE Saves
    <3>1. op.at = "save" /\ UpdateReplicas /\ op.row \in RowIds
      BY <1>3, <2>3, RowAtWork DEF Saves, OpSave, AtEither
    <3> DEFINE reps == Merged
    <3>2. reps \in Seq(Nat) /\ rows' = [rows EXCEPT ![op.row].reps = reps]
      BY <1>3, <3>1, MergedTyped DEF UpdateReplicas
    <3> HIDE DEF reps
    <3>3. RowIds' = RowIds /\ \A k \in RowIds : rows'[k].app = rows[k].app /\ rows'[k].spec = rows[k].spec
      BY <1>1, <3>1, <3>2, ReplicasUpdated
    <3> QED  BY <2>1, <3>3, SpecsGrow
  <2> QED  BY <1>3, <2>2, <2>3
<1>4. ASSUME NEW a \in Apps, EvacRedeploy(a) PROVE SpecsAreSubmitted'
  <2> DEFINE cur == CurrentDeployment(a)
  <2>1. PICK m \in Candidates({op.node}) :
          StartDeploy([rows[cur].spec EXCEPT !.node = m], TRUE)
    BY <1>4 DEF EvacRedeploy
  <2>2. cur \in RowIds /\ rows[cur].spec \in Spec0
    BY <1>4, NextAppRow DEF EvacRedeploy
  <2> DEFINE s == [rows[cur].spec EXCEPT !.node = m]
  <2>3. s \in Spec0 /\ s.app = rows[cur].spec.app /\ s.dom = rows[cur].spec.dom
    BY <2>2 DEF Spec0, Candidates
  <2>4. StartDeploy(s, TRUE)  BY <2>1
  <2> HIDE DEF s
  <2>5. job'.spec.app = s.app /\ job'.spec.dom = s.dom /\ UNCHANGED rows
    BY <2>3, <2>4 DEF StartDeploy, Spec0
  <2>6. From(rows[cur].spec)
    BY <2>2 DEF SpecsAreSubmitted
  <2> QED  BY <2>3, <2>5, <2>6, SpecsGrow DEF From, RowIds
<1>5. ASSUME NEW a \in Apps, EvacGivesUp(a) PROVE SpecsAreSubmitted'
  <2>1. pc' \notin DeploySteps /\ CurrentDeployment(a) \in RowIds
    <3>1. pc = "idle" /\ UNCHANGED pc /\ CurrentDeployment(a) \in RowIds
      BY <1>5, NextAppRow DEF EvacGivesUp, AbandonDeploy
    <3> QED  BY <3>1 DEF DeploySteps, SwapSteps, UndoSteps
  <2>2. CASE UNCHANGED rows
    BY <2>1, <2>2, SpecsGrow DEF RowIds
  <2>3. ASSUME NEW row, rows' = Append(rows, row), row.app = row.spec.app,
               row.spec = rows[CurrentDeployment(a)].spec
        PROVE  SpecsAreSubmitted'
    <3>1. \A i \in RowIds' : rows'[i] = row \/ (i \in RowIds /\ rows'[i] = rows[i])
      BY <1>1, <2>3 DEF RowIds
    <3>2. From(row.spec)
      BY <2>1, <2>3 DEF SpecsAreSubmitted
    <3>3. \A i \in RowIds' :
            \/ i \in RowIds /\ rows'[i].app = rows[i].app /\ rows'[i].spec = rows[i].spec
            \/ rows'[i].app = rows'[i].spec.app /\ From(rows'[i].spec)
      BY <2>3, <3>1, <3>2
    <3> QED  BY <2>1, <3>3, SpecsGrow
  <2> QED  BY <1>5, <2>2, <2>3, GivenUpRow
<1> QED  BY <1>2, <1>3, <1>4, <1>5, FleetCases

-----------------------------------------------------------------------------
(* Moves keep serving: the candidate of a deploy *)

\* It is the same candidate, of which nothing is gone.
LEMMA FreshStays ==
  ASSUME IInv, FreshOK, ContsKept, pc \in DeploySteps,
         job'.new = job.new, job'.spec = job.spec,
         \A i \in RowIds' : i \in RowIds /\ rows'[i].reps = rows[i].reps,
         pc' # "fail" => /\ pc # "fail"
                         /\ \A c \in SeqSet(job.new) :
                              conts[c].state # "gone" => conts'[c].state # "gone",
         pc' \in SwapSteps => /\ routes'[job.spec.dom] = Upstreams(job.new)
                              /\ caddy'[job.spec.dom] = Upstreams(job.new)
  PROVE  FreshOK'
<1> DEFINE s == job.new
<1>1. SeqSet(s) \subseteq ContIds /\ \A k \in DOMAIN s : s[k] \in SeqSet(s)
  BY ListedConts DEF SeqSet
<1>2. Upstreams(s)' = Upstreams(s)
  BY <1>1, UpstreamsKept
<1>3. Apart(job.new)'
  BY DEF Apart, FreshOK
<1>4. Len(job'.new) <= job'.spec.count
  BY DEF FreshOK
<1>5. ASSUME NEW k \in DOMAIN job'.new
      PROVE  /\ job'.spec.count > 1 => conts'[job'.new[k]].idx = k
             /\ pc' # "fail" => conts'[job'.new[k]].state # "gone"
  BY <1>1, <1>5 DEF FreshOK, ContsKept
<1>6. pc' \in SwapSteps => OnEdge(job.spec.dom, Upstreams(job.new))'
  BY <1>2 DEF OnEdge
<1> QED  BY <1>3, <1>4, <1>5, <1>6 DEF FreshOK

LEMMA FreshOver == ASSUME pc' \notin DeploySteps PROVE FreshOK'
BY DEF FreshOK

LEMMA FreshBegins ==
  ASSUME IInv', pc' = "run", job'.new = <<>> PROVE FreshOK'
<1>1. job'.spec.count \in Nat /\ Len(job'.new) = 0 /\ DOMAIN job'.new = {}
  BY DEF IInv, TypeOK, HolderTypeOK, Job, Spec0
<1>2. Apart(job.new)'
  BY <1>1 DEF Apart, SeqSet
<1> QED  BY <1>1, <1>2 DEF FreshOK, SwapSteps

\* A container more, and it runs.
LEMMA FreshGrows ==
  ASSUME IInv, FreshOK, pc = "run", StartContainer, UNCHANGED rows,
         job' = [job EXCEPT !.new = Append(@, Len(conts) + 1)], pc' \in {"run", "stage", "undo"}
  PROVE  FreshOK'
<1> DEFINE c == Len(conts) + 1
           new == Append(job.new, c)
<1>1. /\ WorldTypeOK /\ conts \in Seq(Container) /\ job \in Job /\ job.new \in Seq(Nat)
      /\ job.spec.count \in Nat /\ Len(job.new) < job.spec.count /\ Len(job.new) \in Nat
      /\ SeqSet(job.new) \subseteq ContIds /\ pc \in DeploySteps
  BY JobTyped, ListedConts DEF IInv, TypeOK, WorldTypeOK, HolderOK, Job, Spec0, DeploySteps
<1>2. /\ c \in ContIds' /\ conts'[c].idx = ReplicaIdx /\ conts'[c].state = "running"
      /\ \A x \in ContIds : conts'[x] = conts[x]
  <2>1. PICK ready \in BOOLEAN :
          conts' = Append(conts, NewContainer(job.app, job.tgt[NextReplica], job.id,
                                              ReplicaIdx, ready))
    BY DEF StartContainer
  <2> DEFINE k == NewContainer(job.app, job.tgt[NextReplica], job.id, ReplicaIdx, ready)
  <2>2. k \in Container  BY NextReplicaTyped
  <2>3. k.idx = ReplicaIdx /\ k.state = "running"  BY DEF NewContainer
  <2>4. conts' = Append(conts, k)  BY <2>1
  <2> HIDE DEF k
  <2> QED  BY <1>1, <2>2, <2>3, <2>4, ContainersAppended
<1>3. c \notin ContIds /\ c \in Nat
  BY <1>1 DEF ContIds
<1> HIDE DEF c
<1>4. job'.new = new /\ job'.spec = job.spec
  BY <1>1 DEF Job, c
<1>5. /\ Len(new) = Len(job.new) + 1 /\ DOMAIN new = 1..(Len(job.new) + 1)
      /\ new[Len(job.new) + 1] = c
      /\ \A k \in 1..Len(job.new) : new[k] = job.new[k] /\ k \in DOMAIN job.new
  BY <1>1, <1>3
<1> HIDE DEF new
<1>6. \A k \in DOMAIN new : \/ k = Len(job.new) + 1 /\ new[k] = c
                            \/ k \in DOMAIN job.new /\ new[k] = job.new[k]
  <2>1. \A n \in Nat : \A k \in 1..(n + 1) : k = n + 1 \/ k \in 1..n
    OBVIOUS
  <2> QED  BY <1>1, <1>5, <2>1
<1>7. Apart(job.new)'
  <2> SUFFICES ASSUME NEW i \in RowIds', NEW x \in SeqSet(job'.new), x \in SeqSet(rows'[i].reps)
               PROVE  FALSE
    BY DEF Apart
  <2>1. i \in RowIds /\ x \in SeqSet(rows[i].reps) /\ x \in ContIds
    BY <1>1, ListedConts DEF RowIds
  <2>2. x \in SeqSet(job.new)
    BY <1>3, <1>4, <1>6, <2>1 DEF SeqSet
  <2> QED  BY <1>1, <2>1, <2>2 DEF FreshOK, Apart
<1>8. Len(new) <= job.spec.count
  BY <1>1, <1>5
<1>9. ASSUME NEW k \in DOMAIN new
      PROVE  /\ job.spec.count > 1 => conts'[new[k]].idx = k
             /\ conts'[new[k]].state # "gone"
  <2>1. CASE k = Len(job.new) + 1 /\ new[k] = c
    BY <1>1, <1>2, <2>1 DEF ReplicaIdx, NextReplica
  <2>2. CASE k \in DOMAIN job.new /\ new[k] = job.new[k]
    <3>1. job.new[k] \in ContIds
      BY <1>1, <2>2 DEF SeqSet
    <3> QED  BY <1>1, <1>2, <2>2, <3>1 DEF FreshOK
  <2> QED  BY <1>6, <2>1, <2>2
<1>10. pc' \notin SwapSteps
  BY DEF SwapSteps
<1> QED  BY <1>4, <1>7, <1>8, <1>9, <1>10 DEF FreshOK

LEMMA StatusKeepsReplicas ==
  ASSUME WorldTypeOK, NEW i, NEW st, SetStatus(i, st)
  PROVE  \A k \in RowIds' : k \in RowIds /\ rows'[k].reps = rows[k].reps
BY DEF WorldTypeOK, RowIds, SetStatus, Row

LEMMA ReplicaRunFresh ==
  ASSUME MInv, RunReplica \/ RunReplicaFails PROVE FreshOK'
<1>1. /\ IInv /\ FreshOK /\ ContsKept /\ conts \in Seq(Container) /\ pc = "run" /\ pc \in DeploySteps
      /\ UNCHANGED rows /\ pc' \in {"run", "stage", "undo"} /\ SeqSet(job.new) \subseteq ContIds
  BY MParts, NextKeepsConts, WorldTyped, ListedConts
     DEF Next, Deploy, RunReplica, RunReplicaFails, DeploySteps
<1>2. CASE StartContainer /\ job' = [job EXCEPT !.new = Append(@, Len(conts) + 1)]
  BY <1>1, <1>2, FreshGrows
<1>3. CASE UNCHANGED job /\ (UNCHANGED conts \/ StartContainer)
  <2>1. \A c \in ContIds : conts'[c] = conts[c]
    BY <1>1, <1>3 DEF StartContainer, ContIds
  <2>2. \A i \in RowIds' : i \in RowIds /\ rows'[i].reps = rows[i].reps
    BY <1>1 DEF RowIds
  <2>3. pc' # "fail" /\ pc # "fail" /\ pc' \notin SwapSteps
    BY <1>1 DEF SwapSteps
  <2> QED  BY <1>1, <1>3, <2>1, <2>2, <2>3, FreshStays
<1> QED  BY <1>2, <1>3 DEF RunReplica, RunReplicaFails

\* The candidate's routes.
LEMMA EdgeFresh ==
  ASSUME MInv, SetStaging \/ HealthGate \/ Flip \/ RemoveStaging \/ UndoStaging PROVE FreshOK'
<1>1. /\ IInv /\ FreshOK /\ ContsKept /\ WorldTypeOK /\ UNCHANGED <<rows, conts, job>>
      /\ pc \in DeploySteps /\ pc # "fail" /\ pc' # "fail" /\ job \in Job
  BY MParts, NextKeepsConts, JobTyped DEF Next, Deploy, SetStaging, HealthGate, Flip, RemoveStaging,
     UndoStaging, DeploySteps, SwapSteps, UndoSteps, Goto, world
<1>2. \A i \in RowIds' : i \in RowIds /\ rows'[i].reps = rows[i].reps
  BY <1>1 DEF RowIds
<1>3. ASSUME pc' \in SwapSteps
      PROVE  routes'[job.spec.dom] = Upstreams(job.new) /\ caddy'[job.spec.dom] = Upstreams(job.new)
  <2>1. CASE Flip
    <3>1. routes' = Flipped /\ caddy' = Flipped
      BY <1>3, <2>1 DEF Flip, Goto, Applied, SwapSteps
    <3>2. routes \in [Domains -> SUBSET Upstream] /\ job.spec.dom \in Domains
      BY <1>1 DEF WorldTypeOK, Job, Spec0
    <3> QED  BY <3>1, <3>2 DEF Flipped
  <2>2. CASE RemoveStaging
    <3>1. /\ routes' = routes /\ (caddy' = caddy \/ caddy' = routes)
          /\ OnEdge(job.spec.dom, Upstreams(job.new))
      BY <1>1, <2>2 DEF RemoveStaging, BestEffort, Applied, Rejected, AppliedUnknown, edge, FreshOK,
         SwapSteps
    <3> QED  BY <3>1 DEF OnEdge
  <2> QED  BY <1>3, <2>1, <2>2 DEF SetStaging, HealthGate, UndoStaging, Goto, SwapSteps
<1> QED  BY <1>1, <1>2, <1>3, FreshStays

LEMMA RetireFresh ==
  ASSUME MInv, RetireOldSet \/ RetireOldRow PROVE FreshOK'
<1>1. /\ IInv /\ FreshOK /\ ContsKept /\ WorldTypeOK /\ UNCHANGED <<routes, caddy, job>>
      /\ pc \in SwapSteps /\ pc \in DeploySteps /\ pc # "fail" /\ pc' # "fail"
  BY MParts, NextKeepsConts DEF Next, Deploy, RetireOldSet, RetireOldRow, DeploySteps, SwapSteps,
     Goto, edge
<1>2. \A i \in RowIds' : i \in RowIds /\ rows'[i].reps = rows[i].reps
  BY <1>1, StatusKeepsReplicas DEF RetireOldSet, RetireOldRow, RowIds
<1>3. \A c \in SeqSet(job.new) : conts[c].state # "gone" => conts'[c].state # "gone"
  <2>1. CASE UNCHANGED conts
    BY <2>1
  <2> DEFINE prev == CurrentDeployment(job.app)
  <2>2. CASE prev # 0 /\ RemoveEach(SeqSet(rows[prev].reps))
    <3>1. prev \in RowIds /\ SeqSet(job.new) \subseteq ContIds
      BY <1>1, <2>2, CurrentRow, ListedConts
    <3>2. SeqSet(job.new) \cap SeqSet(rows[prev].reps) = {}
      BY <1>1, <3>1 DEF FreshOK, Apart
    <3>3. PICK cs \in SUBSET SeqSet(rows[prev].reps) : conts' = WithoutConts(cs)
      BY <2>2 DEF RemoveEach
    <3> QED  BY <3>1, <3>2, <3>3 DEF WithoutConts
  <2> QED  BY <2>1, <2>2 DEF RetireOldSet, RetireOldRow
<1>4. OnEdge(job.spec.dom, Upstreams(job.new))
  BY <1>1 DEF FreshOK
<1> QED  BY <1>1, <1>2, <1>3, <1>4, FreshStays DEF OnEdge

LEMMA DeployFresh ==
  ASSUME MInv, Deploy PROVE FreshOK'
<1>1. CASE Discard
  <2>1. /\ IInv /\ FreshOK /\ ContsKept /\ UNCHANGED <<rows, job>> /\ pc \in DeploySteps
        /\ pc' = "fail"
    BY <1>1, MParts, NextKeepsConts DEF Next, Deploy, Discard, DeploySteps, UndoSteps, Goto
  <2>2. \A i \in RowIds' : i \in RowIds /\ rows'[i].reps = rows[i].reps
    BY <2>1 DEF RowIds
  <2> QED  BY <2>1, <2>2, FreshStays DEF SwapSteps
<1>2. CASE RecordRunning \/ RecordFailed
  BY <1>2, FreshOver DEF RecordRunning, RecordFailed, Done, DeploySteps, SwapSteps, UndoSteps
<1> QED  BY <1>1, <1>2, ReplicaRunFresh, EdgeFresh, RetireFresh DEF Deploy

LEMMA RequestFresh ==
  ASSUME MInv, IInv', Request PROVE FreshOK'
<1>1. IInv /\ FreshOK
  BY MParts
<1>2. ASSUME UNCHANGED <<world, pc, job>> PROVE FreshOK'
  <2>1. ContsKept /\ \A i \in RowIds' : i \in RowIds /\ rows'[i].reps = rows[i].reps
    BY <1>2, MParts, UnchangedConts DEF world, RowIds
  <2>2. CASE pc \in DeploySteps
    <3>1. pc' \in SwapSteps => OnEdge(job.spec.dom, Upstreams(job.new))
      BY <1>1, <1>2, <2>2 DEF FreshOK
    <3> QED  BY <1>1, <1>2, <2>1, <2>2, <3>1, FreshStays DEF world, OnEdge
  <2>3. CASE pc \notin DeploySteps
    BY <1>2, <2>3, FreshOver
  <2> QED  BY <2>2, <2>3
<1>3. ASSUME NEW s \in Spec0, NEW sched, StartDeploy(s, sched) PROVE FreshOK'
  <2>1. pc' = "run" /\ job'.new = <<>>
    BY <1>3 DEF StartDeploy
  <2> QED  BY <2>1, FreshBegins
<1>4. ASSUME NEW s, NEW sched, pc = "idle", AbandonDeploy(s, sched) PROVE FreshOK'
  BY <1>4, FreshOver DEF AbandonDeploy, DeploySteps, SwapSteps, UndoSteps
<1>5. ASSUME NEW a, BeginRemove(a) PROVE FreshOK'
  BY <1>5, FreshOver DEF BeginRemove, DeploySteps, SwapSteps, UndoSteps
<1> QED  BY <1>1, <1>2, <1>3, <1>4, <1>5, RequestCases DEF AskRollback, AskScale

LEMMA EnvironmentFresh ==
  ASSUME MInv, Environment PROVE FreshOK'
<1>1. IInv /\ FreshOK /\ WorldTypeOK /\ ContsKept
  BY MParts, NextKeepsConts DEF Next
<1>2. CASE CrashRestart
  BY <1>2, FreshOver DEF CrashRestart, Done, DeploySteps, SwapSteps, UndoSteps
<1>3. CASE UNCHANGED <<rows, routes, caddy, pc>>
           /\ (pc \in DeploySteps => job'.new = job.new /\ job'.spec = job.spec)
           /\ \A c \in ContIds : conts[c].state # "gone" => conts'[c].state # "gone"
  <2>1. \A i \in RowIds' : i \in RowIds /\ rows'[i].reps = rows[i].reps
    BY <1>3 DEF RowIds
  <2>2. CASE pc \in DeploySteps
    <3>1. pc' \in SwapSteps => OnEdge(job.spec.dom, Upstreams(job.new))
      BY <1>1, <1>3, <2>2 DEF FreshOK
    <3>2. SeqSet(job.new) \subseteq ContIds
      BY <1>1, <2>2, ListedConts
    <3> QED  BY <1>1, <1>3, <2>1, <2>2, <3>1, <3>2, FreshStays DEF OnEdge
  <2>3. CASE pc \notin DeploySteps
    BY <1>3, <2>3, FreshOver
  <2> QED  BY <2>2, <2>3
<1>4. CASE Cancel
  <2>1. UNCHANGED <<rows, conts, routes, caddy, pc>> /\ pc # "idle"
        /\ job' = [job EXCEPT !.live = FALSE]
    BY <1>4 DEF Cancel, world
  <2>2. job \in Job
    BY <1>1, <2>1, JobTyped
  <2>3. job'.new = job.new /\ job'.spec = job.spec
    BY <2>1, <2>2 DEF Job
  <2> QED  BY <1>3, <2>1, <2>3
<1>5. ASSUME NEW c \in ContIds, Die(c) PROVE FreshOK'
  BY <1>1, <1>3, <1>5, MParts, NamesOfTheDead DEF Die, edge
<1> QED  BY <1>2, <1>4, <1>5 DEF Environment

LEMMA FleetFresh ==
  ASSUME MInv, [FleetNext]_all PROVE FreshOK'
<1>1. FInv /\ FInv' /\ IInv' /\ FreshOK
  BY MParts, NextFInv DEF FInv
<1>2. CASE [Next]_vars
  <2>1. CASE Remove
    BY <2>1, FreshOver DEF Remove, RemoveContainers, RemoveRoute, RetireRemoved, Goto, Done,
       DeploySteps, SwapSteps, UndoSteps
  <2>2. CASE UNCHANGED vars
    <3>1. UNCHANGED <<pc, job, rows, conts, routes, caddy>>
      BY <2>2 DEF vars
    <3> QED  BY <1>1, <3>1 DEF FreshOK, Apart, OnEdge, Upstreams, UpstreamOf, RowIds
  <2> QED  BY <1>1, <1>2, <2>1, <2>2, RequestFresh, DeployFresh, EnvironmentFresh DEF Next
<1>3. CASE pc = "idle" /\ UNCHANGED holder
  BY <1>3, FreshOver DEF holder, DeploySteps, SwapSteps, UndoSteps
<1>4. ASSUME NEW a \in Apps, EvacRedeploy(a) PROVE FreshOK'
  <2>1. PICK s : StartDeploy(s, TRUE)
    BY <1>4 DEF EvacRedeploy
  <2>2. pc' = "run" /\ job'.new = <<>>
    BY <2>1 DEF StartDeploy
  <2> QED  BY <1>1, <2>2, FreshBegins
<1>5. ASSUME NEW a \in Apps, EvacGivesUp(a) PROVE FreshOK'
  <2>1. pc = "idle" /\ UNCHANGED pc
    BY <1>5 DEF EvacGivesUp, AbandonDeploy, NextApp, At
  <2> QED  BY <2>1, FreshOver DEF DeploySteps, SwapSteps, UndoSteps
<1> QED  BY <1>1, <1>2, <1>3, <1>4, <1>5, FleetCases

-----------------------------------------------------------------------------
(* Moves keep serving: the replica that is moved *)

\* The operation goes on to its next call, or waits.
LEMMA MoveGoesOn ==
  ASSUME FInv, MoveOK, Working, ContsKept, UNCHANGED rows, NEW l, op' = [op EXCEPT !.at = l],
         (~Healing /\ l # "pick") => op.at # "pick" /\ conts'[op.fresh[1]].state # "gone",
         (~Healing /\ l \in {"drop", "save"}) =>
            /\ routes'[rows[op.row].spec.dom] = Upstreams(Merged)
            /\ caddy'[rows[op.row].spec.dom] = Upstreams(Merged)
  PROVE  MoveOK'
<1>1. /\ op'.row = op.row /\ op'.kind = op.kind /\ op'.at = l /\ op'.reps = op.reps
      /\ op'.todo = op.todo /\ op'.fresh = op.fresh
  BY OpTyped DEF Op
<1>2. Healing' = Healing /\ App' = App /\ Idx' = Idx /\ Merged' = Merged
  BY <1>1 DEF Healing, App, Idx, Merged
<1>3. CASE Healing
  <2>1. Named(App, op.reps) /\ SeqSet(op.reps) \subseteq ContIds
    BY <1>3, WorkTyped DEF MoveOK
  <2>2. \A k \in DOMAIN op.reps :
          conts'[op.reps[k]].app = App /\ (Len(op.reps) > 1 => conts'[op.reps[k]].idx = k)
    BY <2>1, NamedKept
  <2> QED  BY <1>1, <1>2, <1>3, <2>2 DEF MoveOK, Named
<1>4. CASE ~Healing
  <2>1. Len(op.reps) > 1
    BY <1>4 DEF MoveOK
  <2>2. ASSUME l # "pick"
        PROVE  /\ Apart(op.fresh)'
               /\ conts'[op.fresh[1]].app = App /\ conts'[op.fresh[1]].idx = Idx
               /\ conts'[op.fresh[1]].state # "gone"
    <3>1. op.fresh # <<>> /\ op.fresh \in Seq(Nat) /\ SeqSet(op.fresh) \subseteq ContIds
      BY <1>4, <2>2, OpTyped, WorkTyped DEF PlacedApart
    <3>2. op.fresh[1] \in ContIds
      BY <3>1 DEF SeqSet
    <3>3. Apart(op.fresh) /\ conts[op.fresh[1]].app = App /\ conts[op.fresh[1]].idx = Idx
      BY <1>4, <2>2 DEF MoveOK
    <3> QED  BY <1>1, <1>4, <2>2, <3>2, <3>3 DEF Apart, RowIds, ContsKept
  <2>3. ASSUME l # "pick", FlipDone'
        PROVE  OnEdge(rows[op.row].spec.dom, Upstreams(Merged))'
    <3>1. l \in {"drop", "save"}
      BY <1>1, <1>2, <1>4, <2>3 DEF FlipDone
    <3> DEFINE m == Merged
    <3>2. Upstreams(m)' = Upstreams(m)
      BY <1>2, <1>4, <2>3, MergedTyped, UpstreamsKept
    <3> QED  BY <1>1, <1>2, <1>4, <3>1, <3>2 DEF OnEdge
  <2>4. l = "pick" => ~FlipDone'
    BY <1>1 DEF FlipDone
  <2> QED  BY <1>1, <1>2, <1>4, <2>1, <2>2, <2>3, <2>4 DEF MoveOK
<1> QED  BY <1>3, <1>4

LEMMA MoveWaits ==
  ASSUME MInv, UNCHANGED <<rows, routes, caddy, op>>, ContsKept,
         \A c \in ContIds : conts[c].state # "gone" => conts'[c].state # "gone"
  PROVE  MoveOK'
<1>1. FInv /\ MoveOK
  BY MParts
<1>2. CASE Working
  <2>1. op' = [op EXCEPT !.at = op.at]
    BY <1>1, OpTyped DEF Op
  <2>2. ASSUME ~Healing, op.at # "pick" PROVE conts'[op.fresh[1]].state # "gone"
    <3>1. op.fresh # <<>> /\ op.fresh \in Seq(Nat) /\ SeqSet(op.fresh) \subseteq ContIds
      BY <1>1, <1>2, <2>2, OpTyped, WorkTyped DEF PlacedApart
    <3>2. op.fresh[1] \in ContIds
      BY <3>1 DEF SeqSet
    <3> QED  BY <1>1, <1>2, <2>2, <3>2 DEF MoveOK
  <2>3. (~Healing /\ op.at \in {"drop", "save"}) =>
           /\ routes'[rows[op.row].spec.dom] = Upstreams(Merged)
           /\ caddy'[rows[op.row].spec.dom] = Upstreams(Merged)
    BY <1>1, <1>2 DEF MoveOK, FlipDone, OnEdge
  <2> QED  BY <1>1, <1>2, <2>1, <2>2, <2>3, MoveGoesOn
<1>3. CASE ~Working
  BY <1>3 DEF MoveOK, Working
<1> QED  BY <1>2, <1>3

LEMMA MoveOver == ASSUME op'.kind = "none" \/ op'.at = "apps" PROVE MoveOK'
BY DEF MoveOK, Working

LEMMA MoveTurns ==
  ASSUME FInv, MoveOK, Working, ~Healing, NEW reps, Len(reps) = Len(op.reps), NEW failed,
         NextMove(reps, failed)
  PROVE  MoveOK'
<1>1. op \in Op
  BY OpTyped
<1>2. CASE Len(op.todo) = 1
  <2>1. op'.at = "apps"
    BY <1>1, <1>2 DEF NextMove, Op
  <2> QED  BY <2>1, MoveOver
<1>3. CASE Len(op.todo) # 1
  <2>1. op'.at = "pick" /\ op'.reps = reps /\ op'.kind = op.kind
    BY <1>1, <1>3 DEF NextMove, Op
  <2>2. Len(op.reps) > 1
    BY DEF MoveOK
  <2> QED  BY <2>1, <2>2 DEF MoveOK, Healing, FlipDone
<1> QED  BY <1>2, <1>3

\* The posts and the gate of a heal or a move; after a flip the edge has the set
\* that is to be recorded.
LEMMA OpPostMove ==
  ASSUME MInv, OpSetStaging \/ OpGate \/ OpUnstage \/ OpFlip \/ OpUndo PROVE MoveOK'
<1>1. /\ FInv /\ MoveOK /\ WorldTypeOK /\ Working /\ UNCHANGED <<rows, conts>> /\ ContsKept
      /\ op.at # "pick"
  BY MParts, AtWork, Kept DEF OpSetStaging, OpGate, OpUnstage, OpFlip, OpUndo, vars
<1>2. ~Healing => conts'[op.fresh[1]].state # "gone"
  BY <1>1 DEF MoveOK
<1>3. CASE OpFlip
  <2>1. PICK l : OpGoto(l) /\ \/ Applied(MergedRoute, stage)
                              \/ ~Healing => l \notin {"drop", "save"}
    BY <1>3 DEF OpFlip
  <2>2. rows[op.row].spec.dom \in Domains /\ routes \in [Domains -> SUBSET Upstream]
    BY <1>1, RowAtWork, RowTyped DEF WorldTypeOK
  <2>3. Applied(MergedRoute, stage) =>
          /\ routes'[rows[op.row].spec.dom] = Upstreams(Merged)
          /\ caddy'[rows[op.row].spec.dom] = Upstreams(Merged)
    BY <2>2 DEF Applied, MergedRoute
  <2> QED  BY <1>1, <1>2, <2>1, <2>3, MoveGoesOn DEF OpGoto
<1>4. CASE OpSetStaging \/ OpGate \/ OpUnstage \/ OpUndo
  <2>1. PICK l : OpGoto(l) /\ (~Healing => l \notin {"drop", "save"})
    BY <1>4 DEF OpSetStaging, OpGate, OpUnstage, OpUndo
  <2> QED  BY <1>1, <1>2, <2>1, MoveGoesOn DEF OpGoto
<1> QED  BY <1>3, <1>4

\* A heal or a move that ends, or goes on with another replica.
LEMMA OpEndMove ==
  ASSUME MInv, OpDiscard \/ OpSave PROVE MoveOK'
<1>1. FInv /\ MoveOK /\ Working /\ op.at # "pick"
  BY MParts DEF OpDiscard, OpSave, AtEither, Working
<1>2. ASSUME NEW ok, HealEnds(ok) PROVE MoveOK'
  BY <1>2, MoveOver, RestOK DEF HealEnds
<1>3. ASSUME ~Healing, NEW reps \in {op.reps, Merged}, NEW failed, NextMove(reps, failed)
      PROVE  MoveOK'
  <2>1. Len(Merged) = Len(op.reps)
    <3>1. Merged \in Seq(Nat) /\ op.reps \in Seq(Nat) /\ DOMAIN Merged = DOMAIN op.reps
      BY <1>1, MergedTyped, OpTyped
    <3> HIDE DEF Merged
    <3> QED  BY <3>1
  <2> QED  BY <1>1, <1>3, <2>1, MoveTurns
<1> QED  BY <1>2, <1>3 DEF OpDiscard, OpSave

\* A heal names the container it starts by the index of the replica it replaces.
LEMMA HealRunMove ==
  ASSUME MInv, HealRun PROVE MoveOK'
<1>1. /\ FInv /\ MoveOK /\ Working /\ Healing /\ UNCHANGED rows /\ op.at = "run"
      /\ op \in Op /\ op.reps \in Seq(Nat)
  BY MParts, OpTyped DEF HealRun, At, Working, Healing
<1>2. op.todo # <<>>
  BY <1>1, WorkTyped DEF WorkOK
<1>3. /\ Idx \in DOMAIN op.reps /\ NodeOf(Old) \in Nodes /\ op.id \in Nat
      /\ SeqSet(op.reps) \subseteq ContIds /\ Named(App, op.reps)
  BY <1>1, <1>2, TodoTyped, OpTyped, WorkTyped DEF MoveOK
<1>4. CASE op' = [op EXCEPT !.at = "undo"] /\ (UNCHANGED conts \/ RunOn(NodeOf(Old), op.id))
  <2>1. ContsKept
    BY <1>1, <1>2, <1>3, <1>4, Kept, RunOnConts
  <2> QED  BY <1>1, <1>4, <2>1, MoveGoesOn
<1> DEFINE c == Len(conts) + 1
           reps == [op.reps EXCEPT ![Idx] = c]
<1>5. ASSUME RunOn(NodeOf(Old), op.id), NEW l,
             op' = [op EXCEPT !.reps[Idx] = c, !.fresh = Append(@, c), !.todo = Tail(@), !.at = l]
      PROVE  MoveOK'
  <2>1. /\ conts'[c].app = App /\ conts'[c].idx = NameIdx
        /\ \A x \in ContIds : conts'[x] = conts[x]
    BY <1>1, <1>2, <1>3, <1>5, RunOnStarts
  <2>2. op'.reps = reps /\ op'.row = op.row /\ op'.kind = op.kind
    BY <1>1, <1>5 DEF Op
  <2>3. /\ Len(reps) = Len(op.reps) /\ DOMAIN reps = DOMAIN op.reps
        /\ \A k \in DOMAIN op.reps : reps[k] = IF k = Idx THEN c ELSE op.reps[k]
    BY <1>1, <1>3
  <2> HIDE DEF c, reps
  <2>4. ASSUME NEW k \in DOMAIN reps
        PROVE  conts'[reps[k]].app = App /\ (Len(reps) > 1 => conts'[reps[k]].idx = k)
    <3>1. CASE k = Idx
      BY <2>1, <2>3, <3>1 DEF NameIdx
    <3>2. CASE k # Idx
      <4>1. op.reps[k] \in ContIds
        BY <1>3, <2>3 DEF SeqSet
      <4> QED  BY <1>3, <2>1, <2>3, <3>2, <4>1 DEF Named
    <3> QED  BY <3>1, <3>2
  <2>5. App' = App /\ Healing'
    BY <1>1, <2>2 DEF App, Healing
  <2> QED  BY <2>2, <2>4, <2>5 DEF MoveOK, Named
<1> QED  BY <1>4, <1>5 DEF HealRun

\* A move starts a container no row lists.
LEMMA EvacRunMove ==
  ASSUME MInv, EvacRun PROVE MoveOK'
<1>1. /\ FInv /\ MoveOK /\ WorldTypeOK /\ Working /\ ~Healing /\ UNCHANGED rows /\ op.at = "pick"
      /\ op \in Op
  BY MParts, OpTyped DEF EvacRun, At, Working, Healing
<1>2. op.todo # <<>> /\ NewHomes \subseteq Nodes /\ NextDeployID \in Nat /\ Len(op.reps) > 1
  BY <1>1, WorkTyped DEF WorkOK, MoveOK, NewHomes, Candidates, NextDeployID, WorldTypeOK
<1>3. ASSUME NEW failed, NextMove(op.reps, failed) PROVE MoveOK'
  BY <1>1, <1>3, MoveTurns
<1> DEFINE c == Len(conts) + 1
<1>4. ASSUME NEW m \in NewHomes, RunOn(m, NextDeployID), NEW l \in {"stage", "undo"},
             op' = [op EXCEPT !.at = l, !.id = NextDeployID, !.fresh = <<c>>]
      PROVE  MoveOK'
  <2>1. /\ conts'[c].app = App /\ conts'[c].idx = NameIdx /\ conts'[c].state = "running"
        /\ c \notin ContIds
    BY <1>1, <1>2, <1>4, RunOnStarts, RunOnConts
  <2>2. /\ op'.reps = op.reps /\ op'.row = op.row /\ op'.kind = op.kind /\ op'.todo = op.todo
        /\ op'.fresh = <<c>> /\ op'.at = l
    BY <1>1, <1>4 DEF Op
  <2> HIDE DEF c
  <2>3. Apart(op.fresh)'
    <3>1. SeqSet(<<c>>) = {c}
      BY DEF SeqSet
    <3>2. \A i \in RowIds : SeqSet(rows[i].reps) \subseteq ContIds
      BY <1>1 DEF WorldTypeOK
    <3> QED  BY <1>1, <2>1, <2>2, <3>1, <3>2 DEF Apart, RowIds, SeqSet
  <2>4. App' = App /\ Idx' = Idx /\ ~Healing' /\ ~FlipDone' /\ NameIdx = Idx
    BY <1>1, <1>2, <2>2 DEF App, Idx, Healing, FlipDone, NameIdx
  <2>5. op'.fresh[1] = c
    BY <2>2
  <2> QED  BY <1>2, <2>1, <2>2, <2>3, <2>4, <2>5 DEF MoveOK
<1> QED  BY <1>3, <1>4 DEF EvacRun

LEMMA HealRemoveOldMove ==
  ASSUME MInv, HealRemoveOld PROVE MoveOK'
<1>1. FInv /\ MoveOK /\ Working /\ Healing /\ UNCHANGED rows
  BY MParts DEF HealRemoveOld, At, Working, Healing
<1>2. ContsKept
  BY <1>1, Kept, RemoveReachableConts DEF HealRemoveOld
<1>3. \E l : OpGoto(l)
  BY DEF HealRemoveOld
<1> QED  BY <1>1, <1>2, <1>3, MoveGoesOn DEF OpGoto

\* What goes is the replaced replica, not the one that replaces it.
LEMMA EvacRemoveOldMove ==
  ASSUME MInv, EvacRemoveOld PROVE MoveOK'
<1>1. /\ FInv /\ MoveOK /\ NamesUnique /\ Working /\ ~Healing /\ UNCHANGED <<rows, routes, caddy>>
      /\ op.at = "drop" /\ RemoveReachable({Old}) /\ OpGoto("save")
  BY MParts DEF EvacRemoveOld, At, Working, Healing, edge
<1>2. /\ ContsKept /\ op.todo # <<>> /\ op.reps = rows[op.row].reps /\ op.row \in RowIds
      /\ op.fresh # <<>> /\ op.fresh \in Seq(Nat) /\ SeqSet(op.fresh) \subseteq ContIds
  BY <1>1, RemoveReachableConts, WorkTyped, MovesRecorded, OpTyped DEF WorkOK, PlacedApart
<1>3. op.fresh[1] \in ContIds /\ op.fresh[1] \in SeqSet(op.fresh) /\ Old \in SeqSet(op.reps)
  BY <1>1, <1>2, TodoTyped DEF SeqSet
<1>4. op.fresh[1] # Old
  BY <1>1, <1>2, <1>3 DEF MoveOK, Apart
<1>5. conts'[op.fresh[1]].state # "gone"
  BY <1>1, <1>3, <1>4, ReachableLeft DEF MoveOK
<1>6. FlipDone
  BY <1>1 DEF FlipDone
<1> QED  BY <1>1, <1>2, <1>5, <1>6, MoveGoesOn DEF OpGoto, MoveOK, OnEdge

LEMMA HealStartMove ==
  ASSUME MInv, HealStart PROVE MoveOK'
<1>1. /\ UNCHANGED <<rows, conts>> /\ loop.row \in RowIds /\ NoOp \in Op
      /\ Named(rows[loop.row].app, rows[loop.row].reps)
      /\ op' = [NoOp EXCEPT !.kind = "heal", !.at = "pick", !.row = loop.row, !.id = NextDeployID,
                            !.reps = rows[loop.row].reps, !.todo = InOrder(loop.idx)]
  BY MParts, FleetParts, RestOK DEF HealStart, LoopOK, vars
<1>2. op'.kind = "heal" /\ op'.row = loop.row /\ op'.reps = rows[loop.row].reps
  BY <1>1 DEF Op
<1>3. Healing' /\ App' = rows[loop.row].app
  BY <1>1, <1>2 DEF Healing, App
<1> QED  BY <1>1, <1>2, <1>3 DEF MoveOK, Named

LEMMA EvacReplicasMove ==
  ASSUME MInv, NEW a \in Apps, EvacReplicas(a) PROVE MoveOK'
<1> DEFINE cur == CurrentDeployment(a)
<1>1. /\ op \in Op /\ op.kind = "evac" /\ Len(rows[cur].reps) > 1
      /\ op' = [op EXCEPT !.apps = @ \ {a}, !.at = "pick", !.failed = @ \/ Unmoved, !.row = cur,
                          !.reps = rows[cur].reps, !.todo = InOrder(AffectedIdx(a, op.node))]
  BY MParts, OpTyped DEF EvacReplicas, NextApp, At, IsPair
<1>2. op'.kind = "evac" /\ op'.at = "pick" /\ op'.reps = rows[cur].reps
  BY <1>1 DEF Op
<1> QED  BY <1>1, <1>2 DEF MoveOK, Healing, FlipDone

\* BlueGreen's steps, the loop and the nodes leave it alone.
LEMMA MoveUndisturbed ==
  ASSUME MInv, UNCHANGED op,
         FleetRequest \/ FleetDeploy \/ FleetEnvironment \/ UNCHANGED vars
  PROVE  MoveOK'
<1>1. FInv /\ MoveOK /\ WorldTypeOK /\ NamesUnique
  BY MParts
<1>2. CASE ~Working
  BY <1>2 DEF MoveOK, Working
<1>3. CASE Working
  <2>1. pc = "idle" /\ op # NoOp
    BY <1>1, <1>3, WorkTyped, RestOK DEF Working
  <2>2. \/ UNCHANGED <<rows, conts, routes, caddy>>
        \/ \E c \in ContIds : Die(c)
        \/ op' = NoOp
    BY <2>1 DEF FleetRequest, Free, AskRollback, AskScale, world, FleetDeploy, Deploy, Remove,
       RunReplica, RunReplicaFails, SetStaging, HealthGate, Flip, RemoveStaging, RetireOldSet,
       RetireOldRow, RecordRunning, UndoStaging, Discard, RecordFailed, RemoveContainers,
       RemoveRoute, RetireRemoved, FleetEnvironment, Cancel, vars
  <2>3. CASE UNCHANGED <<rows, conts, routes, caddy>>
    BY <1>1, <2>3, Kept, MoveWaits
  <2>4. ASSUME NEW c \in ContIds, Die(c) PROVE MoveOK'
    <3>1. ContsKept /\ UNCHANGED <<rows, routes, caddy>>
      BY <1>1, <2>4, DeadConts DEF Die, edge
    <3> QED  BY <1>1, <2>4, <3>1, NamesOfTheDead, MoveWaits
  <2> QED  BY <2>1, <2>2, <2>3, <2>4
<1> QED  BY <1>2, <1>3

LEMMA FleetMove ==
  ASSUME MInv, [FleetNext]_all PROVE MoveOK'
<1>1. op \in Op /\ NoOp \in Op
  BY MParts, OpTyped, RestOK
<1>2. CASE Common \/ Heal \/ EvacRun \/ EvacRemoveOld
  BY <1>2, OpPostMove, OpEndMove, HealRemoveOldMove, HealRunMove, EvacRunMove, EvacRemoveOldMove
     DEF Common, Heal
<1>3. CASE HealStart \/ \E a \in Apps : EvacReplicas(a)
  BY <1>3, HealStartMove, EvacReplicasMove
<1>4. CASE EvacEnd \/ \E n, byLoop : EvacStart(n, byLoop)
  <2>1. op'.kind = "none" \/ op'.at = "apps"
    BY <1>1, <1>4, RestOK DEF EvacEnd, EvacStart, Op
  <2> QED  BY <2>1, MoveOver
<1>5. ASSUME NEW a \in Apps, EvacRedeploy(a) \/ EvacGivesUp(a) PROVE MoveOK'
  <2>1. op'.at = "apps"
    BY <1>1, <1>5 DEF EvacRedeploy, EvacGivesUp, NextApp, At, Op
  <2> QED  BY <2>1, MoveOver
<1>6. CASE FleetRequest \/ FleetDeploy \/ FleetEnvironment
  <2>1. UNCHANGED op \/ op' = NoOp
    BY <1>6, FleetRequestIsRequest DEF FleetDeploy, FleetEnvironment, fleet
  <2>2. CASE op' = NoOp
    BY <2>2, MoveOver, RestOK
  <2> QED  BY <1>6, <2>1, <2>2, MoveUndisturbed
<1>7. CASE \/ UNCHANGED all \/ LoopProbe \/ LoopLocks
           \/ \E a \in Apps : LoopRead(a) \/ BackoffElapses(a)
           \/ \E n \in Managed : LoopNode(n) \/ Cordon(n) \/ Evacuate(n)
                                   \/ Uncordon(n) \/ GoAway(n) \/ ComeBack(n)
  <2>1. \/ UNCHANGED vars /\ UNCHANGED op
        \/ HealStart \/ \E n, byLoop : EvacStart(n, byLoop)
    BY <1>7 DEF all, fleet, LoopProbe, LoopLocks, LoopClear, HealSkip, EvacFailover, Evacuate,
       LoopRead, BackoffElapses, LoopNode, Cordon, Uncordon, GoAway, ComeBack
  <2> QED  BY <1>3, <1>4, <2>1, MoveUndisturbed
<1> QED  BY <1>2, <1>3, <1>4, <1>5, <1>6, <1>7 DEF FleetNext, Operation, Evac

-----------------------------------------------------------------------------
(* Moves keep serving: the theorem *)

LEMMA InitMInv == FleetInit => MInv
<1> SUFFICES ASSUME FleetInit PROVE MInv
  OBVIOUS
<1>1. FInv /\ RInv
  BY InitFInv, InitRInv DEF FleetInit
<1>2. rows = <<>> /\ conts = <<>> /\ pc = "idle" /\ ~Working
  BY DEF FleetInit, Init, WorldInit, Working, NoOp
<1>3. NamesUnique /\ \A i \in RowIds : Named(rows[i].app, rows[i].reps)
  BY <1>2 DEF NamesUnique, ContIds, RowIds
<1>4. FreshOK /\ MoveOK
  BY <1>2 DEF FreshOK, MoveOK, DeploySteps, SwapSteps, UndoSteps
<1> QED  BY <1>1, <1>3, <1>4 DEF MInv, RInv

LEMMA NextMInv == MInv /\ [FleetNext]_all => MInv'
<1> SUFFICES ASSUME MInv, [FleetNext]_all PROVE MInv'
  OBVIOUS
<1>1. FInv' /\ SpecsAreSubmitted'
  BY MParts, NextFInv, FleetSpecs
<1>2. NamesUnique' /\ (\A i \in RowIds : Named(rows[i].app, rows[i].reps))'
  BY FleetNames, FleetNamed
<1>3. FreshOK' /\ MoveOK'
  BY FleetFresh, FleetMove
<1> QED  BY <1>1, <1>2, <1>3 DEF MInv

\* A deploy that retires the set of its app's old row has its candidate alone on
\* the domain.
LEMMA RetiredUnserved ==
  ASSUME OneDomain, MInv, pc = "retire", UNCHANGED caddy, NEW i \in RowIds, rows[i].app = job.app,
         NEW c \in SeqSet(rows[i].reps), conts[c].state # "gone"
  PROVE  UpstreamOf(c) \notin caddy'[rows[i].spec.dom]
<1>1. /\ IInv /\ SpecsAreSubmitted /\ FreshOK /\ NamesUnique /\ CandidateOK
      /\ pc \in DeploySteps /\ pc \in SwapSteps /\ pc # "fail"
  BY MParts DEF IInv, HolderOK, DeploySteps, SwapSteps
<1>2. rows[i].spec.dom = job.spec.dom
  <2>1. /\ From(rows[i].spec) /\ From(job.spec) /\ rows[i].spec.app = job.app
        /\ job.spec.app = job.app
    BY <1>1 DEF SpecsAreSubmitted, CandidateOK
  <2> QED  BY <2>1 DEF From, OneDomain
<1>3. caddy'[job.spec.dom] = Upstreams(job.new)
  BY <1>1 DEF FreshOK, OnEdge
<1>4. ASSUME NEW k \in DOMAIN job.new PROVE UpstreamOf(job.new[k]) # UpstreamOf(c)
  <2>1. job.new[k] \in ContIds /\ c \in ContIds /\ job.new[k] \in SeqSet(job.new)
    BY <1>1, ListedConts DEF SeqSet
  <2>2. conts[job.new[k]].state # "gone" /\ job.new[k] # c
    BY <1>1, <2>1 DEF FreshOK, Apart
  <2> QED  BY <1>1, <2>1, <2>2, UpstreamIsOne
<1> QED  BY <1>2, <1>3, <1>4 DEF Upstreams

\* The replica that is moved has been replaced on the domain by then.
LEMMA MovedUnserved ==
  ASSUME MInv, Working, ~Healing, op.at = "drop", UNCHANGED caddy, conts[Old].state # "gone"
  PROVE  UpstreamOf(Old) \notin caddy'[rows[op.row].spec.dom]
<1>1. /\ FInv /\ NamesUnique /\ MoveOK /\ FlipDone /\ op.row \in RowIds
      /\ Named(rows[op.row].app, rows[op.row].reps) /\ op.reps = rows[op.row].reps
  BY MParts, MovesRecorded, RowAtWork DEF FlipDone
<1>2. /\ op.todo # <<>> /\ op.fresh # <<>> /\ op.fresh \in Seq(Nat)
      /\ SeqSet(op.fresh) \subseteq ContIds /\ SeqSet(op.reps) \subseteq ContIds
      /\ op.reps \in Seq(Nat)
  BY <1>1, WorkTyped, OpTyped DEF WorkOK, PlacedApart
<1>3. Idx \in DOMAIN op.reps /\ Old \in ContIds /\ Old \in SeqSet(op.reps)
  BY <1>1, <1>2, TodoTyped
<1>4. caddy'[rows[op.row].spec.dom] = Upstreams(Merged) /\ Len(op.reps) > 1
  BY <1>1 DEF MoveOK, OnEdge
<1>5. ASSUME NEW k \in DOMAIN Merged PROVE UpstreamOf(Merged[k]) # UpstreamOf(Old)
  <2>1. k \in DOMAIN op.reps
    BY <1>1, <1>5, MergedTyped
  <2>2. CASE k = Idx
    <3>1. Merged[k] = op.fresh[1]
      BY <1>3, <2>2 DEF Merged
    <3>2. op.fresh[1] \in ContIds /\ op.fresh[1] \in SeqSet(op.fresh)
      BY <1>2 DEF SeqSet
    <3>3. conts[op.fresh[1]].state # "gone" /\ op.fresh[1] # Old
      BY <1>1, <1>3, <3>2 DEF MoveOK, Apart
    <3> QED  BY <1>1, <1>3, <3>1, <3>2, <3>3, UpstreamIsOne
  <2>3. CASE k # Idx
    <3>1. Merged[k] = op.reps[k] /\ op.reps[k] \in ContIds
      BY <1>2, <2>1, <2>3 DEF Merged, SeqSet
    <3>2. conts[op.reps[k]].idx = k /\ conts[Old].idx = Idx
      BY <1>1, <1>3, <1>4, <2>1 DEF Named, Old
    <3> QED  BY <1>3, <2>3, <3>1, <3>2, IndexesDiffer
  <2> QED  BY <2>2, <2>3
<1> QED  BY <1>4, <1>5 DEF Upstreams

\* Who takes away a running replica of a current row, but for a removal or a heal.
LEMMA WhoTakesAway ==
  ASSUME MInv, [FleetNext]_all, pc \notin RemoveSteps, ~Healing,
         NEW i \in RowIds, NEW c \in SeqSet(rows[i].reps),
         conts[c].state = "running", conts'[c].state = "gone"
  PROVE  \/ pc = "retire" /\ UNCHANGED caddy /\ conts[c].app = job.app
         \/ Working /\ op.at = "drop" /\ UNCHANGED caddy /\ c = Old
<1>1. /\ FInv /\ IInv /\ WorldTypeOK /\ NamesUnique /\ FreshOK /\ MoveOK
      /\ \A j \in RowIds : Named(rows[j].app, rows[j].reps)
      /\ c \in ContIds /\ conts \in Seq(Container) /\ conts' # conts
  BY MParts, ListedConts DEF WorldTypeOK
<1>2. CASE [Next]_vars
  <2>1. ASSUME NEW cs, conts' = WithoutConts(cs) PROVE c \in cs
    BY <1>1, <2>1 DEF WithoutConts
  <2>2. ~(\E d \in ContIds : Die(d)) /\ ~StartContainer
    <3>1. conts'[c].state = "gone" /\ \A d \in ContIds : conts[d] \in Container
      BY <1>1 DEF ContIds
    <3>2. ASSUME NEW d \in ContIds, Die(d) PROVE FALSE
      <4>1. conts'[c] = IF c = d THEN [conts[d] EXCEPT !.state = "dead"] ELSE conts[c]
        BY <1>1, <3>2 DEF Die, ContIds
      <4>2. [conts[d] EXCEPT !.state = "dead"].state = "dead"
        BY <3>1 DEF Container
      <4> QED  BY <3>1, <4>1, <4>2
    <3>3. ~StartContainer
      BY <1>1, <3>1 DEF StartContainer, ContIds
    <3> QED  BY <3>2, <3>3
  <2>3. PICK cs : /\ conts' = WithoutConts(cs)
                  /\ \/ /\ pc = "retire" /\ UNCHANGED edge
                        /\ CurrentDeployment(job.app) # 0
                        /\ cs \subseteq SeqSet(rows[CurrentDeployment(job.app)].reps)
                     \/ pc = "discard" /\ cs \subseteq SeqSet(job.new)
    BY <1>1, <1>2, <2>2, ContsMove DEF RemoveSteps
  <2>4. pc # "discard" \/ c \notin SeqSet(job.new)
    BY <1>1 DEF FreshOK, Apart, DeploySteps, UndoSteps
  <2>5. ASSUME CurrentDeployment(job.app) # 0,
               c \in SeqSet(rows[CurrentDeployment(job.app)].reps)
        PROVE  conts[c].app = job.app
    BY <1>1, <2>5, CurrentRow DEF Named, SeqSet, WithStatus
  <2> QED  BY <2>1, <2>3, <2>4, <2>5 DEF edge
<1>3. CASE (Common \/ Heal \/ EvacRun \/ EvacRemoveOld) /\ Working
  <2>1. ASSUME NEW cs, RemoveReachable(cs) PROVE c \in cs
    BY <1>1, <2>1, ReachableLeft
  <2>2. CASE EvacRemoveOld
    BY <1>3, <2>1, <2>2 DEF EvacRemoveOld, At, edge
  <2>3. CASE OpDiscard
    <3>1. c \in SeqSet(op.fresh) /\ op.at = "discard"
      BY <2>1, <2>3 DEF OpDiscard, AtEither
    <3> QED  BY <1>1, <1>3, <3>1 DEF MoveOK, Apart
  <2>4. CASE EvacRun
    <3>1. op.at = "pick" /\ op.todo # <<>>
      BY <1>1, <1>3, <2>4, WorkTyped DEF EvacRun, At, WorkOK
    <3>2. NewHomes \subseteq Nodes /\ NextDeployID \in Nat
      BY <1>1 DEF NewHomes, Candidates, NextDeployID, WorldTypeOK
    <3> QED  BY <1>1, <1>3, <2>4, <3>1, <3>2, RunOnStarts DEF EvacRun
  <2>5. CASE \/ OpSetStaging \/ OpGate \/ OpUnstage \/ OpFlip \/ OpUndo \/ OpSave
             \/ HealRemoveOld \/ HealRun
    BY <1>1, <2>5 DEF OpSetStaging, OpGate, OpUnstage, OpFlip, OpUndo, OpSave, HealRemoveOld,
       HealRun, At, Healing, vars
  <2> QED  BY <1>3, <2>2, <2>3, <2>4, <2>5 DEF Common, Heal
<1>4. CASE \E a \in Apps : EvacRedeploy(a) \/ EvacGivesUp(a)
  BY <1>1, <1>4 DEF EvacRedeploy, EvacGivesUp, StartDeploy, AbandonDeploy
<1> QED  BY <1>1, <1>2, <1>3, <1>4, FleetCases

\* The inductive invariant of MovesServe: rows list their app's containers by index,
\* and a candidate or a replacement is in no row, bears a name of its own, and has
\* its domain to itself from the flip on (deployReplicaSet, evacuateReplicasLocked).
THEOREM MoveInductive == FleetSpec => []MInv
<1>1. MInv /\ [FleetNext]_all => MInv'
  BY NextMInv
<1> QED  BY <1>1, InitMInv, PTL DEF FleetSpec

\* No step of a deploy, a move or a failover takes away a running replica of a
\* current deployment while Caddy goes on sending its domain to it: whatever call
\* fails, half done or not, the store's included, whoever hangs up, and wherever
\* the daemon crashes.  An app does not change its domain: the route of the one it
\* gives up would stay.
THEOREM MovesServe == ASSUME OneDomain PROVE FleetSpec => MovesKeepServing
<1> DEFINE Served0 ==
      \A a \in Apps : \A c \in Replicas(a) :
        ( /\ pc \notin RemoveSteps /\ ~Healing
          /\ conts[c].state = "running" /\ conts'[c].state = "gone" )
        => UpstreamOf(c) \notin caddy'[rows[CurrentDeployment(a)].spec.dom]
<1>1. ASSUME MInv, [FleetNext]_all PROVE Served0
  <2> SUFFICES ASSUME NEW a \in Apps, NEW c \in Replicas(a), pc \notin RemoveSteps, ~Healing,
                      conts[c].state = "running", conts'[c].state = "gone"
               PROVE  UpstreamOf(c) \notin caddy'[rows[CurrentDeployment(a)].spec.dom]
    OBVIOUS
  <2> DEFINE i == CurrentDeployment(a)
  <2>1. i # 0 /\ c \in SeqSet(rows[i].reps) /\ FInv /\ WorldTypeOK
    BY <1>1, MParts DEF Replicas
  <2>2. i \in RowIds /\ rows[i].app = a
    BY <2>1, CurrentRow DEF WithStatus
  <2>3. conts[c].app = a
    BY <1>1, <2>1, <2>2, MParts DEF Named, SeqSet
  <2>4. CASE pc = "retire" /\ UNCHANGED caddy /\ conts[c].app = job.app
    BY <1>1, <2>1, <2>2, <2>3, <2>4, RetiredUnserved
  <2>5. CASE Working /\ op.at = "drop" /\ UNCHANGED caddy /\ c = Old
    <3>1. App = a
      <4>1. op.row \in RowIds /\ op.reps = rows[op.row].reps /\ op.todo # <<>>
        BY <2>1, <2>5, RowAtWork, MovesRecorded, WorkTyped DEF WorkOK
      <4>2. Old \in SeqSet(rows[op.row].reps)
        BY <2>1, <2>5, <4>1, TodoTyped
      <4> QED  BY <1>1, <2>3, <2>5, <4>1, <4>2, MParts DEF Named, SeqSet, App
    <3>2. i = op.row
      BY <2>1, <2>5, <3>1, WorkTyped DEF WorkOK
    <3> QED  BY <1>1, <2>5, <3>2, MovedUnserved
  <2> QED  BY <1>1, <2>1, <2>2, <2>4, <2>5, WhoTakesAway
<1> QED  BY <1>1, MoveInductive, PTL DEF FleetSpec, MovesKeepServing

-----------------------------------------------------------------------------
(* A change is one step, heals and moves included (RollsOut)               *)

\* What serves a, without a look at Caddy.
FleetLive(a) ==
  IF FlipDone /\ App = a THEN Generation(op.row, rows[op.row].spec, Upstreams(Merged)) ELSE LiveIn(a)

LEMMA FleetLiveIs == FRInv => \A a \in Apps : LiveOf(a) = FleetLive(a)
<1> SUFFICES ASSUME FRInv, NEW a \in Apps PROVE LiveOf(a) = FleetLive(a)
  OBVIOUS
<1>1. FInv /\ WorldTypeOK /\ FleetEdge /\ caddy = routes
  BY FRParts
<1>2. CASE ~FlipDone
  BY <1>2, Unflipped, LiveIs DEF FleetLive
<1>3. CASE FlipDone
  <2>1. pc = "idle" /\ Working /\ ~Swapping(a)
    BY <1>1, <1>3, FlipDoneIsWork DEF Swapping, SwapSteps
  <2>2. op.row \in RowIds /\ rows[op.row].app = App /\ CurrentDeployment(App) = op.row /\ op.row # 0
    BY <1>1, <2>1, RowAtWork, WorkTyped DEF WorkOK, WorldTypeOK, RowIds
  <2>3. CASE App = a
    BY <1>1, <1>3, <2>1, <2>2, <2>3 DEF FleetEdge, LiveOf, FleetLive
  <2>4. CASE App # a
    <3> DEFINE cur == CurrentDeployment(a)
    <3>1. FleetLive(a) = RecordedOf(a)
      BY <2>1, <2>4 DEF FleetLive, LiveIn
    <3>2. CASE cur = 0
      BY <2>1, <3>1, <3>2 DEF LiveOf, RecordedOf
    <3>3. CASE cur # 0
      <4>1. cur \in RowIds /\ rows[cur].status = "running" /\ rows[cur].app = a
        BY <1>1, <3>3, CurrentRow DEF WithStatus
      <4>2. cur # op.row
        BY <2>2, <2>4, <4>1
      <4> HIDE DEF cur
      <4>3. rows[cur].spec.dom # NoDomain => caddy[rows[cur].spec.dom] = Upstreams(rows[cur].reps)
        BY <1>1, <2>1, <4>1, <4>2 DEF FleetEdge
      <4>4. Generation(cur, rows[cur].spec, caddy[rows[cur].spec.dom])
              = Generation(cur, rows[cur].spec, Upstreams(rows[cur].reps))
        BY <4>3 DEF Generation
      <4> QED  BY <2>1, <3>1, <3>3, <4>4 DEF LiveOf, RecordedOf, cur
    <3> QED  BY <3>2, <3>3
  <2> QED  BY <2>3, <2>4
<1> QED  BY <1>2, <1>3

LEMMA FleetLiveIsAfter == FRInv' => (\A a \in Apps : LiveOf(a) = FleetLive(a))'
BY FleetLiveIs, PTL

LEMMA UnflippedThen == FRInv' /\ ~FlipDone' => RInv'
<1>1. FRInv /\ ~FlipDone => RInv
  BY Unflipped
<1> QED  BY <1>1, PTL

\* With r.mu in the hands of a heal or a move, what serves changes with the window only.
LEMMA IdleStutters ==
  ASSUME FRInv, FRInv', ContsKept, pc = "idle", pc' = "idle", UNCHANGED rows,
         FlipDone' <=> FlipDone, FlipDone => op'.row = op.row /\ Merged' = Merged
  PROVE  Stutter
<1>1. FInv /\ IInv
  BY FRParts
<1>2. (\A a : RecordedOf(a)' = RecordedOf(a)) /\ Past' = Past
  BY <1>1, TableUnchanged, TableRecords
<1>3. ASSUME NEW a \in Apps PROVE LiveIn(a) = RecordedOf(a) /\ LiveIn(a)' = RecordedOf(a)
  BY <1>2 DEF LiveIn, Swapping, SwapSteps
<1>4. ASSUME NEW a \in Apps PROVE FleetLive(a)' = FleetLive(a)
  <2>1. CASE ~FlipDone
    BY <1>3, <2>1 DEF FleetLive
  <2>2. CASE FlipDone
    <3>1. SeqSet(Merged) \subseteq ContIds
      BY <1>1, <2>2, FlipDoneIsWork, MergedTyped
    <3> DEFINE s == Merged
    <3>2. Upstreams(s)' = Upstreams(s)
      BY <2>2, <3>1, UpstreamsKept
    <3>3. App' = App
      BY <2>2 DEF App
    <3> QED  BY <1>3, <2>2, <3>2, <3>3 DEF FleetLive, Generation
  <2> QED  BY <2>1, <2>2
<1>5. ASSUME NEW a \in Apps PROVE LiveOf(a)' = LiveOf(a)
  BY <1>4, FleetLiveIs, FleetLiveIsAfter
<1> QED  BY <1>2, <1>5 DEF Stutter, Live, Recorded

LEMMA Refits ==
  ASSUME NEW a \in Apps, \A b \in Apps : LiveOf(b) = RecordedOf(b),
         \A b \in Apps \ {a} : LiveOf(b)' = LiveOf(b),
         LiveOf(a) # NoGeneration, LiveOf(a)' # NoGeneration,
         NEW us, LiveOf(a)' = [LiveOf(a) EXCEPT !.ups = us], LiveOf(a)'.ups = us,
         \A b \in Apps : RecordedOf(b)' = RecordedOf(b), Past' = Past
  PROVE  Promise!Next
<1>1. Live' = [Live EXCEPT ![a].ups = Live'[a].ups]
  <2>1. Live'[a].ups = us
    BY DEF Live
  <2>2. \A b \in Apps : LiveOf(b)' = IF b = a THEN [LiveOf(a) EXCEPT !.ups = us] ELSE LiveOf(b)
    OBVIOUS
  <2> QED  BY <2>1, <2>2 DEF Live
<1>2. Promise!Refit(a)
  BY <1>1 DEF Promise!Refit, Promise!Settled, Live, Past
<1> QED  BY <1>2 DEF Promise!Next

\* The flip of a heal or a move: the same generation, served by the merged set.
LEMMA OpFlipRefits ==
  ASSUME FRInv, FRInv', OpFlip, Applied(MergedRoute, stage),
         OpGoto(IF Healing THEN "unstage" ELSE "drop")
  PROVE  Promise!Next
<1>1. /\ Working /\ op.at = "flip" /\ pc = "idle" /\ pc' = "idle" /\ UNCHANGED <<rows, conts>>
      /\ FInv /\ IInv /\ WorldTypeOK
  BY AtWork, FRParts DEF OpFlip, holder
<1>2. ContsKept /\ ~FlipDone
  BY <1>1, Kept DEF FlipDone
<1>3. /\ op'.row = op.row /\ Merged' = Merged /\ Working' /\ (Healing' <=> Healing)
      /\ op'.at = (IF Healing THEN "unstage" ELSE "drop")
  BY <1>1, OpMerged
<1>4. FlipDone'
  BY <1>3 DEF FlipDone
<1>5. /\ \A b : RecordedOf(b)' = RecordedOf(b)
      /\ Past' = Past
  BY <1>1, <1>2, TableUnchanged, TableRecords
<1>6. \A b \in Apps : LiveOf(b) = RecordedOf(b) /\ LiveIn(b)' = RecordedOf(b)'
  BY <1>1, <1>2, FleetLiveIs DEF FleetLive, LiveIn, Swapping, SwapSteps
<1>7. PICK a : a = App
  OBVIOUS
<1>8. a \in Apps /\ App' = a /\ op.row # 0 /\ CurrentDeployment(a) = op.row
  BY <1>1, <1>3, <1>7, WorkTyped DEF App, WorkOK, WorldTypeOK, RowIds
<1>9. LiveOf(a)' = Generation(op.row, rows[op.row].spec, Upstreams(Merged))
  <2>1. SeqSet(Merged) \subseteq ContIds
    BY <1>1, MergedTyped
  <2> DEFINE s == Merged
  <2>2. Upstreams(s)' = Upstreams(s)
    BY <1>1, <1>2, <1>3, <2>1, UpstreamsKept
  <2> QED  BY <1>1, <1>3, <1>4, <1>8, <2>2, FleetLiveIsAfter DEF FleetLive, Generation
<1>10. ASSUME NEW b \in Apps \ {a} PROVE LiveOf(b)' = LiveOf(b)
  BY <1>5, <1>6, <1>8, <1>10, FleetLiveIsAfter DEF FleetLive
<1>11. LiveOf(a) = Generation(op.row, rows[op.row].spec, Upstreams(rows[op.row].reps))
  BY <1>6, <1>8 DEF RecordedOf
<1>12. LiveOf(a) # NoGeneration /\ LiveOf(a)' # NoGeneration
  BY <1>8, <1>9, <1>11 DEF Generation, NoGeneration
<1>13. PICK us : us = LiveOf(a)'.ups
  OBVIOUS
<1>14. LiveOf(a)' = [LiveOf(a) EXCEPT !.ups = us]
  BY <1>9, <1>11, <1>13 DEF Generation
<1> QED  BY <1>5, <1>6, <1>8, <1>10, <1>12, <1>13, <1>14, Refits

\* The save that follows it.
LEMMA OpSaveRecords ==
  ASSUME FRInv, FRInv', OpSave, UpdateReplicas PROVE Promise!Next \/ Stutter
<1>1. /\ Working /\ op.at = "save" /\ pc = "idle" /\ pc' = "idle" /\ UNCHANGED conts
      /\ FInv /\ IInv /\ WorldTypeOK
  BY AtWork, FRParts DEF OpSave, holder
<1>2. FlipDone /\ ContsKept /\ ~FlipDone'
  BY <1>1, Kept, OutOfWindow DEF OpSave, FlipDone
<1>3. Merged \in Seq(Nat) /\ SeqSet(Merged) \subseteq ContIds /\ op.row \in RowIds
  BY <1>1, MergedTyped, RowAtWork
<1>4. PICK reps, k : reps = Merged /\ k = op.row
  OBVIOUS
<1>5. reps \in Seq(Nat) /\ k \in RowIds /\ rows' = [rows EXCEPT ![k].reps = reps]
  BY <1>3, <1>4 DEF UpdateReplicas
<1>6. /\ RowIds' = RowIds /\ rows'[k].reps = reps
      /\ \A i \in RowIds : i # k => rows'[i] = rows[i]
      /\ \A a : CurrentDeployment(a)' = CurrentDeployment(a)
      /\ \A i \in RowIds : rows'[i].status = rows[i].status /\ rows'[i].spec = rows[i].spec
  BY <1>1, <1>5, ReplicasUpdated
<1>7. PICK a : a = App
  OBVIOUS
<1>8. /\ a \in Apps /\ k # 0 /\ CurrentDeployment(a) = k /\ rows[k].app = a
      /\ rows[k].status = "running"
  BY <1>1, <1>4, <1>5, <1>7, WorkTyped, RowAtWork DEF App, WorkOK, WorldTypeOK, RowIds
<1>9. LiveOf(a) = Generation(k, rows[k].spec, Upstreams(reps))
  BY <1>2, <1>4, <1>7, <1>8, FleetLiveIs DEF FleetLive
<1>10. RecordedOf(a)' = LiveOf(a)
  <2>1. Upstreams(reps)' = Upstreams(reps)
    BY <1>1, <1>2, <1>3, <1>4, UpstreamsKept
  <2>2. Upstreams(rows[k].reps)' = Upstreams(reps)
    BY <1>6, <2>1
  <2>3. CurrentDeployment(a)' = k /\ rows'[k].spec = rows[k].spec
    BY <1>5, <1>6, <1>8
  <2> QED  BY <1>8, <1>9, <2>2, <2>3 DEF RecordedOf, Generation
<1>11. ASSUME NEW b \in Apps \ {a} PROVE RecordedOf(b)' = RecordedOf(b) /\ LiveOf(b) = RecordedOf(b)
  <2>1. PICK c : c = CurrentDeployment(b)
    OBVIOUS
  <2>2. CurrentDeployment(b)' = c
    BY <1>6, <2>1
  <2>3. c # 0 => rows'[c].spec = rows[c].spec /\ rows'[c].reps = rows[c].reps
    <3>1. c # 0 => c \in RowIds /\ rows[c].app = b
      BY <1>1, <2>1, CurrentRow DEF WithStatus
    <3> QED  BY <1>6, <1>8, <1>11, <3>1
  <2>4. RecordedOf(b)' = RecordedOf(b)
    BY <1>1, <1>2, <2>1, <2>2, <2>3, RecordedKept
  <2>5. LiveOf(b) = RecordedOf(b)
    BY <1>1, <1>7, <1>11, FleetLiveIs DEF FleetLive, LiveIn, Swapping, SwapSteps
  <2> QED  BY <2>4, <2>5
<1>12. \A b \in Apps : LiveOf(b)' = RecordedOf(b)'
  BY <1>1, <1>2, FleetLiveIsAfter DEF FleetLive, LiveIn, Swapping, SwapSteps
<1>13. \A b \in Apps : LiveOf(b)' = LiveOf(b)
  BY <1>10, <1>11, <1>12
<1>14. Past' = Past /\ Past = Past \cup {LiveOf(a).gen}
  <2>1. LiveOf(a).gen = k
    BY <1>9 DEF Generation
  <2> QED  BY <1>5, <1>6, <1>8, <2>1 DEF Past
<1>15. CASE LiveOf(a) = RecordedOf(a)
  BY <1>8, <1>10, <1>11, <1>13, <1>14, <1>15 DEF Stutter, Live, Recorded
<1>16. CASE LiveOf(a) # RecordedOf(a)
  <2>1. LiveOf(a) # NoGeneration
    BY <1>8, <1>9 DEF Generation, NoGeneration
  <2> QED  BY <1>8, <1>10, <1>11, <1>13, <1>14, <1>16, <2>1, RecordsLive
<1> QED  BY <1>15, <1>16

\* Every other call of a heal or a move is on one side of the window.
LEMMA WindowKept ==
  ASSUME "ambiguous" \notin Faults, "store" \notin Faults, FRInv,
         Common \/ Heal \/ EvacRun \/ EvacRemoveOld
  PROVE  \/ OpFlip /\ Applied(MergedRoute, stage) /\ OpGoto(IF Healing THEN "unstage" ELSE "drop")
         \/ OpSave /\ UpdateReplicas
         \/ /\ UNCHANGED rows /\ (FlipDone' <=> FlipDone)
            /\ FlipDone => op'.row = op.row /\ Merged' = Merged
<1>1. /\ FInv /\ op \in Op
      /\ Working
  BY FRParts, FleetParts, AtWork DEF Common, OpSetStaging, OpGate, OpUnstage, OpFlip, OpUndo, OpDiscard,
     OpSave, Heal, HealRemoveOld, HealRun, EvacRun, EvacRemoveOld, At, Working
<1>2. ASSUME NEW l, OpGoto(l), l # "apps",
             FlipDone <=> l \in (IF Healing THEN {"unstage", "save"} ELSE {"drop", "save"})
      PROVE  (FlipDone' <=> FlipDone) /\ (FlipDone => op'.row = op.row /\ Merged' = Merged)
  BY <1>1, <1>2, OpMerged DEF FlipDone
<1>3. CASE OpSetStaging \/ OpGate \/ OpUnstage \/ OpUndo \/ HealRemoveOld \/ EvacRemoveOld
  <2>1. UNCHANGED rows
    BY <1>3 DEF OpSetStaging, OpGate, OpUnstage, OpUndo, HealRemoveOld, EvacRemoveOld, vars
  <2>2. \E l : /\ OpGoto(l) /\ l # "apps"
               /\ FlipDone <=> l \in (IF Healing THEN {"unstage", "save"} ELSE {"drop", "save"})
    BY <1>1, <1>3 DEF OpSetStaging, OpGate, OpUnstage, OpUndo, HealRemoveOld, EvacRemoveOld,
       FlipDone, At, AtEither, Healing
  <2> QED  BY <1>2, <2>1, <2>2
<1>4. CASE OpFlip
  <2>1. op.at = "flip" /\ UNCHANGED rows
    BY <1>4 DEF OpFlip, AtEither
  <2>2. ~FlipDone
    BY <2>1 DEF FlipDone
  <2>3. CASE OpGoto(IF Healing THEN "undo" ELSE "discard")
    BY <1>2, <2>1, <2>2, <2>3
  <2> QED  BY <1>4, <2>3 DEF OpFlip
<1>5. CASE OpSave
  BY <1>5 DEF OpSave
<1>6. CASE OpDiscard \/ HealRun \/ EvacRun
  <2>1. UNCHANGED rows /\ op.at \in {"discard", "run", "pick"}
    BY <1>6 DEF OpDiscard, HealRun, EvacRun, At, AtEither
  <2>2. ~FlipDone
    BY <2>1 DEF FlipDone
  <2>3. ~FlipDone'
    <3>1. CASE OpDiscard
      BY <1>1, <3>1, OutOfWindow DEF OpDiscard
    <3>2. CASE HealRun
      <4>1. op'.at \in {"undo", "stage", "pick"}
        BY <1>1, <3>2 DEF HealRun, Op
      <4> QED  BY <4>1 DEF FlipDone
    <3>3. CASE EvacRun
      <4>1. (\E reps, failed : NextMove(reps, failed)) \/ op'.at \in {"stage", "undo"}
        BY <1>1, <3>3 DEF EvacRun, Op
      <4> QED  BY <4>1, <1>1, OutOfWindow DEF FlipDone
    <3> QED  BY <1>6, <3>1, <3>2, <3>3
  <2> QED  BY <2>1, <2>2, <2>3
<1> QED  BY <1>3, <1>4, <1>5, <1>6 DEF Common, Heal

\* A single replica is deployed anew, or cannot be: nothing is served yet.
LEMMA RedeployStutters ==
  ASSUME FRInv, FRInv', NEW a \in Apps, EvacRedeploy(a) \/ EvacGivesUp(a) PROVE Stutter
<1>1. /\ FInv /\ IInv /\ op.at = "apps" /\ pc = "idle" /\ op \in Op
      /\ rows[CurrentDeployment(a)].spec \in Spec0 /\ rows \in Seq(Row)
  BY FRParts, NextAppRow, FleetParts, WorldTyped DEF EvacRedeploy, EvacGivesUp
<1>2. ~FlipDone /\ ~FlipDone'
  <2>1. op'.at = "apps"
    BY <1>1 DEF EvacRedeploy, EvacGivesUp, Op
  <2> QED  BY <1>1, <2>1 DEF FlipDone, Working
<1>3. RInv /\ RInv'
  BY <1>2, Unflipped, UnflippedThen
<1>4. /\ UNCHANGED conts /\ pc' \in {"idle", "run"}
      /\ \/ UNCHANGED rows
         \/ rows' = Append(rows, NewRow("failed", rows[CurrentDeployment(a)].spec, FALSE, <<>>))
  BY <1>1 DEF EvacRedeploy, EvacGivesUp, StartDeploy, AbandonDeploy
<1>5. TableKept /\ ContsKept
  BY <1>1, <1>4, TableUnchanged, FailureRecorded, Kept
<1>6. SameWindow
  BY <1>1, <1>4 DEF SameWindow, SwapSteps
<1> QED  BY <1>3, <1>5, <1>6, SameWindowStutters

\* Requests, deploys, the loop and the environment leave the window, but for a restart.
LEMMA WindowUndisturbed ==
  ASSUME FInv, [FleetNext]_all, ~Common, ~Heal, ~EvacRun, ~EvacRemoveOld,
         ~\E a \in Apps : EvacRedeploy(a) \/ EvacGivesUp(a)
  PROVE  /\ [Next]_vars
         /\ \/ CrashRestart /\ ~FlipDone'
            \/ ~FlipDone /\ ~FlipDone'
            \/ FlipDone /\ UNCHANGED <<op, rows, pc>>
<1>1. op \in Op /\ NoOp \in Op
  BY FleetParts, RestOK
<1>2. [Next]_vars
  BY FleetCases
<1>3. FlipDone => pc = "idle" /\ ~Free
  BY FlipDoneIsWork
<1>4. CASE UNCHANGED op
  <2>1. FlipDone' = FlipDone
    BY <1>4, FlipDoneKept
  <2>2. CASE FlipDone
    <3>1. UNCHANGED <<rows, pc>>
      BY <1>3, <2>2 DEF FleetNext, FleetRequest, AskRollback, AskScale, Operation, FleetDeploy, Deploy,
         Remove, RunReplica, RunReplicaFails, SetStaging, HealthGate, Flip, RemoveStaging, RetireOldSet,
         RetireOldRow, RecordRunning, UndoStaging, Discard, RecordFailed, RemoveContainers, RemoveRoute,
         RetireRemoved, Evac, EvacReplicas, EvacEnd, FleetEnvironment, Cancel, CrashRestart, Done, Die, LoopProbe,
         LoopLocks, LoopClear, HealSkip, HealStart, EvacFailover, EvacStart, Evacuate, LoopRead, BackoffElapses,
         LoopNode, Cordon, Uncordon, GoAway, ComeBack, world, vars, all
    <3> QED  BY <1>2, <1>4, <2>2, <3>1
  <2> QED  BY <1>2, <2>1, <2>2
<1>5. CASE ~UNCHANGED op
  <2>1. \/ HealStart \/ EvacEnd \/ (\E a \in Apps : EvacReplicas(a))
        \/ (\E n, byLoop : EvacStart(n, byLoop))
        \/ CrashRestart /\ op' = NoOp
    BY <1>5, FleetRequestIsRequest DEF FleetNext, Operation, FleetDeploy, Evac, FleetEnvironment,
       LoopProbe, LoopLocks, LoopClear, HealSkip, EvacFailover, Evacuate, LoopRead, BackoffElapses,
       LoopNode, Cordon, Uncordon, GoAway, ComeBack, all, fleet
  <2>2. op'.at \in {"pick", "apps", "rest"}
    <3>1. HealStart => op'.at = "pick"
      BY <1>1 DEF HealStart, Op
    <3>2. \A a \in Apps : EvacReplicas(a) => op'.at = "pick"
      BY <1>1 DEF EvacReplicas, Op
    <3>3. \A n, byLoop : EvacStart(n, byLoop) => op'.at = "apps"
      BY <1>1 DEF EvacStart, Op
    <3>4. EvacEnd \/ op' = NoOp => op'.at = "rest"
      BY RestOK DEF EvacEnd
    <3> QED  BY <2>1, <3>1, <3>2, <3>3, <3>4
  <2>3. ~FlipDone'
    BY <2>2 DEF FlipDone
  <2>4. CASE ~CrashRestart
    <3>1. op.at = "apps" \/ op = NoOp
      BY <2>1, <2>4 DEF HealStart, EvacEnd, EvacReplicas, EvacStart, NextApp, At, Free
    <3>2. ~FlipDone
      BY <3>1, RestOK DEF FlipDone
    <3> QED  BY <1>2, <2>3, <3>2
  <2> QED  BY <1>2, <2>3, <2>4
<1> QED  BY <1>4, <1>5

LEMMA FleetRolloutStep ==
  ASSUME ExclusiveDomains, Faults \cap {"store", "ambiguous"} = {}, FRInv, FRInv', [FleetNext]_all
  PROVE  Promise!Next \/ Stutter
<1>1. FInv /\ IInv /\ ContsKept /\ "store" \notin Faults /\ "ambiguous" \notin Faults
  BY FRParts, FleetKeepsConts
<1>2. CASE Common \/ Heal \/ EvacRun \/ EvacRemoveOld
  <2>1. pc = "idle" /\ pc' = "idle"
    BY <1>2 DEF Common, OpSetStaging, OpGate, OpUnstage, OpFlip, OpUndo, OpDiscard, OpSave,
       Heal, HealRemoveOld, HealRun, EvacRun, EvacRemoveOld, At, AtEither, vars, holder
  <2> QED  BY <1>1, <1>2, <2>1, WindowKept, OpFlipRefits, OpSaveRecords, IdleStutters
<1>3. CASE \E a \in Apps : EvacRedeploy(a) \/ EvacGivesUp(a)
  BY <1>3, RedeployStutters
<1>4. CASE /\ ~(Common \/ Heal \/ EvacRun \/ EvacRemoveOld)
           /\ ~\E a \in Apps : EvacRedeploy(a) \/ EvacGivesUp(a)
  <2>1. CASE CrashRestart /\ ~FlipDone'
    BY <1>1, <2>1, UnflippedThen, RestartGoesBack DEF CrashRestart, Done
  <2>2. CASE [Next]_vars /\ ~FlipDone /\ ~FlipDone'
    BY <1>1, <2>2, Unflipped, UnflippedThen, RolloutStep
  <2>3. CASE FlipDone /\ UNCHANGED <<op, rows, pc>>
    BY <1>1, <2>3, FlipDoneKept, FlipDoneIsWork, IdleStutters
  <2> QED  BY <1>1, <1>4, <2>1, <2>2, <2>3, WindowUndisturbed
<1> QED  BY <1>2, <1>3, <1>4

\* On a fleet as well a change is one step to a client: a heal or a move refits the
\* generation that serves in one step, all of the set at once, and its record
\* follows or a restart undoes it; no other app is touched (healDeadReplicasLocked,
\* evacuateReplicasLocked, and all that DeploysRollOut is about).  The store takes
\* its writes, a failed post has changed nothing, and no two apps claim one domain.
THEOREM FleetRollsOut ==
  ASSUME ExclusiveDomains, Faults \cap {"store", "ambiguous"} = {}
  PROVE  FleetSpec => RollsOut
<1>1. FRInv /\ FRInv' /\ [FleetNext]_all =>
        [Promise!Next]_<<[a \in Apps |-> LiveOf(a)], [a \in Apps |-> RecordedOf(a)],
                   {i \in RowIds : rows[i].status # "failed"}>>
  <2> SUFFICES ASSUME FRInv, FRInv', [FleetNext]_all PROVE Promise!Next \/ Stutter
    BY DEF Stutter, Live, Recorded, Past
  <2> QED  BY FleetRolloutStep
<1>2. FRInv /\ [FleetNext]_all => FRInv'
  BY NextFRInv
<1>3. FleetInit => Promise!Init
  BY RolloutInit DEF FleetInit
<1> QED  BY <1>1, <1>2, <1>3, InitFRInv, PTL DEF FleetSpec, RollsOut, Promise!Spec

-----------------------------------------------------------------------------
(* Emptied nodes: helpers *)

\* InOrder leaves none of the indexes out.
LEMMA InOrderCovers ==
  ASSUME NEW is \in SUBSET Nat, IsFiniteSet(is) PROVE is \subseteq SeqSet(InOrder(is))
<1> DEFINE n == Cardinality(is)
<1>1. PICK s : s = InOrder(is)
  OBVIOUS
<1>2. s \in [1..n -> is] /\ \A i, j \in DOMAIN s : i < j => s[i] < s[j]
  BY <1>1, OrderExists DEF InOrder
<1>3. n \in Nat /\ IsFiniteSet(1..n) /\ Cardinality(1..n) = n
  <2>1. PICK m : m = n
    OBVIOUS
  <2>2. m \in Nat
    BY <2>1, FS_CardinalityType
  <2>3. IsFiniteSet(1..m) /\ Cardinality(1..m) = (IF 1 > m THEN 0 ELSE m - 1 + 1)
    BY <2>2, FS_Interval
  <2>4. Cardinality(1..m) = m
    BY <2>2, <2>3
  <2> QED  BY <2>1, <2>2, <2>3, <2>4
<1> HIDE DEF n
<1>4. \A i, j \in 1..n : s[i] = s[j] => i = j
  <2> SUFFICES ASSUME NEW i \in 1..n, NEW j \in 1..n, s[i] = s[j], i # j PROVE FALSE
    OBVIOUS
  <2>1. i \in Nat /\ j \in Nat /\ s[i] \in Nat /\ s[j] \in Nat
    <3>1. i \in Nat /\ j \in Nat
      BY <1>3
    <3>2. s[i] \in is /\ s[j] \in is
      BY <1>2
    <3> QED  BY <3>1, <3>2
  <2>2. i < j \/ j < i
    BY <2>1
  <2>3. s[i] < s[j] \/ s[j] < s[i]
    BY <1>2, <2>2
  <2> QED  BY <2>1, <2>3
<1>5. s \in Injection(1..n, is)
  BY <1>2, <1>4 DEF Injection, IsInjective
<1>6. s \in Surjection(1..n, is)
  BY <1>3, <1>5, FS_Injection DEF n
<1> QED  BY <1>1, <1>2, <1>6 DEF Surjection, SeqSet

LEMMA DrainParts ==
  ASSUME DrainInv
  PROVE  /\ FInv /\ SInv /\ IInv /\ WorldTypeOK /\ OneRunning /\ rows \in Seq(Row) /\ op \in Op
         /\ FullSets /\ AvoidsShut /\ LeavesNothing /\ DrainedStaysEmpty
         /\ drained \subseteq cordoned
BY WorldTyped, OpTyped DEF DrainInv, Drains, SInv, FInv, FleetTypeOK

\* A step that ends in none of the deploys leaves the table or retires, or records one row.
LEMMA FleetTable ==
  ASSUME "store" \notin Faults, FInv, SInv, [FleetNext]_all
  PROVE  \/ TableKept
         \/ \E a : /\ a = job.app /\ Retires(a) /\ UNCHANGED op
                   /\ RetireOldRow \/ RetireRemoved
         \/ \E a : RecordRunning /\ Records(a) /\ UNCHANGED op
         \/ Saves
<1>1. rows \in Seq(Row) /\ IInv
  BY WorldTyped
<1>2. CASE FleetDeploy
  <2>1. [Next]_vars /\ UNCHANGED op
    BY <1>2 DEF FleetDeploy, Next
  <2> QED  BY <2>1, CurrentMoves
<1>3. CASE FleetRequest
  <2>1. [Next]_vars
    BY <1>3, FleetRequestIsRequest
  <2>2. CASE TableKept
    BY <2>2
  <2>3. ASSUME ~TableKept PROVE FALSE
    <3>1. RetireOldRow \/ RetireRemoved \/ RecordRunning
      BY <2>1, <2>3, CurrentMoves
    <3>2. pc \in {"status", "rmstatus", "record"}
      BY <3>1 DEF RetireOldRow, RetireRemoved, RecordRunning
    <3>3. UNCHANGED rows
      BY <1>3, <3>2 DEF FleetRequest, AskRollback, AskScale, world, Free
    <3> QED  BY <2>3, <3>3, TableUnchanged
  <2> QED  BY <2>2, <2>3
<1>4. CASE Common \/ Heal \/ EvacRun \/ EvacRemoveOld
  BY <1>4, TableUnchanged DEF Common, OpSetStaging, OpGate, OpUnstage, OpFlip, OpUndo, OpDiscard, OpSave,
       Heal, HealRemoveOld, HealRun, EvacRun, EvacRemoveOld, vars, Saves
<1>5. ASSUME NEW a \in Apps, EvacGivesUp(a) PROVE TableKept
  <2>1. rows[CurrentDeployment(a)].spec \in Spec0
    BY <1>5, NextAppRow DEF EvacGivesUp
  <2> QED  BY <1>1, <1>5, <2>1, TableUnchanged, FailureRecorded DEF EvacGivesUp, AbandonDeploy
<1>6. CASE \/ UNCHANGED all \/ LoopProbe \/ LoopLocks \/ EvacEnd \/ FleetEnvironment
           \/ \E a \in Apps : LoopRead(a) \/ BackoffElapses(a) \/ EvacReplicas(a) \/ EvacRedeploy(a)
           \/ \E n \in Managed : LoopNode(n) \/ Cordon(n) \/ Evacuate(n)
                                   \/ Uncordon(n) \/ GoAway(n) \/ ComeBack(n)
  <2>1. UNCHANGED rows
    BY <1>6 DEF all, LoopProbe, LoopLocks, LoopClear, HealSkip, HealStart, EvacFailover, EvacStart,
     Evacuate, EvacEnd, LoopRead, BackoffElapses, LoopNode, Cordon, Uncordon, GoAway, ComeBack,
     EvacReplicas, EvacRedeploy, StartDeploy, FleetEnvironment, Cancel, CrashRestart, Die, vars, world
  <2> QED  BY <2>1, TableUnchanged
<1> QED  BY <1>2, <1>3, <1>4, <1>5, <1>6 DEF FleetNext, Operation, Evac

\* The current deployment of an app stays, with the replicas it has.
LEMMA CurrentStays ==
  ASSUME FInv, ContsKept, NEW a, NEW c, c = CurrentDeployment(a), CurrentDeployment(a)' = c,
         c # 0 => rows'[c].reps = rows[c].reps /\ rows'[c].sched = rows[c].sched, NEW n
  PROVE  AffectedIdx(a, n)' = AffectedIdx(a, n) /\ ToMove(a, n)' = ToMove(a, n)
<1>1. CASE c = 0
  BY <1>1 DEF AffectedIdx, ToMove
<1>2. CASE c # 0
  <2>1. SeqSet(rows[c].reps) \subseteq ContIds
    BY <1>2, WorldTyped, CurrentRow
  <2>2. \A i \in DOMAIN rows[c].reps : conts'[rows[c].reps[i]].node = conts[rows[c].reps[i]].node
    BY <2>1 DEF ContsKept, SeqSet
  <2>3. AffectedIdx(a, n)' = AffectedIdx(a, n)
    BY <1>2, <2>2 DEF AffectedIdx, NodeOf
  <2> QED  BY <1>2, <2>3 DEF ToMove
<1> QED  BY <1>1, <1>2

LEMMA FleetSInv ==
  ASSUME "store" \notin Faults, FInv, SInv, FInv', [FleetNext]_all PROVE SInv'
<1>1. WorldTypeOK /\ IInv /\ IInv'
  BY WorldTyped DEF FInv
<1>2. CASE [Next]_vars
  BY <1>2, NextSInv
<1>3. CASE Working /\ pc = "idle" /\ UNCHANGED holder /\ (UNCHANGED rows \/ Saves)
  <2>1. pc' = "idle"
    BY <1>3 DEF holder
  <2>2. CASE UNCHANGED rows
    BY <1>1, <2>1, <2>2, TableStays DEF SInv
  <2>3. CASE Saves
    <3>1. op.at # "pick" /\ op.row \in RowIds
      BY <1>3, <2>3, WorkTyped DEF Saves, OpSave, AtEither
    <3>2. PICK reps : reps = Merged
      OBVIOUS
    <3>3. reps \in Seq(Nat) /\ rows' = [rows EXCEPT ![op.row].reps = reps]
      BY <1>3, <2>3, <3>1, <3>2, MergedTyped DEF Saves, UpdateReplicas
    <3>4. /\ RowIds' = RowIds
          /\ \A k \in RowIds : rows'[k].app = rows[k].app /\ rows'[k].status = rows[k].status
      BY <1>1, <3>1, <3>3, ReplicasUpdated
    <3>5. OneRunning'
      BY <3>4 DEF SInv, OneRunning
    <3> QED  BY <1>1, <2>1, <3>5 DEF SInv, OldRowRetired
  <2> QED  BY <1>3, <2>2, <2>3
<1>4. ASSUME NEW a \in Apps, EvacRedeploy(a) PROVE SInv'
  <2>1. UNCHANGED rows /\ pc' = "run"
    BY <1>4 DEF EvacRedeploy, StartDeploy
  <2> QED  BY <1>1, <2>1, TableStays DEF SInv
<1>5. ASSUME NEW a \in Apps, EvacGivesUp(a) PROVE SInv'
  <2>1. pc = "idle" /\ rows[CurrentDeployment(a)].spec \in Spec0
    BY <1>5, NextAppRow DEF EvacGivesUp
  <2> DEFINE row == NewRow("failed", rows[CurrentDeployment(a)].spec, FALSE, <<>>)
  <2>2. pc' = "idle" /\ (UNCHANGED rows \/ rows' = Append(rows, row))
    BY <1>5, <2>1 DEF EvacGivesUp, AbandonDeploy
  <2>3. row \in Row /\ row.status # "running"
    BY <2>1, FailedRow
  <2> HIDE DEF row
  <2> QED  BY <1>1, <2>2, <2>3, TableStays, TableGrows DEF SInv
<1> QED  BY <1>2, <1>3, <1>4, <1>5, FleetCases

\* A row that is updated, seen from any app.
LEMMA SavedRow ==
  ASSUME FInv, Saves
  PROVE  /\ Working /\ op.at = "save" /\ pc = "idle" /\ UNCHANGED conts /\ RowIds' = RowIds
         /\ App \in Apps /\ CurrentDeployment(App) = op.row /\ op.row # 0 /\ op.row \in RowIds
         /\ rows[op.row].app = App
         /\ \A a : CurrentDeployment(a)' = CurrentDeployment(a)
         /\ \A i \in RowIds : i # op.row => rows'[i] = rows[i]
         /\ \A i \in RowIds : /\ rows'[i].app = rows[i].app /\ rows'[i].status = rows[i].status
                              /\ rows'[i].spec = rows[i].spec /\ rows'[i].sched = rows[i].sched
         /\ rows'[op.row].reps = Merged /\ DOMAIN Merged = DOMAIN rows[op.row].reps
         /\ Merged \in Seq(Nat)
<1>1. Working /\ op.at = "save" /\ UNCHANGED conts /\ WorldTypeOK
  BY AtWork, WorldTyped DEF Saves, OpSave
<1>2. /\ pc = "idle" /\ App \in Apps /\ CurrentDeployment(App) = op.row /\ op.row \in RowIds
      /\ op.row # 0 /\ DOMAIN op.reps = DOMAIN rows[op.row].reps
  BY <1>1, WorkTyped, WorldTyped DEF WorkOK, RowIds
<1>3. PICK reps : reps = Merged
  OBVIOUS
<1>4. /\ reps \in Seq(Nat) /\ rows' = [rows EXCEPT ![op.row].reps = reps]
      /\ DOMAIN reps = DOMAIN op.reps
  BY <1>1, <1>3, MergedTyped DEF Saves, UpdateReplicas
<1>5. /\ RowIds' = RowIds
      /\ \A k \in RowIds : k # op.row => rows'[k] = rows[k]
      /\ rows'[op.row] = [rows[op.row] EXCEPT !.reps = reps]
      /\ rows'[op.row].reps = reps
      /\ \A a : CurrentDeployment(a)' = CurrentDeployment(a)
      /\ \A k \in RowIds : /\ rows'[k].app = rows[k].app /\ rows'[k].status = rows[k].status
                           /\ rows'[k].spec = rows[k].spec
  BY <1>1, <1>2, <1>4, ReplicasUpdated
<1>6. rows[op.row] \in Row
  BY <1>2, WorldTyped
<1>7. rows'[op.row].sched = rows[op.row].sched
  BY <1>5, <1>6 DEF Row
<1>8. rows[op.row].app = App
  BY DEF App
<1> QED  BY <1>1, <1>2, <1>3, <1>4, <1>5, <1>7, <1>8

\* Rows are never lost, nor given to another app.
LEMMA RowsRemain ==
  ASSUME "store" \notin Faults, FInv, SInv, [FleetNext]_all
  PROVE  \A i \in RowIds : i \in RowIds' /\ rows'[i].app = rows[i].app
<1>1. CASE TableKept
  BY <1>1 DEF TableKept
<1>2. ASSUME NEW a, Retires(a) PROVE \A i \in RowIds : i \in RowIds' /\ rows'[i].app = rows[i].app
  BY <1>2 DEF Retires
<1>3. ASSUME NEW a, Records(a) PROVE \A i \in RowIds : i \in RowIds' /\ rows'[i].app = rows[i].app
  BY <1>3 DEF Records
<1>4. CASE Saves
  BY <1>4, SavedRow
<1> QED  BY <1>1, <1>2, <1>3, <1>4, FleetTable

-----------------------------------------------------------------------------
(* What is left on a node *)

\* A node that is emptied or being emptied gets no replica the scheduler has placed.
LEMMA ToMoveShrinks ==
  ASSUME "store" \notin Faults, DrainInv, [FleetNext]_all, NEW a \in Apps, NEW n \in Shut, ToMove(a, n)'
  PROVE  ToMove(a, n) /\ AffectedIdx(a, n)' \subseteq AffectedIdx(a, n)
<1>1. FInv /\ SInv /\ IInv /\ WorldTypeOK /\ ContsKept /\ rows \in Seq(Row)
  BY DrainParts, FleetKeepsConts
<1>2. PICK c : c = CurrentDeployment(a)
  OBVIOUS
<1>3. c # 0 => c \in RowIds /\ rows[c].app = a
  BY <1>1, <1>2, CurrentRow DEF WithStatus
<1>4. CurrentDeployment(a)' # 0
  BY DEF ToMove, AffectedIdx
<1>5. ASSUME CurrentDeployment(a)' = c,
             c # 0 => rows'[c].reps = rows[c].reps /\ rows'[c].sched = rows[c].sched
      PROVE  ToMove(a, n) /\ AffectedIdx(a, n)' \subseteq AffectedIdx(a, n)
  BY <1>1, <1>2, <1>5, CurrentStays
<1>6. CASE TableKept
  BY <1>2, <1>3, <1>5, <1>6, CurrentKept DEF TableKept
<1>7. ASSUME NEW b, Retires(b) PROVE ToMove(a, n) /\ AffectedIdx(a, n)' \subseteq AffectedIdx(a, n)
  <2>1. a # b
    BY <1>4, <1>7 DEF Retires
  <2> QED  BY <1>2, <1>3, <1>5, <1>7, <2>1 DEF Retires
<1>8. ASSUME NEW b, RecordRunning, Records(b)
      PROVE  ToMove(a, n) /\ AffectedIdx(a, n)' \subseteq AffectedIdx(a, n)
  <2>1. CASE a # b
    BY <1>2, <1>3, <1>5, <1>8, <2>1 DEF Records
  <2>2. CASE a = b
    <3>1. pc \in DeploySteps /\ CandidateOK /\ job \in Job
      BY <1>1, <1>8, JobTyped DEF RecordRunning, IInv, HolderOK, DeploySteps, SwapSteps
    <3>2. PICK k : k = NextDeployID
      OBVIOUS
    <3>3. CurrentDeployment(a)' = k /\ rows'[k].reps = job.new /\ rows'[k].sched = job.sched
      BY <1>8, <2>2, <3>2 DEF Records, NewRow
    <3>4. job.sched
      BY <3>3 DEF ToMove
    <3>5. \A i \in DOMAIN job.new : i \in DOMAIN job.tgt
      <4>1. DOMAIN job.tgt = 1..job.spec.count /\ Len(job.new) <= job.spec.count
        BY <3>1, DrainParts DEF CandidateOK, FullSets
      <4>2. job.new \in Seq(Nat) /\ job.spec.count \in Nat
        BY <3>1 DEF Job, Spec0
      <4> QED  BY <4>1, <4>2
    <3>6. \A i \in DOMAIN job.new : NodeOf(job.new[i]) # n
      BY <3>1, <3>4, <3>5, DrainParts DEF AvoidsShut
    <3>7. \A i \in DOMAIN job.new : job.new[i] \in ContIds
      BY <1>1, <3>1, ListedConts DEF SeqSet
    <3>8. \A i \in DOMAIN job.new : conts'[job.new[i]].node # n
      BY <1>1, <3>6, <3>7 DEF ContsKept, NodeOf
    <3>9. AffectedIdx(a, n)' = {}
      BY <1>4, <3>3, <3>8 DEF AffectedIdx, NodeOf
    <3> QED  BY <3>9 DEF ToMove
  <2> QED  BY <2>1, <2>2
<1>9. CASE Saves
  <2>1. CASE a # App
    <3>1. /\ CurrentDeployment(a)' = c /\ rows[op.row].app = App
          /\ \A i \in RowIds : i # op.row => rows'[i] = rows[i]
      BY <1>1, <1>2, <1>9, SavedRow
    <3>2. c # 0 => rows'[c] = rows[c]
      BY <1>3, <2>1, <3>1
    <3> QED  BY <1>5, <3>1, <3>2
  <2>2. CASE a = App
    <3>1. /\ c = op.row /\ CurrentDeployment(a)' = c /\ c # 0 /\ rows'[c].sched = rows[c].sched
          /\ rows'[c].reps = Merged /\ DOMAIN Merged = DOMAIN rows[c].reps /\ UNCHANGED conts
          /\ Working /\ op.at = "save"
      BY <1>1, <1>2, <1>9, <2>2, SavedRow
    <3>2. ASSUME NEW i \in DOMAIN Merged, NodeOf(Merged[i]) = n
          PROVE  NodeOf(rows[c].reps[i]) = n
      <4>1. DOMAIN op.reps = DOMAIN Merged /\ PlacedApart
        BY <1>1, <3>1, WorkTyped
      <4>2. \/ Merged[i] = op.reps[i]
            \/ ~Healing /\ Merged[i] = op.fresh[1]
        BY <1>1, <3>1, <3>2, <4>1, MergedTyped
      <4>3. ~Healing => NodeOf(op.fresh[1]) # n
        BY <3>1, DrainParts DEF AvoidsShut
      <4>4. NodeOf(op.reps[i]) = n
        BY <3>2, <4>2, <4>3
      <4> QED  BY <1>1, <3>1, <4>1, <4>4, MovesRecorded DEF PlacedApart
    <3>3. AffectedIdx(a, n)' \subseteq AffectedIdx(a, n)
      BY <1>2, <3>1, <3>2 DEF AffectedIdx, NodeOf
    <3> QED  BY <1>2, <3>1, <3>3 DEF ToMove
  <2> QED  BY <2>1, <2>2
<1> QED  BY <1>1, <1>6, <1>7, <1>8, <1>9, FleetTable

\* A replica that has been moved is not on the node any more.
LEMMA MovedAway ==
  ASSUME DrainInv, Saves, ~Healing, NEW n \in Shut, NEW a, a = App, NEW i, i = Idx
  PROVE  i \notin AffectedIdx(a, n)'
<1>1. PICK s, c : s = Merged /\ c = op.row
  OBVIOUS
<1>2. /\ FInv /\ Working /\ op.at = "save" /\ UNCHANGED conts
      /\ CurrentDeployment(a)' = c /\ rows'[c].reps = s
  BY <1>1, DrainParts, SavedRow
<1>3. op.todo # <<>> /\ i \in DOMAIN op.reps
  BY <1>2, WorkTyped, TodoTyped DEF WorkOK
<1>4. s[i] = op.fresh[1]
  BY <1>1, <1>3, OpTyped DEF Merged
<1>5. NodeOf(s[i]) # n
  BY <1>2, <1>4, DrainParts DEF AvoidsShut
<1>6. conts'[s[i]].node # n
  BY <1>2, <1>5 DEF NodeOf
<1> QED  BY <1>2, <1>6 DEF AffectedIdx, NodeOf

-----------------------------------------------------------------------------
(* What an operation does next *)

\* Nobody but an evacuation and an uncordon touches the nodes that are emptied.
LEMMA OpCases ==
  ASSUME FInv, [FleetNext]_all
  PROVE  \/ UNCHANGED op /\ drained' \subseteq drained
         \/ op' = NoOp /\ UNCHANGED drained
         \/ (\E n, byLoop : EvacStart(n, byLoop)) \/ HealStart \/ EvacEnd
         \/ \E a \in Apps : EvacRedeploy(a) \/ EvacGivesUp(a) \/ EvacReplicas(a)
         \/ (Common \/ Heal \/ EvacRun \/ EvacRemoveOld) /\ Working
<1>1. CASE Common \/ Heal \/ EvacRun \/ EvacRemoveOld
  <2>1. Working
    BY <1>1, AtWork DEF Common, OpSetStaging, OpGate, OpUnstage, OpFlip, OpUndo, OpDiscard, OpSave,
       Heal, HealRemoveOld, HealRun, EvacRun, EvacRemoveOld, At, Working
  <2> QED  BY <1>1, <2>1
<1>2. CASE FleetRequest \/ FleetDeploy \/ FleetEnvironment
  BY <1>2, FleetRequestIsRequest DEF FleetDeploy, FleetEnvironment, fleet, nodeVars
<1>3. CASE \/ UNCHANGED all \/ LoopProbe \/ LoopLocks
           \/ \E a \in Apps : LoopRead(a) \/ BackoffElapses(a)
           \/ \E n \in Managed : LoopNode(n) \/ Cordon(n) \/ Evacuate(n)
                                   \/ Uncordon(n) \/ GoAway(n) \/ ComeBack(n)
  BY <1>3 DEF all, fleet, LoopProbe, LoopLocks, LoopClear, HealSkip, EvacFailover,
     Evacuate, LoopRead, BackoffElapses, LoopNode, Cordon, Uncordon, GoAway, ComeBack, nodeVars
<1> QED  BY <1>1, <1>2, <1>3 DEF FleetNext, Operation, Evac

\* What a call of a move does to the local variables.
LEMMA MoveCases ==
  ASSUME "store" \notin Faults, FInv, Common \/ Heal \/ EvacRun \/ EvacRemoveOld
  PROVE  /\ UNCHANGED drained
         /\ \/ Healing /\ op'.kind \in {"heal", "none"}
            \/ ~Healing /\ UNCHANGED rows /\ op.at # "pick" /\ \E l : l \notin {"apps", "pick"} /\ OpGoto(l)
            \/ ~Healing /\ UNCHANGED rows /\ NextMove(op.reps, TRUE)
            \/ ~Healing /\ Saves /\ NextMove(Merged, FALSE)
            \/ /\ ~Healing /\ UNCHANGED rows
               /\ \E m \in NewHomes : RunOn(m, NextDeployID)
                    /\ \E l \in {"stage", "undo"} :
                         op' = [op EXCEPT !.at = l, !.id = NextDeployID, !.fresh = <<Len(conts) + 1>>]
<1>1. op \in Op /\ NoOp.kind = "none"
  BY FleetParts, RestOK
<1>2. ASSUME NEW l, OpGoto(l) PROVE UNCHANGED drained /\ op'.kind = op.kind
  BY <1>1, <1>2 DEF OpGoto, Op, nodeVars
<1>3. CASE OpSetStaging \/ OpGate \/ OpUnstage \/ OpFlip \/ OpUndo \/ HealRemoveOld \/ EvacRemoveOld
  <2>1. /\ UNCHANGED rows /\ \E l : OpGoto(l) /\ l \notin {"apps", "pick"}
        /\ ~Healing => op.at # "pick"
    BY <1>3 DEF OpSetStaging, OpGate, OpUnstage, OpFlip, OpUndo, HealRemoveOld, EvacRemoveOld, vars, At,
       AtEither, Healing
  <2> QED  BY <1>2, <2>1 DEF Healing
<1>4. CASE OpDiscard
  <2>1. UNCHANGED rows /\ IF Healing THEN HealEnds(FALSE) ELSE NextMove(op.reps, TRUE)
    BY <1>4 DEF OpDiscard
  <2> QED  BY <1>1, <2>1 DEF HealEnds, NextMove, nodeVars
<1>5. CASE OpSave
  <2>1. UpdateReplicas /\ IF Healing THEN HealEnds(TRUE) ELSE NextMove(Merged, FALSE)
    BY <1>5 DEF OpSave
  <2> QED  BY <1>1, <1>5, <2>1 DEF HealEnds, NextMove, nodeVars, Saves
<1>6. CASE HealRun
  <2>1. UNCHANGED drained /\ op'.kind = op.kind /\ Healing
    BY <1>1, <1>6 DEF HealRun, Op, nodeVars, At, Healing
  <2> QED  BY <2>1 DEF Healing
<1>7. CASE EvacRun
  <2>1. ~Healing /\ UNCHANGED rows
    BY <1>7 DEF EvacRun, At, Healing
  <2> QED  BY <1>7, <2>1 DEF EvacRun, NextMove, nodeVars
<1> QED  BY <1>3, <1>4, <1>5, <1>6, <1>7 DEF Common, Heal

\* While a deploy is under way nothing else is emptied.
LEMMA ShutDuringDeploy ==
  ASSUME FInv, [FleetNext]_all, pc # "idle" PROVE Shut' \subseteq Shut
<1>1. ~Working /\ ~Free
  BY WorkTyped DEF Free
<1>2. (UNCHANGED op /\ drained' \subseteq drained) \/ (op' = NoOp /\ UNCHANGED drained)
  BY <1>1, OpCases DEF EvacStart, HealStart, EvacEnd, EvacRedeploy, EvacGivesUp, EvacReplicas, NextApp, At
<1>3. NoOp.kind = "none"
  BY RestOK
<1> QED  BY <1>2, <1>3 DEF Shut

\* How a deploy goes on.
LEMMA JobCases ==
  ASSUME DrainInv, NoRollbacks, [FleetNext]_all, pc' \in DeploySteps
  PROVE  \/ /\ pc = "idle" /\ \E s, sched : StartDeploy(s, sched)
            /\ job'.sched => \A k \in DOMAIN job'.tgt : job'.tgt[k] \notin Shut'
         \/ /\ pc = "run" /\ StartContainer /\ job' = [job EXCEPT !.new = Append(@, Len(conts) + 1)]
            /\ pc' \in {"run", "stage", "undo"} /\ (pc' = "stage" => NextReplica = job.spec.count)
         \/ /\ pc \in DeploySteps
            /\ job'.new = job.new /\ job'.spec = job.spec /\ job'.tgt = job.tgt /\ job'.sched = job.sched
            /\ pc' \notin {"run"} \cup UndoSteps => pc \notin {"run"} \cup UndoSteps
<1>1. FInv /\ IInv /\ op \in Op /\ drained \subseteq cordoned
  BY DrainParts
<1>2. CASE UNCHANGED <<pc, job>>
  BY <1>2
<1>3. CASE FleetRequest /\ pc = "idle" /\ pc' = "run"
  <2>1. ASSUME NEW anchor \in BOOLEAN, Placed(anchor), anchor, op = NoOp, UNCHANGED fleet
        PROVE  job'.sched => \A k \in DOMAIN job'.tgt : job'.tgt[k] \notin Shut'
    <3>1. job'.sched => \A k \in DOMAIN job'.tgt : job'.tgt[k] \in Candidates({})
      BY <1>3, <2>1 DEF Placed
    <3>2. Shut' = drained
      BY <2>1, RestOK DEF Shut, fleet
    <3> QED  BY <1>1, <3>1, <3>2 DEF Candidates
  <2>2. UNCHANGED fleet
    BY <1>3 DEF FleetRequest
  <2>3. \A q \in asked : q.kind # "rollback"
    BY DEF NoRollbacks
  <2>4. Free /\ Placed(TRUE) /\ \E s, sched : StartDeploy(s, sched)
    <3>1. ~(\E a \in Apps : AskRollback(a) \/ BeginRemove(a) \/ \E n \in Counts : AskScale(a, n))
      BY <1>3 DEF AskRollback, AskScale, BeginRemove
    <3>2. ~(\E q \in asked : BeginRollback(q))
      BY <2>3 DEF BeginRollback
    <3>3. Free /\ Placed(TRUE) /\ ((\E s \in Specs : BeginApply(s)) \/ (\E q \in asked : BeginScale(q)))
      BY <1>3, <3>1, <3>2 DEF FleetRequest
    <3> QED  BY <1>3, <3>3 DEF BeginApply, BeginScale, AbandonDeploy
  <2> QED  BY <1>3, <2>1, <2>2, <2>4 DEF Free
<1>4. ASSUME NEW a \in Apps, EvacRedeploy(a)
      PROVE  /\ pc = "idle" /\ \E s, sched : StartDeploy(s, sched)
             /\ job'.sched => \A k \in DOMAIN job'.tgt : job'.tgt[k] \notin Shut'
  <2> DEFINE cur == CurrentDeployment(a)
  <2>1. /\ pc = "idle" /\ op.kind = "evac" /\ cur \in RowIds /\ rows[cur].spec \in Spec0
        /\ ToMove(a, op.node) /\ ~IsPair(a)
    BY <1>1, <1>4, NextAppRow DEF EvacRedeploy, NextApp
  <2>2. cur # 0 /\ rows[cur].status = "running"
    BY <1>1, <2>1, WorldTyped, CurrentRow DEF WithStatus, RowIds
  <2>3. rows[cur].spec.count = 1
    <3>1. Len(rows[cur].reps) = rows[cur].spec.count
      BY <2>1, <2>2, DrainParts DEF FullSets
    <3>2. rows[cur].spec.count \in Nat \ {0}
      BY <2>1 DEF Spec0
    <3> QED  BY <2>1, <3>1, <3>2 DEF IsPair
  <2>4. PICK m \in Candidates({op.node}) : StartDeploy([rows[cur].spec EXCEPT !.node = m], TRUE)
    BY <1>4 DEF EvacRedeploy
  <2>5. PICK s : s = [rows[cur].spec EXCEPT !.node = m]
    OBVIOUS
  <2>6. s.count = 1 /\ s.node = m
    BY <2>1, <2>3, <2>5 DEF Spec0
  <2>7. m \in Nodes /\ m \notin cordoned /\ m # op.node
    BY DEF Candidates
  <2>8. PICK t \in Placements(s, TRUE) : job'.tgt = t
    <3>1. StartDeploy(s, TRUE)
      BY <2>4, <2>5
    <3>2. PICK t \in Placements(s, TRUE) :
            job' = [app |-> s.app, spec |-> [s EXCEPT !.node = t[1]], sched |-> TRUE,
                    id |-> NextDeployID, tgt |-> t, new |-> <<>>, row |-> 0, live |-> TRUE]
      BY <3>1 DEF StartDeploy
    <3> QED  BY <3>2
  <2>9. DOMAIN t = {1} /\ t[1] = m
    <3>1. s.node # AnyNode
      BY <2>6, <2>7, NodesAssumption
    <3> QED  BY <2>6, <3>1 DEF Placements
  <2>10. Shut' = drained \cup {op.node}
    <3>1. op'.kind = "evac" /\ op'.node = op.node /\ UNCHANGED drained
      BY <1>1, <1>4, <2>1 DEF EvacRedeploy, Op, nodeVars
    <3> QED  BY <3>1 DEF Shut
  <2> QED  BY <1>1, <2>1, <2>4, <2>7, <2>8, <2>9, <2>10
<1>5. CASE RunReplica \/ RunReplicaFails
  BY <1>5 DEF RunReplica, RunReplicaFails, UndoSteps, DeploySteps
<1>6. CASE Goto(pc') /\ Deploy /\ ~RunReplica /\ ~RunReplicaFails
  BY <1>6 DEF Deploy, SetStaging, HealthGate, Flip, RemoveStaging, RetireOldSet, RetireOldRow,
     RecordRunning, UndoStaging, Discard, RecordFailed, Goto, Done, DeploySteps, SwapSteps, UndoSteps
<1>7. CASE Cancel
  <2>1. job \in Job /\ job' = [job EXCEPT !.live = FALSE] /\ UNCHANGED pc
    BY <1>1, <1>7, JobTyped DEF Cancel
  <2> QED  BY <2>1 DEF Job
<1>8. CASE FleetRequest
  <2>1. UNCHANGED <<pc, job>> \/ (pc = "idle" /\ pc' = "run")
    <3>1. Request
      BY <1>8 DEF FleetRequest, Request
    <3>2. CASE \E a \in Apps : AskRollback(a) \/ BeginRemove(a) \/ \E n \in Counts : AskScale(a, n)
      BY <3>2 DEF AskRollback, AskScale, BeginRemove, DeploySteps, SwapSteps, UndoSteps
    <3>3. ASSUME NEW s, NEW sched, pc = "idle", StartDeploy(s, sched) \/ AbandonDeploy(s, sched)
          PROVE  UNCHANGED <<pc, job>> \/ (pc = "idle" /\ pc' = "run")
      BY <3>3 DEF StartDeploy, AbandonDeploy
    <3> QED  BY <1>1, <3>1, <3>2, <3>3, RequestCases
  <2> QED  BY <1>2, <1>3, <1>8, <2>1
<1>9. CASE FleetDeploy
  <2>1. ~Remove
    BY DEF Remove, RemoveContainers, RemoveRoute, RetireRemoved, Done, Goto, DeploySteps, SwapSteps, UndoSteps
  <2>2. CASE ~RunReplica /\ ~RunReplicaFails
    <3>1. Goto(pc')
      BY <1>9, <2>1, <2>2 DEF FleetDeploy, Deploy, SetStaging, HealthGate, Flip, RemoveStaging,
         RetireOldSet, RetireOldRow, RecordRunning, UndoStaging, Discard, RecordFailed, Goto, Done,
         DeploySteps, SwapSteps, UndoSteps
    <3> QED  BY <1>6, <1>9, <2>1, <2>2, <3>1 DEF FleetDeploy
  <2> QED  BY <1>5, <2>2
<1>10. CASE FleetEnvironment
  BY <1>2, <1>7, <1>10 DEF FleetEnvironment, CrashRestart, Done, Die, DeploySteps, SwapSteps, UndoSteps
<1>11. CASE Common \/ Heal \/ EvacRun \/ EvacRemoveOld
  <2>1. UNCHANGED <<pc, job>>
    BY <1>11 DEF Common, OpSetStaging, OpGate, OpUnstage, OpFlip, OpUndo, OpDiscard, OpSave,
       Heal, HealRemoveOld, HealRun, EvacRun, EvacRemoveOld, vars, holder
  <2> QED  BY <1>2, <2>1
<1>12. CASE \/ UNCHANGED all \/ LoopProbe \/ LoopLocks \/ EvacEnd
            \/ \E a \in Apps : LoopRead(a) \/ BackoffElapses(a) \/ EvacReplicas(a) \/ EvacGivesUp(a)
            \/ \E n \in Managed : LoopNode(n) \/ Cordon(n) \/ Evacuate(n)
                                    \/ Uncordon(n) \/ GoAway(n) \/ ComeBack(n)
  <2>1. UNCHANGED <<pc, job>>
    BY <1>12 DEF all, LoopProbe, LoopLocks, LoopClear, HealSkip, HealStart, EvacFailover, EvacStart,
       Evacuate, EvacEnd, LoopRead, BackoffElapses, LoopNode, Cordon, Uncordon, GoAway, ComeBack,
       EvacReplicas, EvacGivesUp, AbandonDeploy, vars
  <2> QED  BY <1>2, <2>1
<1> QED  BY <1>4, <1>8, <1>9, <1>10, <1>11, <1>12 DEF FleetNext, Operation, Evac

-----------------------------------------------------------------------------
(* The parts of Drains *)

\* The candidate has as many replicas as it is to have; so has every row that runs.
LEMMA NextFullSets ==
  ASSUME "store" \notin Faults, NoRollbacks, DrainInv, FInv', [FleetNext]_all PROVE FullSets'
<1>1. FInv /\ SInv /\ IInv /\ FullSets /\ rows \in Seq(Row)
  BY DrainParts
<1>2. ASSUME pc' \in DeploySteps
      PROVE  /\ Len(job'.new) <= job'.spec.count
             /\ pc' \notin {"run"} \cup UndoSteps => Len(job'.new) = job'.spec.count
  <2>1. ASSUME NEW s, NEW sched, StartDeploy(s, sched)
        PROVE  pc' = "run" /\ Len(job'.new) <= job'.spec.count
    <3>1. pc' = "run" /\ job'.new = <<>>
      BY <2>1 DEF StartDeploy
    <3>2. job' \in Job
      BY <1>2, <3>1 DEF FInv, IInv, TypeOK, HolderTypeOK
    <3> QED  BY <3>1, <3>2 DEF Job, Spec0
  <2>2. ASSUME pc = "run", job' = [job EXCEPT !.new = Append(@, Len(conts) + 1)],
               pc' \in {"run", "stage", "undo"}, pc' = "stage" => NextReplica = job.spec.count
        PROVE  /\ Len(job'.new) <= job'.spec.count
               /\ pc' \notin {"run"} \cup UndoSteps => Len(job'.new) = job'.spec.count
    <3>1. job \in Job /\ Len(job.new) < job.spec.count
      BY <1>1, <2>2, JobTyped DEF IInv, HolderOK
    <3>2. job'.spec = job.spec /\ Len(job'.new) = Len(job.new) + 1
      BY <2>2, <3>1 DEF Job
    <3>3. Len(job.new) \in Nat /\ job.spec.count \in Nat
      BY <3>1 DEF Job, Spec0
    <3> QED  BY <2>2, <3>1, <3>2, <3>3 DEF NextReplica, UndoSteps
  <2>3. CASE /\ pc \in DeploySteps /\ job'.new = job.new /\ job'.spec = job.spec
             /\ pc' \notin {"run"} \cup UndoSteps => pc \notin {"run"} \cup UndoSteps
    BY <1>1, <1>2, <2>3 DEF FullSets
  <2> QED  BY <1>2, <2>1, <2>2, <2>3, JobCases DEF UndoSteps
<1>3. ASSUME NEW i \in RowIds', rows'[i].status = "running"
      PROVE  Len(rows'[i].reps) = rows'[i].spec.count
  <2>1. CASE TableKept
    BY <1>1, <1>3, <2>1 DEF TableKept, FullSets
  <2>2. ASSUME NEW a, Retires(a) PROVE Len(rows'[i].reps) = rows'[i].spec.count
    BY <1>1, <1>3, <2>2 DEF Retires, FullSets
  <2>3. ASSUME NEW a, RecordRunning, Records(a) PROVE Len(rows'[i].reps) = rows'[i].spec.count
    <3>1. CASE i \in RowIds
      BY <1>1, <1>3, <2>3, <3>1 DEF Records, FullSets
    <3>2. CASE i \notin RowIds
      <4>1. rows'[i].reps = job.new /\ rows'[i].spec = job.spec
        BY <1>3, <2>3, <3>2 DEF Records, NewRow
      <4>2. pc \in DeploySteps \ ({"run"} \cup UndoSteps)
        BY <2>3 DEF RecordRunning, DeploySteps, SwapSteps, UndoSteps
      <4> QED  BY <1>1, <4>1, <4>2 DEF FullSets
    <3> QED  BY <3>1, <3>2
  <2>4. CASE Saves
    <3>1. /\ i \in RowIds /\ rows'[i].status = rows[i].status /\ rows'[i].spec = rows[i].spec
          /\ i # op.row => rows'[i] = rows[i]
          /\ i = op.row => /\ rows'[i].reps = Merged /\ Merged \in Seq(Nat)
                           /\ DOMAIN Merged = DOMAIN rows[i].reps
      BY <1>1, <1>3, <2>4, SavedRow
    <3>2. Len(rows[i].reps) = rows[i].spec.count /\ rows[i].reps \in Seq(Nat)
      BY <1>1, <1>3, <3>1, WorldTyped DEF FullSets
    <3>3. i = op.row => Len(Merged) = Len(rows[i].reps)
      BY <3>1, <3>2
    <3> QED  BY <3>1, <3>2, <3>3
  <2> QED  BY <1>1, <2>1, <2>2, <2>3, <2>4, FleetTable
<1> QED  BY <1>2, <1>3 DEF FullSets

\* The candidate of a deploy is where the scheduler has placed it, and not on such a node.
LEMMA CandidateAvoids ==
  ASSUME "store" \notin Faults, NoRollbacks, DrainInv, FInv', [FleetNext]_all, pc' \in DeploySteps
  PROVE  /\ \A k \in DOMAIN job'.new : conts'[job'.new[k]].node = job'.tgt[k]
         /\ job'.sched => \A k \in DOMAIN job'.tgt : job'.tgt[k] \notin Shut'
<1>1. FInv /\ IInv /\ AvoidsShut /\ ContsKept /\ conts \in Seq(Container) /\ WorldTypeOK
  BY DrainParts, WorldTyped, FleetKeepsConts
<1>2. pc \in DeploySteps =>
        /\ Shut' \subseteq Shut
        /\ \A k \in DOMAIN job.new : job.new[k] \in ContIds /\ conts[job.new[k]].node = job.tgt[k]
        /\ job.sched => \A k \in DOMAIN job.tgt : job.tgt[k] \notin Shut
  BY <1>1, ShutDuringDeploy, ListedConts DEF AvoidsShut, NodeOf, DeploySteps, SwapSteps, UndoSteps, SeqSet
<1>3. ASSUME NEW s, NEW sched, StartDeploy(s, sched) PROVE DOMAIN job'.new = {}
  BY <1>3 DEF StartDeploy
<1>4. ASSUME pc = "run", StartContainer, job' = [job EXCEPT !.new = Append(@, Len(conts) + 1)]
      PROVE  /\ \A k \in DOMAIN job'.new : conts'[job'.new[k]].node = job'.tgt[k]
             /\ job'.sched => \A k \in DOMAIN job'.tgt : job'.tgt[k] \notin Shut'
  <2>1. job \in Job /\ pc \in DeploySteps
    BY <1>1, <1>4, JobTyped DEF DeploySteps
  <2>2. /\ job'.tgt = job.tgt /\ job'.sched = job.sched
        /\ job'.new = Append(job.new, Len(conts) + 1) /\ job.new \in Seq(Nat)
    BY <1>4, <2>1 DEF Job
  <2>3. PICK ready \in BOOLEAN :
          conts' = Append(conts, NewContainer(job.app, job.tgt[NextReplica], job.id, ReplicaIdx, ready))
    BY <1>4 DEF StartContainer
  <2>4. PICK k : k = NewContainer(job.app, job.tgt[NextReplica], job.id, ReplicaIdx, ready)
    OBVIOUS
  <2>5. k \in Container /\ k.node = job.tgt[Len(job.new) + 1]
    BY <1>1, <1>4, <2>4, NextReplicaTyped DEF NewContainer, NextReplica
  <2>6. conts'[Len(conts) + 1] = k
    BY <1>1, <2>3, <2>4, <2>5, ContainersAppended
  <2>7. ASSUME NEW j \in DOMAIN job'.new PROVE conts'[job'.new[j]].node = job'.tgt[j]
    <3>1. CASE j \in DOMAIN job.new
      <4>1. job'.new[j] = job.new[j]
        BY <2>2, <3>1
      <4>2. job.new[j] \in ContIds /\ conts[job.new[j]].node = job.tgt[j]
        BY <1>2, <2>1, <3>1
      <4>3. conts'[job.new[j]].node = conts[job.new[j]].node
        BY <1>1, <4>2 DEF ContsKept
      <4> QED  BY <2>2, <4>1, <4>2, <4>3
    <3>2. CASE j \notin DOMAIN job.new
      <4>1. j = Len(job.new) + 1 /\ job'.new[j] = Len(conts) + 1
        BY <2>2, <2>7, <3>2
      <4> QED  BY <2>2, <2>5, <2>6, <4>1
    <3> QED  BY <3>1, <3>2
  <2> QED  BY <1>2, <2>1, <2>2, <2>7
<1>5. CASE /\ pc \in DeploySteps
           /\ job'.new = job.new /\ job'.tgt = job.tgt /\ job'.sched = job.sched
  BY <1>1, <1>2, <1>5 DEF ContsKept
<1> QED  BY <1>3, <1>4, <1>5, JobCases

\* So is the container that is to replace a replica that is moved.
LEMMA MoveAvoids ==
  ASSUME "store" \notin Faults, DrainInv, FInv', [FleetNext]_all, Working', ~Healing', op'.at # "pick"
  PROVE  conts'[op'.fresh[1]].node \notin Shut'
<1>1. /\ FInv /\ AvoidsShut /\ ContsKept /\ op \in Op /\ op.node \in Nodes /\ drained \subseteq cordoned
  BY DrainParts, OpTyped, FleetKeepsConts
<1>2. /\ op'.kind \notin {"none", "heal"} /\ op'.at \notin {"apps", "pick"}
  BY DEF Working, Healing
<1>3. ASSUME Working, ~Healing, op.at # "pick"
      PROVE  conts'[op.fresh[1]].node \notin Shut
  <2>1. op.fresh[1] \in ContIds
    <3>1. op.fresh # <<>> /\ op.fresh \in Seq(Nat) /\ SeqSet(op.fresh) \subseteq ContIds
      BY <1>1, <1>3, OpTyped, WorkTyped DEF PlacedApart
    <3>2. 1 \in DOMAIN op.fresh
      BY <3>1
    <3> QED  BY <3>1, <3>2 DEF SeqSet
  <2>2. conts[op.fresh[1]].node \notin Shut
    BY <1>1, <1>3 DEF AvoidsShut, NodeOf
  <2> QED  BY <1>1, <2>1, <2>2 DEF ContsKept
<1>4. CASE UNCHANGED op /\ drained' \subseteq drained
  <2>1. Shut' \subseteq Shut
    BY <1>4 DEF Shut
  <2>2. Working /\ ~Healing /\ op.at # "pick"
    BY <1>4 DEF Working, Healing
  <2> QED  BY <1>3, <1>4, <2>1, <2>2
<1>5. ASSUME Common \/ Heal \/ EvacRun \/ EvacRemoveOld, Working
      PROVE  conts'[op'.fresh[1]].node \notin Shut'
  <2>1. UNCHANGED drained /\ ~Healing
    BY <1>2, <1>5, <1>1, MoveCases DEF Healing
  <2>2. op.kind = "evac" /\ Shut = drained \cup {op.node}
    BY <1>1, <1>5, <2>1, WorkTyped DEF Shut
  <2>3. ASSUME NEW reps, NEW failed, NextMove(reps, failed) PROVE FALSE
    BY <1>1, <1>2, <2>3 DEF NextMove, Op
  <2>4. ASSUME NEW l, OpGoto(l), op.at # "pick" PROVE conts'[op'.fresh[1]].node \notin Shut'
    <3>1. op'.fresh = op.fresh /\ op'.kind = op.kind /\ op'.node = op.node
      BY <1>1, <2>4 DEF OpGoto, Op
    <3> QED  BY <1>3, <1>5, <2>1, <2>4, <3>1 DEF Shut
  <2>5. ASSUME NEW m \in NewHomes, RunOn(m, NextDeployID), NEW l,
               op' = [op EXCEPT !.at = l, !.id = NextDeployID, !.fresh = <<Len(conts) + 1>>]
        PROVE  conts'[op'.fresh[1]].node \notin Shut'
    <3>1. op'.fresh[1] = Len(conts) + 1 /\ op'.kind = op.kind /\ op'.node = op.node
      BY <1>1, <2>5 DEF Op
    <3>2. m \in Nodes /\ m \notin cordoned /\ m # op.node
      BY DEF NewHomes, Candidates
    <3>3. NextDeployID \in Nat
      BY <1>1, WorldTyped DEF NextDeployID
    <3>4. op.todo # <<>>
      BY <1>1, <1>5, <2>1, WorkTyped DEF WorkOK
    <3>5. conts'[Len(conts) + 1].node = m
      BY <1>1, <1>5, <2>5, <3>2, <3>3, <3>4, RunOnConts
    <3>6. Shut' = Shut
      BY <2>1, <3>1 DEF Shut
    <3> QED  BY <1>1, <2>2, <3>1, <3>2, <3>5, <3>6
  <2> QED  BY <1>1, <1>2, <1>5, <2>3, <2>4, <2>5, MoveCases
<1>6. CASE op' = NoOp \/ EvacEnd \/ HealStart \/ \E n, byLoop : EvacStart(n, byLoop)
  BY <1>2, <1>6, RestOK DEF EvacEnd, HealStart, EvacStart, NoOp
<1>7. CASE \E a \in Apps : EvacRedeploy(a) \/ EvacGivesUp(a) \/ EvacReplicas(a)
  <2>1. op.kind = "evac" /\ op.at = "apps"
    BY <1>7 DEF EvacRedeploy, EvacGivesUp, EvacReplicas, NextApp, At
  <2>2. op'.at \in {"apps", "pick"}
    BY <1>1, <1>7, <2>1 DEF EvacRedeploy, EvacGivesUp, EvacReplicas, Op
  <2> QED  BY <1>2, <2>2
<1> QED  BY <1>1, <1>4, <1>5, <1>6, <1>7, OpCases

LEMMA NextAvoidsShut ==
  ASSUME "store" \notin Faults, NoRollbacks, DrainInv, FInv', [FleetNext]_all PROVE AvoidsShut'
BY CandidateAvoids, MoveAvoids DEF AvoidsShut, NodeOf

\* What an evacuation may have left of app a on its node n so far.
Left(a, n) ==
  \/ ~ToMove(a, n)
  \/ Working /\ a = App /\ AffectedIdx(a, n) \subseteq SeqSet(op.todo)
  \/ ~Working /\ Unmoved /\ a = App

LEMMA LeftParts ==
  ASSUME DrainInv, op.kind = "evac"
  PROVE  /\ op.row # 0 => op.row \in RowIds
         /\ ~op.failed => \A a \in Apps \ op.apps : Left(a, op.node)
BY DrainParts DEF LeavesNothing, Left

LEMMA LeavesNothingAfter ==
  ASSUME op'.kind = "evac" =>
           /\ op'.row # 0 => op'.row \in RowIds'
           /\ ~op'.failed => \A a \in Apps \ op'.apps : Left(a, op.node)'
  PROVE  LeavesNothing'
BY DEF LeavesNothing, Left

\* The deployment a redeploy replaces is retired, or is still the current one.
LEMMA RedeployGoesOn ==
  ASSUME "store" \notin Faults, DrainInv, [FleetNext]_all, ~Working, Unmoved, op.row \in RowIds, UNCHANGED op,
         NEW a, a = App, NEW n, ToMove(a, n)'
  PROVE  Unmoved' /\ a = App'
<1>1. FInv /\ SInv /\ WorldTypeOK /\ OneRunning
  BY DrainParts
<1>2. PICK c : c = op.row
  OBVIOUS
<1>3. c = CurrentDeployment(a) /\ c # 0 /\ c \in RowIds
  <2>1. c \in WithStatus(a, "running")
    BY <1>2 DEF WithStatus, Unmoved, App
  <2> QED  BY <1>1, <1>2, <2>1, CurrentIsRunning DEF Unmoved
<1>4. CurrentDeployment(a)' # 0
  BY DEF ToMove, AffectedIdx
<1>5. CurrentDeployment(a)' = c
  <2>1. CASE TableKept
    BY <1>3, <2>1, CurrentKept
  <2>2. ASSUME NEW b, Retires(b) PROVE CurrentDeployment(a)' = c
    BY <1>3, <1>4, <2>2 DEF Retires
  <2>3. ASSUME NEW b, Records(b) PROVE CurrentDeployment(a)' = c
    BY <1>3, <2>3 DEF Records
  <2>4. CASE Saves
    BY <1>1, <1>3, <2>4, SavedRow
  <2> QED  BY <1>1, <2>1, <2>2, <2>3, <2>4, FleetTable
<1>6. WorldTypeOK'
  BY <1>1, NextFInv, FleetParts DEF FInv, IInv, TypeOK
<1>7. rows'[c].status = "running" /\ rows'[c].app = a
  <2>1. WorldTypeOK' => (CurrentDeployment(a) # 0 => CurrentDeployment(a) \in WithStatus(a, "running"))'
    BY CurrentRow, PTL
  <2>2. c \in WithStatus(a, "running")'
    BY <1>3, <1>5, <1>6, <2>1
  <2> QED  BY <2>2 DEF WithStatus
<1> QED  BY <1>2, <1>3, <1>7 DEF Unmoved, App

\* What is not on the node does not get there.
LEMMA NothingComes ==
  ASSUME "store" \notin Faults, DrainInv, [FleetNext]_all, op.kind = "evac", op'.node = op.node,
         NEW a \in Apps, ~ToMove(a, op.node)
  PROVE  Left(a, op.node)'
<1>1. PICK n : n = op.node
  OBVIOUS
<1>2. n \in Shut
  BY <1>1 DEF Shut
<1>3. ~ToMove(a, n)'
  BY <1>1, <1>2, ToMoveShrinks
<1>4. op'.node = n
  BY <1>1
<1> QED  BY <1>3, <1>4 DEF Left

\* What is still to be moved of the app at work.
LEMMA StillToMove ==
  ASSUME "store" \notin Faults, DrainInv, [FleetNext]_all, Working, op.kind = "evac",
         op'.kind = "evac", op'.at # "apps", op'.node = op.node, op'.row = op.row, op'.todo = op.todo,
         NEW a \in Apps, Left(a, op.node)
  PROVE  Left(a, op.node)'
<1>1. CASE ~ToMove(a, op.node)
  BY <1>1, NothingComes
<1>2. CASE a = App /\ AffectedIdx(a, op.node) \subseteq SeqSet(op.todo)
  <2>1. PICK n, s, c : n = op.node /\ s = op.todo /\ c = op.row
    OBVIOUS
  <2>2. n \in Shut
    BY <2>1 DEF Shut
  <2>3. CASE ~ToMove(a, n)'
    BY <2>1, <2>3 DEF Left
  <2>4. CASE ToMove(a, n)'
    <3>1. AffectedIdx(a, n)' \subseteq SeqSet(s)
      BY <1>2, <2>1, <2>2, <2>4, ToMoveShrinks
    <3>2. rows'[c].app = a
      BY <1>2, <2>1, DrainParts, WorkTyped, RowsRemain DEF App
    <3>3. op'.node = n /\ op'.todo = s /\ op'.row = c /\ op'.kind = "evac" /\ op'.at # "apps"
      BY <2>1
    <3> QED  BY <3>1, <3>2, <3>3 DEF Left, Working, App
  <2> QED  BY <2>3, <2>4
<1> QED  BY <1>1, <1>2 DEF Left

\* A replica has been moved: the next one, or the next app.
LEMMA MovedOn ==
  ASSUME "store" \notin Faults, DrainInv, [FleetNext]_all, ~Healing, Saves, NextMove(Merged, FALSE),
         NEW a \in Apps, Left(a, op.node)
  PROVE  Left(a, op.node)'
<1>1. FInv /\ Working /\ op \in Op /\ op.todo \in Seq(Nat)
  BY DrainParts, SavedRow, OpTyped
<1>2. op.kind = "evac" /\ op.todo # <<>>
  BY <1>1, WorkTyped DEF WorkOK
<1>3. PICK n, i, s, c : n = op.node /\ i = Idx /\ s = op.todo /\ c = op.row
  OBVIOUS
<1>4. /\ op'.kind = "evac" /\ op'.node = n /\ op'.todo = Tail(s)
      /\ Len(s) # 1 => op'.at = "pick" /\ op'.row = c
  BY <1>1, <1>2, <1>3 DEF NextMove, Op
<1>5. n \in Shut
  BY <1>2, <1>3 DEF Shut
<1>6. CASE ~ToMove(a, op.node)
  BY <1>2, <1>3, <1>4, <1>6, NothingComes
<1>7. CASE a = App /\ AffectedIdx(a, op.node) \subseteq SeqSet(op.todo)
  <2>1. CASE ~ToMove(a, n)'
    BY <1>4, <2>1 DEF Left
  <2>2. CASE ToMove(a, n)'
    <3>1. AffectedIdx(a, n)' \subseteq SeqSet(s)
      BY <1>3, <1>5, <1>7, <2>2, ToMoveShrinks
    <3>2. i \notin AffectedIdx(a, n)'
      BY <1>3, <1>5, <1>7, MovedAway
    <3>3. SeqSet(s) \subseteq {i} \cup SeqSet(Tail(s))
      <4>1. ASSUME NEW k \in DOMAIN s PROVE s[k] = i \/ s[k] \in SeqSet(Tail(s))
        <5>1. CASE k = 1
          BY <1>3, <5>1 DEF Idx
        <5>2. CASE k # 1
          <6>1. k \in 2..Len(s) /\ s \in Seq(Nat) /\ Len(s) \in Nat
            BY <1>1, <1>3, <4>1, <5>2
          <6>2. k - 1 \in DOMAIN Tail(s) /\ Tail(s)[k - 1] = s[k]
            BY <1>2, <1>3, <6>1
          <6> QED  BY <6>2 DEF SeqSet
        <5> QED  BY <5>1, <5>2
      <4> QED  BY <4>1 DEF SeqSet
    <3>4. AffectedIdx(a, n)' \subseteq SeqSet(Tail(s))
      BY <3>1, <3>2, <3>3
    <3>5. AffectedIdx(a, n)' # {}
      BY <2>2 DEF ToMove
    <3>6. Len(s) # 1
      <4>1. ASSUME Len(s) = 1 PROVE SeqSet(Tail(s)) = {}
        <5>1. Tail(s) \in Seq(Nat) /\ Len(Tail(s)) = 0
          BY <1>1, <1>2, <1>3, <4>1, HeadTailProperties
        <5>2. Tail(s) = <<>>
          BY <5>1, EmptySeq
        <5> QED  BY <5>2 DEF SeqSet
      <4> QED  BY <3>4, <3>5, <4>1
    <3>7. rows'[c].app = a
      BY <1>1, <1>3, <1>7, DrainParts, WorkTyped, RowsRemain DEF App
    <3> QED  BY <1>4, <3>4, <3>6, <3>7 DEF Left, Working, App
  <2> QED  BY <2>1, <2>2
<1> QED  BY <1>1, <1>6, <1>7 DEF Left

\* The next app is looked at: a single replica is redeployed, a set is begun with.
LEMMA NextAppLeft ==
  ASSUME "store" \notin Faults, DrainInv, [FleetNext]_all, NEW a \in Apps, EvacRedeploy(a) \/ EvacReplicas(a),
         ~op'.failed, NEW b \in Apps \ op'.apps
  PROVE  Left(b, op.node)'
<1>1. /\ FInv /\ op \in Op /\ op.kind = "evac" /\ op.at = "apps" /\ ~Working /\ WorldTypeOK
      /\ CurrentDeployment(a) \in RowIds /\ UNCHANGED <<rows, conts>>
  BY DrainParts, NextAppRow DEF EvacRedeploy, EvacReplicas, StartDeploy, vars
<1>2. PICK n, c : n = op.node /\ c = CurrentDeployment(a)
  OBVIOUS
<1>3. /\ op'.kind = "evac" /\ op'.node = n /\ op'.row = c /\ op'.apps = op.apps \ {a}
      /\ ~op.failed /\ ~Unmoved
  <2>1. CASE op' = [op EXCEPT !.apps = @ \ {a}, !.row = CurrentDeployment(a), !.failed = @ \/ Unmoved]
    BY <1>1, <1>2, <2>1 DEF Op
  <2>2. CASE op' = [op EXCEPT !.apps = @ \ {a}, !.at = "pick", !.failed = @ \/ Unmoved,
                              !.row = CurrentDeployment(a), !.reps = rows[CurrentDeployment(a)].reps,
                              !.todo = InOrder(AffectedIdx(a, op.node))]
    BY <1>1, <1>2, <2>2 DEF Op
  <2> QED  BY <2>1, <2>2 DEF EvacRedeploy, EvacReplicas
<1>4. c # 0 /\ rows[c].app = a /\ rows[c].status = "running" /\ c \in RowIds
  BY <1>1, <1>2, WorldTyped, CurrentRow DEF WithStatus, RowIds
<1>5. CASE b # a
  <2>1. Left(b, op.node)
    BY <1>1, <1>3, <1>5, LeftParts
  <2>2. ~ToMove(b, op.node)
    BY <1>1, <1>3, <2>1 DEF Left
  <2> QED  BY <1>1, <1>2, <1>3, <2>2, NothingComes
<1>6. CASE b = a /\ EvacRedeploy(a)
  <2>1. op'.at = "apps"
    BY <1>1, <1>6 DEF EvacRedeploy, Op
  <2>2. rows'[c].app = a /\ rows'[c].status = "running"
    BY <1>1, <1>4
  <2> QED  BY <1>3, <1>4, <1>6, <2>1, <2>2 DEF Left, Working, Unmoved, App
<1>7. CASE b = a /\ EvacReplicas(a)
  <2>1. PICK is : is = AffectedIdx(a, n)
    OBVIOUS
  <2>2. op'.at = "pick" /\ op'.todo = InOrder(is)
    BY <1>1, <1>2, <1>7, <2>1 DEF EvacReplicas, Op
  <2>3. is \subseteq DOMAIN rows[c].reps /\ rows[c].reps \in Seq(Nat)
    BY <1>1, <1>2, <1>4, <2>1, WorldTyped DEF AffectedIdx
  <2>4. is \subseteq SeqSet(InOrder(is))
    BY <2>3, IndexesFinite, InOrderCovers
  <2>5. AffectedIdx(a, n)' = is
    BY <1>1, <2>1 DEF AffectedIdx, NodeOf, CurrentDeployment, WithStatus, RowIds
  <2>6. rows'[c].app = a
    BY <1>1, <1>4
  <2> QED  BY <1>3, <1>7, <2>2, <2>4, <2>5, <2>6 DEF Left, Working, App
<1> QED  BY <1>5, <1>6, <1>7

LEMMA NextLeavesNothing ==
  ASSUME "store" \notin Faults, DrainInv, [FleetNext]_all PROVE LeavesNothing'
<1>1. /\ FInv /\ SInv /\ op \in Op /\ op.row \in Nat
      /\ \A i \in RowIds : i \in RowIds' /\ rows'[i].app = rows[i].app
  BY DrainParts, OpTyped, RowsRemain
<1> SUFFICES ASSUME op'.kind = "evac"
             PROVE  /\ op'.row # 0 => op'.row \in RowIds'
                    /\ ~op'.failed => \A a \in Apps \ op'.apps : Left(a, op.node)'
  BY LeavesNothingAfter
<1>2. CASE UNCHANGED op
  <2>1. op.kind = "evac" /\ op'.node = op.node
    BY <1>2
  <2>2. op.row # 0 => op.row \in RowIds
    BY <2>1, LeftParts
  <2>3. ASSUME ~op.failed, NEW a \in Apps \ op.apps PROVE Left(a, op.node)'
    <3>1. Left(a, op.node)
      BY <2>1, <2>3, LeftParts
    <3>2. CASE Working
      BY <1>2, <2>1, <3>1, <3>2, StillToMove DEF Working
    <3>3. CASE ~Working /\ ~ToMove(a, op.node)
      BY <2>1, <3>3, NothingComes
    <3>4. CASE ~Working /\ Unmoved /\ a = App
      <4>1. PICK n : n = op.node
        OBVIOUS
      <4>2. op.row \in RowIds /\ op'.node = n /\ ~Working'
        BY <1>2, <2>1, <2>2, <3>4, <4>1 DEF Unmoved, Working
      <4>3. CASE ~ToMove(a, n)'
        BY <4>2, <4>3 DEF Left
      <4>4. CASE ToMove(a, n)'
        <5>1. Unmoved' /\ a = App'
          BY <1>2, <3>4, <4>2, <4>4, RedeployGoesOn
        <5> QED  BY <4>2, <5>1 DEF Left
      <4> QED  BY <4>3, <4>4
    <3> QED  BY <3>1, <3>2, <3>3, <3>4 DEF Left
  <2> QED  BY <1>1, <1>2, <2>2, <2>3
<1>3. CASE op' = NoOp \/ HealStart \/ EvacEnd
  BY <1>3, <1>1, RestOK DEF HealStart, EvacEnd, NoOp
<1>4. ASSUME NEW n, NEW byLoop, EvacStart(n, byLoop)
      PROVE  op'.row = 0 /\ Apps \ op'.apps = {}
  BY <1>4 DEF EvacStart, NoOp
<1>5. ASSUME NEW a \in Apps, EvacRedeploy(a) \/ EvacReplicas(a)
      PROVE  /\ op'.row # 0 => op'.row \in RowIds'
             /\ ~op'.failed => \A b \in Apps \ op'.apps : Left(b, op.node)'
  <2>1. CurrentDeployment(a) \in RowIds
    BY <1>1, <1>5, NextAppRow DEF EvacRedeploy, EvacReplicas
  <2>2. op'.row = CurrentDeployment(a)
    BY <1>1, <1>5 DEF EvacRedeploy, EvacReplicas, Op
  <2>3. op'.row \in RowIds'
    BY <1>1, <2>1, <2>2
  <2> QED  BY <1>5, <2>3, NextAppLeft
<1>6. ASSUME NEW a \in Apps, EvacGivesUp(a) PROVE op'.row = 0 /\ op'.failed
  BY <1>1, <1>6 DEF EvacGivesUp, Op
<1>7. ASSUME Common \/ Heal \/ EvacRun \/ EvacRemoveOld, Working
      PROVE  /\ op'.row # 0 => op'.row \in RowIds'
             /\ ~op'.failed => \A a \in Apps \ op'.apps : Left(a, op.node)'
  <2>1. op.row \in RowIds /\ (~Healing => op.kind = "evac") /\ (~op.failed \/ op.failed)
    BY <1>1, <1>7, WorkTyped
  <2>2. ASSUME NEW reps, NEW failed \in BOOLEAN, NextMove(reps, failed)
        PROVE  /\ op'.row \in {0, op.row} /\ (op'.failed <=> op.failed \/ failed)
               /\ op'.apps = op.apps
    <3>1. op.failed \in BOOLEAN
      BY <1>1, OpTyped
    <3> QED  BY <1>1, <2>2, <3>1 DEF NextMove, Op
  <2>3. CASE ~Healing /\ NextMove(op.reps, TRUE)
    <3>1. op'.row \in {0, op.row} /\ op'.failed
      BY <2>2, <2>3
    <3> QED  BY <1>1, <2>1, <3>1
  <2>4. CASE ~Healing /\ Saves /\ NextMove(Merged, FALSE)
    <3>1. op'.row \in {0, op.row} /\ (op'.failed <=> op.failed) /\ op'.apps = op.apps
      BY <2>2, <2>4
    <3>2. ASSUME ~op.failed, NEW a \in Apps \ op.apps PROVE Left(a, op.node)'
      <4>1. Left(a, op.node)
        BY <2>1, <2>4, <3>2, LeftParts
      <4> QED  BY <2>4, <4>1, MovedOn
    <3> QED  BY <1>1, <2>1, <3>1, <3>2
  <2>5. ASSUME ~Healing, op'.at # "apps", op'.node = op.node, op'.row = op.row, op'.todo = op.todo,
               op'.failed = op.failed, op'.apps = op.apps
        PROVE  /\ op'.row # 0 => op'.row \in RowIds'
               /\ ~op'.failed => \A a \in Apps \ op'.apps : Left(a, op.node)'
    <3>1. ASSUME ~op.failed, NEW a \in Apps \ op.apps PROVE Left(a, op.node)'
      <4>1. Left(a, op.node)
        BY <2>1, <2>5, <3>1, LeftParts
      <4> QED  BY <1>7, <2>1, <2>5, <4>1, StillToMove
    <3> QED  BY <1>1, <2>1, <2>5, <3>1
  <2>6. ASSUME ~Healing, NEW l, l # "apps", OpGoto(l)
        PROVE  /\ op'.at # "apps" /\ op'.node = op.node /\ op'.row = op.row /\ op'.todo = op.todo
               /\ op'.failed = op.failed /\ op'.apps = op.apps
    BY <1>1, <2>6 DEF OpGoto, Op
  <2>7. ASSUME ~Healing, NEW l \in {"stage", "undo"},
               op' = [op EXCEPT !.at = l, !.id = NextDeployID, !.fresh = <<Len(conts) + 1>>]
        PROVE  /\ op'.at # "apps" /\ op'.node = op.node /\ op'.row = op.row /\ op'.todo = op.todo
               /\ op'.failed = op.failed /\ op'.apps = op.apps
    BY <1>1, <2>7 DEF Op
  <2> QED  BY <1>1, <1>7, <2>3, <2>4, <2>5, <2>6, <2>7, MoveCases
<1> QED  BY <1>1, <1>2, <1>3, <1>4, <1>5, <1>6, <1>7, OpCases

\* An evacuation ends without a failure: nothing of the apps is left.
LEMMA NextDrained ==
  ASSUME "store" \notin Faults, DrainInv, [FleetNext]_all PROVE DrainedStaysEmpty'
<1> SUFFICES ASSUME NEW n \in drained', NEW a \in Apps PROVE ~ToMove(a, n)'
  BY DEF DrainedStaysEmpty
<1>1. CASE n \in drained
  <2>1. n \in Shut /\ ~ToMove(a, n)
    BY <1>1, DrainParts DEF Shut, DrainedStaysEmpty
  <2> QED  BY <2>1, ToMoveShrinks
<1>2. CASE n \notin drained
  <2>1. FInv
    BY DrainParts
  <2>2. EvacEnd
    BY <1>2, <2>1, OpCases, MoveCases DEF EvacStart, HealStart, EvacRedeploy, EvacGivesUp, EvacReplicas,
       nodeVars
  <2>3. /\ op.kind = "evac" /\ op.at = "apps" /\ n = op.node /\ ~op.failed /\ ~Unmoved
        /\ a \in op.apps => ~ToMove(a, n)
    BY <1>2, <2>2 DEF EvacEnd, At
  <2>4. ~ToMove(a, n)
    BY <2>3, LeftParts DEF Left, Working
  <2>5. n \in Shut
    BY <2>3 DEF Shut
  <2> QED  BY <2>4, <2>5, ToMoveShrinks
<1> QED  BY <1>1, <1>2

LEMMA NextDrainInv ==
  ASSUME "store" \notin Faults, NoRollbacks, DrainInv, [FleetNext]_all PROVE DrainInv'
<1>1. FInv /\ SInv
  BY DrainParts
<1>2. FInv'
  BY <1>1, NextFInv
<1> QED  BY <1>1, <1>2, FleetSInv, NextFullSets, NextAvoidsShut, NextLeavesNothing, NextDrained
         DEF DrainInv, Drains

LEMMA InitDrainInv == FleetInit => DrainInv
<1> SUFFICES ASSUME FleetInit PROVE DrainInv
  OBVIOUS
<1>1. FInv /\ SInv
  BY InitFInv, InitSInv DEF FleetInit
<1>2. RowIds = {} /\ pc = "idle" /\ op = NoOp /\ drained = {}
  BY DEF FleetInit, Init, WorldInit, RowIds
<1>3. FullSets /\ AvoidsShut /\ LeavesNothing /\ DrainedStaysEmpty
  BY <1>2, RestOK DEF FullSets, AvoidsShut, LeavesNothing, DrainedStaysEmpty, Working, DeploySteps,
     SwapSteps, UndoSteps
<1> QED  BY <1>1, <1>3 DEF DrainInv, Drains

\* What keeps a node empty, at every step: a cordoned node that was reported
\* emptied is in nobody's candidates, targets or rows, and an evacuation that has
\* gone past an app without a failure has left nothing of it (EvacuateNode,
\* schedulableCandidates, evacuateReplicasLocked).
THEOREM DrainInductive ==
  ASSUME "store" \notin Faults PROVE FleetSpec /\ []NoRollbacks => []Drains
<1>1. DrainInv /\ NoRollbacks /\ [FleetNext]_all => DrainInv'
  BY NextDrainInv
<1>2. DrainInv => Drains
  BY DEF DrainInv
<1> QED  BY InitDrainInv, <1>1, <1>2, PTL DEF FleetSpec

\* A cordoned node that an evacuation has reported emptied gets nothing from the
\* scheduler until it is uncordoned, whatever dies, is away, cannot be started or
\* posted, and wherever the daemon restarts, as long as the store takes its writes
\* and nobody rolls back (EvacuateNode, schedulableCandidates,
\* evacuateReplicasLocked).
THEOREM DrainHolds ==
  ASSUME "store" \notin Faults PROVE FleetSpec /\ []NoRollbacks => []DrainedStaysEmpty
<1>1. Drains => DrainedStaysEmpty
  BY DEF Drains
<1> QED  BY <1>1, DrainInductive, PTL

=============================================================================
