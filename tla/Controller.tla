----------------------------- MODULE Controller -----------------------------
(***************************************************************************)
(* The state the lwd controller works on, and the effects every operation  *)
(* of it is built from: the deployments table of the store, the containers *)
(* of every node, the route table of CaddyRouter and the one the Caddy     *)
(* process serves.  The modules that extend it add the operations.  A      *)
(* definition named after another one, with the word Defect, is a seeded   *)
(* defect of it: what a property must notice.                              *)
(***************************************************************************)
EXTENDS Naturals, Sequences, FiniteSets

CONSTANTS
  Apps,      \* application names
  Nodes,     \* node names, Local among them
  Local,     \* the controller's own Docker daemon
  AnyNode,   \* a spec's Node when it is left unset (Go: "")
  Domains,   \* public domains, NoDomain among them
  NoDomain,  \* a spec's Domain when it is left unset (Go: "")
  Specs,     \* the specs a client may submit
  Counts,    \* the replica counts a scale request may ask for
  Faults,    \* the kinds of failure that may happen (see FaultKinds)
  MaxRows,   \* bound: rows of the deployments table
  MaxConts   \* bound: containers ever created

(***************************************************************************)
(* The ways a call can fail.  "run": a container cannot be started (or its *)
(* network, image or backing network cannot be had); "lost": it was        *)
(* started but the reply never came; "remove": a container cannot be       *)
(* removed, or its node is known to be unreachable; "router": Caddy        *)
(* rejects a config; "ambiguous": Caddy applies a config but the call      *)
(* fails (timeout, or the Caddyfile cannot be written afterwards);         *)
(* "store": a call of the store fails (or, when the daemon starts, the     *)
(* listing of the containers); "cancel": the client hangs up and the       *)
(* request's context is cancelled; "crash": the daemon dies and is         *)
(* restarted; "die": a container exits; "inspect": a container cannot be   *)
(* inspected though its node answers (Fleet).                              *)
(***************************************************************************)
FaultKinds == {"run", "lost", "remove", "router", "ambiguous", "store",
               "cancel", "crash", "die", "inspect"}

(***************************************************************************)
(* The fields of spec.App the control flow looks at.  ver stands for       *)
(* everything else (image, env, ...); gate is the health policy checkHealth *)
(* ends up with for the image and spec; git says that the image is built   *)
(* from a branch, whose head at the time of the build is part of ver.      *)
(***************************************************************************)
Gates == {"path", "docker", "liveness"}
Spec0 == [app: Apps, ver: Nat, dom: Domains, count: Nat \ {0},
          node: Nodes \cup {AnyNode}, gate: Gates, git: BOOLEAN]

ASSUME DomainsAssumption == NoDomain \in Domains
ASSUME NodesAssumption == Local \in Nodes /\ AnyNode \notin Nodes
ASSUME SpecsAssumption == Specs \subseteq Spec0 /\ Counts \subseteq Nat \ {0}
ASSUME FaultsAssumption == Faults \subseteq FaultKinds
ASSUME BoundsAssumption == MaxRows \in Nat /\ MaxConts \in Nat

VARIABLES
  rows,     \* store: the deployments table, rows[id]
  conts,    \* Docker: every container ever created, conts[container id]
  routes,   \* CaddyRouter.routes: domain -> upstream set ({} = no route)
  stage,    \* CaddyRouter.staging: the staged hosts, by deploy id
  caddy     \* the route table the Caddy process serves

world == <<rows, conts, routes, stage, caddy>>
edge  == <<routes, stage, caddy>>

-----------------------------------------------------------------------------
(* Containers *)

(***************************************************************************)
(* A container: whose it is, the node it was started on, its name          *)
(* lwd-<app>-<dep>[-<idx>] (idx 0: no suffix), whether it is up, and       *)
(* whether what it runs is able to answer a readiness probe.               *)
(***************************************************************************)
ContState == {"running", "dead", "gone"}
Container == [app: Apps, node: Nodes, dep: Nat, idx: Nat,
              state: ContState, ready: BOOLEAN]

ContIds == DOMAIN conts
SeqSet(s) == {s[i] : i \in DOMAIN s}

\* Docker refuses a name a container of the node still holds, dead or not.
NameFree(a, n, dep, idx) ==
  \A c \in ContIds : \/ conts[c].state = "gone"
                     \/ <<conts[c].app, conts[c].node, conts[c].dep, conts[c].idx>>
                          # <<a, n, dep, idx>>

NewContainer(a, n, dep, idx, ready) ==
  [app |-> a, node |-> n, dep |-> dep, idx |-> idx,
   state |-> "running", ready |-> ready]

WithoutConts(cs) ==
  [c \in ContIds |-> IF c \in cs THEN [conts[c] EXCEPT !.state = "gone"] ELSE conts[c]]

(***************************************************************************)
(* What Caddy is told to proxy to: a local container by name on the shared *)
(* network, a remote one by the node's mesh address and the host port it   *)
(* was given, which is as unique as the container.                         *)
(***************************************************************************)
Upstream == [app: Apps, node: Nodes, dep: Nat, idx: Nat, port: Nat]

UpstreamOf(c) ==
  LET k == conts[c] IN
  IF k.node = Local
    THEN [app |-> k.app, node |-> Local, dep |-> k.dep, idx |-> k.idx, port |-> 0]
    ELSE [app |-> k.app, node |-> k.node, dep |-> 0, idx |-> 0, port |-> c]

Upstreams(s) == {UpstreamOf(s[i]) : i \in DOMAIN s}

\* The containers a request sent to upstream u can reach.
Behind(u) == {c \in ContIds : conts[c].state # "gone" /\ UpstreamOf(c) = u}

-----------------------------------------------------------------------------
(* The deployments table *)

Status == {"running", "failed", "retired"}
Row == [app: Apps, status: Status, spec: Spec0, sched: BOOLEAN, reps: Seq(Nat)]

RowIds == DOMAIN rows
WithStatus(a, st) == {i \in RowIds : rows[i].app = a /\ rows[i].status = st}

\* The newest of a set of row ids, 0 if there is none (ORDER BY id DESC LIMIT 1).
Newest(ids) ==
  IF ids = {} THEN 0 ELSE CHOOSE i \in ids : \A j \in ids : j <= i

CurrentDeployment(a)  == Newest(WithStatus(a, "running"))
PreviousDeployment(a) == Newest(WithStatus(a, "retired"))
\* Defect: failed rows are not counted.
NextDeployIDDefect == Cardinality({i \in RowIds : rows[i].status # "failed"}) + 1
NextDeployID == Len(rows) + 1

NewRow(st, s, sched, reps) ==
  [app |-> s.app, status |-> st, spec |-> s, sched |-> sched, reps |-> reps]

RecordDeployment(row) == rows' = Append(rows, row)
SetStatus(i, st) == rows' = [rows EXCEPT ![i].status = st]

-----------------------------------------------------------------------------
(* The router *)

NoRoutes == [d \in Domains |-> {}]

(***************************************************************************)
(* Every mutator of CaddyRouter posts the whole candidate table to Caddy   *)
(* and commits it in memory only if the call succeeds.  The three          *)
(* outcomes: done; rejected, nothing changes; or Caddy has the candidate   *)
(* and the caller, and the memory, do not know it.                         *)
(***************************************************************************)
Applied(r, st) == routes' = r /\ stage' = st /\ caddy' = r
Rejected == UNCHANGED edge
AppliedUnknown(r) == caddy' = r /\ UNCHANGED <<routes, stage>>

(***************************************************************************)
(* buildInitialRoutes: the route table a restarting daemon derives from    *)
(* the store, which its first reload then posts.  Of the apps that claim   *)
(* one domain the last one listed has it; an app without a domain is left  *)
(* out.                                                                    *)
(***************************************************************************)
Claims(a, d) ==
  CurrentDeployment(a) # 0 /\ rows[CurrentDeployment(a)].spec.dom = d

RouteFromStore(d) ==
  LET claimants == {a \in Apps : Claims(a, d)} IN
  IF d = NoDomain \/ claimants = {}
    THEN {}
    ELSE Upstreams(rows[CurrentDeployment(CHOOSE a \in claimants : TRUE)].reps)

\* Defect: the routes are not seeded.
InitialRoutesDefect == NoRoutes

InitialRoutes == [d \in Domains |-> RouteFromStore(d)]

-----------------------------------------------------------------------------
WorldTypeOK ==
  /\ rows \in Seq(Row)
  /\ conts \in Seq(Container)
  /\ routes \in [Domains -> SUBSET Upstream]
  /\ caddy \in [Domains -> SUBSET Upstream]
  /\ stage \subseteq Nat
  /\ \A i \in RowIds : SeqSet(rows[i].reps) \subseteq ContIds

WorldInit ==
  /\ rows = <<>>
  /\ conts = <<>>
  /\ routes = NoRoutes
  /\ stage = {}
  /\ caddy = NoRoutes
=============================================================================
