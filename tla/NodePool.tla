------------------------------ MODULE NodePool ------------------------------
(***************************************************************************)
(* The nodes table (store.go), the daemon's handlers that change it        *)
(* (api.go), the clients RegistryResolver caches for it under its own lock *)
(* (resolver.go), and a deploy that asks every node how it is and places a *)
(* surface (schedule.go).  A handler does not take r.mu: the table changes *)
(* while a deploy or the reconcile loop goes through it, and any node may  *)
(* fail to answer at any moment.                                           *)
(***************************************************************************)
EXTENDS Scheduler

CONSTANTS
  Hosts,       \* what a registration points to: its ssh host, mesh address and agent
  AgentHosts,  \* those with an agent URL
  Pools, Default, Handlers, Caps, Reqs, None

ASSUME AgentAssumption == AgentHosts \subseteq Hosts
ASSUME PoolAssumption ==
  /\ Default \in Pools
  /\ None \notin Names \cup [host: Hosts, pool: Pools, schedulable: BOOLEAN]
ASSUME CapAssumption == Caps \subseteq Capacity /\ Reqs \subseteq [mem: Nat, cpu: Nat]

VARIABLES
  nodes,    \* the nodes table
  remotes,  \* RegistryResolver.remotes
  lock,     \* RegistryResolver.mu, with what its holder has looked up
  handler,  \* each request of the API that is being handled
  dep,      \* the deploy that holds r.mu
  held      \* history: nodes cordoned since before that deploy began

vars == <<nodes, remotes, lock, handler, dep, held>>

Registration == [host: Hosts, pool: Pools, schedulable: BOOLEAN]
Client == [host: Hosts, transport: {"agent", "ssh"}]
Unlocked == [by |-> "nobody"]
Lock == {Unlocked} \cup [by: {"deploy", "loop"}, name: Names, reg: Registration]
NoRequest == [at |-> "idle"]
Handling == {NoRequest} \cup [at: {"invalidate"}, name: Names]
                        \cup [at: {"set"}, name: Names, to: BOOLEAN]
NoDeploy == [at |-> "idle"]
Surface == [pool: Pools, req: Reqs]

\* asked: the listed node whose turn it is.  (The order of the list makes no
\* difference.)  cached: the client Reachable found for it; schedulable: the
\* nodes that were when they were listed.
Asking == {"ping", "resolve", "build", "capacity"}
Deploy == {NoDeploy}
            \cup [at: {"list"}, for: Surface, cands: SUBSET Candidate]
            \cup [at: {"ask"} \cup Asking, for: Surface, cands: SUBSET Candidate,
                  left: SUBSET Names, asked: AllNodes, cached: Client \cup {None},
                  schedulable: SUBSET Names]
            \cup [at: {"chosen"}, for: Surface, cands: SUBSET Candidate, node: AllNodes \cup {Nowhere}]

-----------------------------------------------------------------------------
(* The API's handlers *)

\* Defect: INSERT OR REPLACE, which brings every column up to date.
UpsertDefect(n, host, pool) == [host |-> host, pool |-> pool, schedulable |-> TRUE]

\* A new node is schedulable; one that is there keeps its cordon.
Upsert(n, host, pool) ==
  [host |-> host, pool |-> pool,
   schedulable |-> IF nodes[n] = None THEN TRUE ELSE nodes[n].schedulable]

HandleNodeAdd(h, n) ==
  /\ handler[h] = NoRequest
  /\ \E host \in Hosts, pool \in Pools : nodes' = [nodes EXCEPT ![n] = Upsert(n, host, pool)]
  /\ handler' = [handler EXCEPT ![h] = [at |-> "invalidate", name |-> n]]
  /\ UNCHANGED <<remotes, lock, dep, held>>

HandleNodeDelete(h, n) ==
  /\ handler[h] = NoRequest
  /\ nodes' = [nodes EXCEPT ![n] = None]
  /\ held' = held \ {n}
  /\ handler' = [handler EXCEPT ![h] = [at |-> "invalidate", name |-> n]]
  /\ UNCHANGED <<remotes, lock, dep>>

\* Defect: the map is changed without the lock.
InvalidateDefect(h) ==
  /\ handler[h].at = "invalidate"
  /\ remotes' = [remotes EXCEPT ![handler[h].name] = None]
  /\ handler' = [handler EXCEPT ![h] = NoRequest]
  /\ UNCHANGED <<nodes, lock, dep, held>>

Invalidate(h) ==
  /\ handler[h].at = "invalidate"
  /\ lock = Unlocked
  /\ remotes' = [remotes EXCEPT ![handler[h].name] = None]
  /\ handler' = [handler EXCEPT ![h] = NoRequest]
  /\ UNCHANGED <<nodes, lock, dep, held>>

\* Drain and uncordon look the node up first.
CheckCordonTarget(h, n, to) ==
  /\ handler[h] = NoRequest
  /\ nodes[n] # None
  /\ handler' = [handler EXCEPT ![h] = [at |-> "set", name |-> n, to |-> to]]
  /\ UNCHANGED <<nodes, remotes, lock, dep, held>>

\* It may be gone by now: the update finds no row.
SetSchedulable(h) ==
  /\ handler[h].at = "set"
  /\ LET n == handler[h].name  to == handler[h].to IN
       /\ nodes' = IF nodes[n] = None THEN nodes ELSE [nodes EXCEPT ![n].schedulable = to]
       /\ held' = IF to THEN held \ {n} ELSE held
  /\ handler' = [handler EXCEPT ![h] = NoRequest]
  /\ UNCHANGED <<remotes, lock, dep>>

-----------------------------------------------------------------------------
(* RegistryResolver.ResolveMeta, which keeps its lock from the lookup to the end *)

\* Nothing is cached: the table is asked.
LookUp(who, n) ==
  /\ lock = Unlocked /\ remotes[n] = None /\ nodes[n] # None
  /\ lock' = [by |-> who, name |-> n, reg |-> nodes[n]]
  /\ UNCHANGED <<nodes, remotes, handler, held>>

\* The agent if there is one and it answers, or else ssh, whose client may not
\* come about either.
Outcomes == {None, "ssh", "agent"}
Transports(host) == IF host \in AgentHosts THEN Outcomes ELSE Outcomes \ {"agent"}

ClientFor(reg, transport) == [host |-> reg.host, transport |-> transport]

\* Defect: a client that did not come about is cached all the same.
CachedDefect(transport) == [remotes EXCEPT ![lock.name] = ClientFor(lock.reg, transport)]

Cached(transport) ==
  IF transport = None THEN remotes
  ELSE [remotes EXCEPT ![lock.name] = ClientFor(lock.reg, transport)]

Build(who, transport) ==
  /\ lock.by = who /\ transport \in Transports(lock.reg.host)
  /\ remotes' = Cached(transport)
  /\ lock' = Unlocked
  /\ UNCHANGED <<nodes, handler, held>>

\* The reconcile loop resolves the nodes of the replicas it probes.
LoopLookUp(n) == LookUp("loop", n) /\ UNCHANGED dep
LoopBuild == (\E transport \in Outcomes : Build("loop", transport)) /\ UNCHANGED dep

-----------------------------------------------------------------------------
(* A deploy: schedulableCandidates, node by node, and Place *)

\* Defect: a node that does not tell its capacity is no candidate.
LocalCandidatesDefect(pool) ==
  IF pool # Default THEN {{}}
  ELSE {{}} \cup {{[name |-> Local, reachable |-> TRUE, schedulable |-> TRUE, cap |-> c]} : c \in Caps}

\* The local node is in the default pool, whatever its probe says.
LocalCandidates(pool) ==
  IF pool # Default THEN {{}}
  ELSE {{[name |-> Local, reachable |-> TRUE, schedulable |-> TRUE, cap |-> c]} :
          c \in Caps \cup {Unmeasured}}

BeginDeploy(s) ==
  /\ dep = NoDeploy
  /\ \E local \in LocalCandidates(s.pool) : dep' = [at |-> "list", for |-> s, cands |-> local]
  /\ held' = {n \in Names : nodes[n] # None /\ ~nodes[n].schedulable}
  /\ UNCHANGED <<nodes, remotes, lock, handler>>

Candidates(n, ok, cap) ==
  dep.cands \cup {[name |-> n, reachable |-> ok, schedulable |-> n \in dep.schedulable, cap |-> cap]}

\* Defect: a node that does not answer is asked again.
ToldDefect(ok, cap) ==
  dep' = [dep EXCEPT !.left = IF ok THEN @ \ {dep.asked} ELSE @,
                     !.asked = Local, !.cached = None,
                     !.cands = Candidates(dep.asked, ok, cap), !.at = "ask"]

Told(ok, cap) ==
  dep' = [dep EXCEPT !.left = @ \ {dep.asked}, !.asked = Local, !.cached = None,
                     !.cands = Candidates(dep.asked, ok, cap), !.at = "ask"]

ListNodes ==
  /\ dep.at = "list"
  /\ LET listed == {n \in Names : nodes[n] # None /\ nodes[n].pool = dep.for.pool} IN
       dep' = [at |-> "ask", for |-> dep.for, cands |-> dep.cands, left |-> listed, asked |-> Local, cached |-> None,
               schedulable |-> {n \in listed : nodes[n].schedulable}]
  /\ UNCHANGED <<nodes, remotes, lock, handler, held>>

\* Reachable takes the lock for a look at the cache only ...
Peek ==
  /\ dep.at = "ask"
  /\ lock = Unlocked
  /\ \E n \in dep.left : dep' = [dep EXCEPT !.asked = n, !.cached = remotes[n], !.at = "ping"]
  /\ UNCHANGED <<nodes, remotes, lock, handler, held>>

\* ... and pings the client it finds, or one it builds for this once.
Reachable ==
  /\ dep.at = "ping"
  /\ \/ /\ dep.cached # None \/ nodes[dep.asked] # None
        /\ dep' = [dep EXCEPT !.at = "resolve", !.cached = None]
     \/ Told(FALSE, Unmeasured)
  /\ UNCHANGED <<nodes, remotes, lock, handler, held>>

Resolve ==
  /\ dep.at = "resolve"
  /\ \/ /\ lock = Unlocked /\ remotes[dep.asked] # None
        /\ dep' = [dep EXCEPT !.at = "capacity"]
        /\ UNCHANGED <<nodes, remotes, lock, handler, held>>
     \/ /\ lock = Unlocked /\ remotes[dep.asked] = None /\ nodes[dep.asked] = None
        /\ Told(FALSE, Unmeasured)
        /\ UNCHANGED <<nodes, remotes, lock, handler, held>>
     \/ /\ LookUp("deploy", dep.asked)
        /\ dep' = [dep EXCEPT !.at = "build"]

ResolveBuilds ==
  /\ dep.at = "build"
  /\ \E transport \in Outcomes :
       /\ Build("deploy", transport)
       /\ IF transport = None THEN Told(FALSE, Unmeasured)
                              ELSE dep' = [dep EXCEPT !.at = "capacity"]

AskCapacity ==
  /\ dep.at = "capacity"
  /\ Told(FALSE, Unmeasured) \/ \E c \in Caps : Told(TRUE, c)
  /\ UNCHANGED <<nodes, remotes, lock, handler, held>>

Choose ==
  /\ dep.at = "ask" /\ dep.left = {}
  /\ dep' = [at |-> "chosen", for |-> dep.for, cands |-> dep.cands,
             node |-> Place(dep.cands, dep.for.req)]
  /\ UNCHANGED <<nodes, remotes, lock, handler, held>>

EndDeploy ==
  /\ dep.at = "chosen"
  /\ dep' = NoDeploy /\ held' = {}
  /\ UNCHANGED <<nodes, remotes, lock, handler>>

-----------------------------------------------------------------------------
Init ==
  /\ nodes = [n \in Names |-> None] /\ remotes = [n \in Names |-> None]
  /\ lock = Unlocked
  /\ handler = [h \in Handlers |-> NoRequest]
  /\ dep = NoDeploy /\ held = {}

DeployStep == ListNodes \/ Peek \/ Reachable \/ Resolve \/ ResolveBuilds \/ AskCapacity
                \/ Choose \/ EndDeploy

Next ==
  \/ \E h \in Handlers, n \in Names :
       \/ HandleNodeAdd(h, n) \/ HandleNodeDelete(h, n)
       \/ \E to \in BOOLEAN : CheckCordonTarget(h, n, to)
  \/ \E h \in Handlers : Invalidate(h) \/ SetSchedulable(h)
  \/ \E n \in Names : LoopLookUp(n)
  \/ LoopBuild
  \/ \E s \in Surface : BeginDeploy(s)
  \/ DeployStep

Spec == Init /\ [][Next]_vars

\* Pings and dials have timeouts, and a Go mutex does not starve its waiters.
Fairness ==
  /\ WF_vars(LoopBuild)
  /\ \A h \in Handlers : SF_vars(Invalidate(h)) /\ WF_vars(SetSchedulable(h))
  /\ SF_vars(DeployStep)

FairSpec == Spec /\ Fairness

-----------------------------------------------------------------------------
(* Properties *)

TypeOK ==
  /\ nodes \in [Names -> Registration \cup {None}]
  /\ remotes \in [Names -> Client \cup {None}]
  /\ lock \in Lock
  /\ handler \in [Handlers -> Handling]
  /\ held \subseteq Names
  /\ dep \in Deploy
  /\ dep.at \in Asking => dep.asked \in Names

Invalidating(n) == \E h \in Handlers : handler[h].at = "invalidate" /\ handler[h].name = n

\* Once the request that changed or removed a node has been answered, no client
\* made for what it was before is left ("so a stale client never lingers").
NoStaleClient ==
  \A n \in Names :
    (remotes[n] # None /\ ~Invalidating(n)) =>
      nodes[n] # None /\ nodes[n].host = remotes[n].host

\* A node cordoned before a deploy began and until it has chosen is not chosen,
\* not even if it is registered anew meanwhile ("PRESERVES its cordon").
CordonHolds == dep.at = "chosen" => dep.node \notin held

\* An app in the default pool that asks for no more than the local node is known
\* to have is always placed ("must always still be placeable on local").
LocalIsThere ==
  (dep.at = "chosen" /\ dep.for.pool = Default /\ dep.node = Nowhere) =>
    \E c \in dep.cands : c.name = Local /\ c.cap.known /\ ~Fits(c, dep.for.req)

\* Every request and every deploy comes to its end, whatever does not answer.
AllAnswered ==
  /\ \A h \in Handlers : handler[h] # NoRequest ~> handler[h] = NoRequest
  /\ dep # NoDeploy ~> dep = NoDeploy
=============================================================================
