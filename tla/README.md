# lwd: a verification project

lwd is a small self-hosted deployment controller: one daemon with an SQLite
store drives Docker on its own machine and on remote nodes, with a Caddy
container as the reverse proxy in front. Every deploy of an image or git app is
a blue-green swap of a whole set of containers; compose apps are changed in
place; a reconcile loop heals dead replicas and moves surfaces off lost nodes.
This directory holds TLA+ modules that model the controller, TLC configurations
that check them on small instances, and TLAPS proofs about them for every
instance.

## Inventory

Paths are under `src/internal/` unless they say otherwise.

| Part | State it keeps | Operations | What makes it correct | Modelled in |
| --- | --- | --- | --- | --- |
| Reconciler (`reconciler/reconciler.go`) | one mutex `r.mu` | Apply, Rollback, Remove; `deployReplicaSet` does the swap | no downtime, at most one running row, nothing left behind, store and router agree | `Controller`, `BlueGreen`, `Snapshots` |
| Store (`store/store.go`) | `deployments`, `secrets`, `nodes` tables | RecordDeployment, SetStatus, UpdateReplicas, the newest running or retired row | the predicted deploy id is the recorded one; history only grows, but for a status | all |
| Router (`router/`) | route and staging tables, Caddy's configuration, the Caddyfile | SetRoute, RemoveRoute, SetStaging, RemoveStaging, SeedRoutes, EnsureUp, Reload | table and Caddy agree but for one change in doubt | `RouteTable`, `CaddyRouter` |
| Daemon start (`cli/cli.go`) | none | buildInitialRoutes, SeedRoutes, EnsureUp | a restart drops no route the store backs | `Controller`, `CaddyRouter`, `Stack` |
| API (`api/api.go`) | none; reads the store without `r.mu` | apply, rollback, scale, delete; secrets; node registry, cordon, drain, evacuate | what was read still holds when it is acted on | all |
| Replica healing (`reconciler/replicaheal.go`, `reconcile.go`) | attempts and backoff per app | observe without the lock, check again and heal under it | a heal never undoes a newer deploy; what is dead is healed or given up | `Fleet` |
| Evacuation and failover (`reconciler/evacuate.go`, `reconcile.go`) | `unreachableSince` per node | drain a node, move replicas one by one, fail over a lost node | a move never takes down what serves; the spread is kept; an emptied node stays empty | `Fleet` |
| Placement (`reconciler/schedule.go`, `scheduler/`) | none | resolvePlacement, schedulableCandidates, Place | cordons hold; replicas fit and are spread | `Scheduler`, `NodePool` |
| Node registry and resolver (`store/`, `node/resolver.go`) | `nodes` table, client cache | register, remove, cordon; ResolveMeta, Invalidate, Reachable | no client outlives its registration | `NodePool` |
| Node access (`node/`) | none | run, remove, list, inspect containers | a call may fail with or without effect | `Controller` |
| Reconcile loop (`reconciler/loop.go`) | timer, nudge channel of size one | RunLoop | every app gets its turn | `Fleet` |
| Compose apps, backing services (`compose/`, `reconciler/backing.go`) | compose projects | up, down | a failed deploy is flagged; a removal takes what its row says | `Stack` |
| Secrets (`secrets/`) | encrypted values | set, delete, resolve | nothing runs without a secret its app lists | `Stack` |
| App spec (`spec/`) | none | Parse, Validate | the snapshot a row keeps stays deployable | `Snapshots` |
| Git source, build (`source/`, `build/`) | image tags by commit | clone, build unless the tag exists | a rollback reuses the built tag | `BlueGreen`, `Snapshots` |
| Agent, client, CLI, web, MCP (`agent/`, `client/`, `cli/`, `web/`, `mcp/`) | none kept (signed cookies) | translate requests | | not modelled |

How they interact. The API's handlers, and the loop's passes, call the
reconciler, which takes `r.mu` for the whole of an operation and then makes a
sequence of calls to the store, to Docker on several nodes and to the router,
each of which can fail on its own. `Rollback`, the scale handler and the loop
read the store *before* they take the mutex; the node registry's handlers never
take it. The router has a mutex of its own and posts the complete table to
Caddy at every change; it commits the table in memory only when the post has
succeeded. The daemon keeps its routes in memory only: a restart rebuilds them
from the store.

What is hard: the daemon dying between any two of those calls; a call that
fails although it took effect; clean-up under a context whose client has hung
up; decisions made on a read that is stale by the time of the lock; nodes that
are lost, found, cordoned or registered anew while something is being moved;
and the order of flip, removal, retirement and record. `PROJECT.json` lists
every such hazard at its line, with the properties that cover it.

## Modules

```
Rollout <..... BlueGreen                                           (.. refines)
                   |
Controller --- BlueGreen --- Fleet --- MCFleet        (EXTENDS, left to right)
                   |           |
                   |           +--- Fleet_proofs --- FleetEdge_proofs
                   +--- MCBlueGreen
                   +--- BlueGreen_proofs --- Swap_proofs
RouteTable <.. CaddyRouter --- MCCaddyRouter, CaddyRouter_proofs
Scheduler --- NodePool --- MCNodePool, NodePool_proofs
Stack --- MCStack, Stack_proofs
Snapshots --- MCSnapshots, Snapshots_proofs
```

| Module | Models | State |
| --- | --- | --- |
| `Rollout` | what a deploy promises its clients: an app's generation changes in one step, is recorded later or taken back by a restart, and history only grows | `live`, `recorded`, `past` |
| `Controller` | what every operation works on: the deployments table, all containers, the routing table in memory and in Caddy; every kind of fault | `rows`, `conts`, `routes`, `stage`, `caddy` |
| `BlueGreen` | Apply, Rollback, scale and Remove of image and git apps, the daemon's restart | `pc`, `job` (the holder of `r.mu`), `asked` (requests that have read the store and wait for it) |
| `Fleet` | `BlueGreen` on nodes that come and go: the reconcile loop, healing in place, drain, evacuation, failover | `away`, `cordoned`, `op` (a heal or evacuation that holds `r.mu`), `loop`, `heal`, `since`, `drained` |
| `RouteTable` | the promise of the router: a table whose changes are in doubt until answered, and that a restart takes from the store | `known`, `served`, `pending` |
| `CaddyRouter` | the router call by call: post, Caddyfile, EnsureUp, a Caddy that stops, vanishes or is started by others, the daemon's start | `mem`, `cfg`, `fresh`, `ct`, `daemon`, `call`, `known` |
| `Scheduler` | `Place`, `fits`, and the spread of a replica set, as operators | |
| `NodePool` | the nodes table, the resolver's cache and lock, a deploy that collects candidates node by node, the registry's handlers, the loop's lookups | `nodes`, `remotes`, `lock`, `handler`, `dep`, `held` |
| `Stack` | a compose project: compose apps, backing services of an image app, changes from one to the other, secrets | `rows`, `proj`, `surf`, `routes`, `secret`, `pc`, `job`, `asked`, `born`, `sure` |
| `Snapshots` | the spec a row keeps, validation, and what rollback, scale, move and heal make of it | `rows`, `head`, `disk` |

`Fleet_proofs` extends `BlueGreen_proofs` as well as `Fleet`: a deploy's step in
the fleet is a step of `BlueGreen`, and its lemmas are used for it. The inductive
invariants of `BlueGreen` and `Fleet` are defined beside the properties, so that
TLC can check them on the instances of the runs. `BlueGreen` refines `Rollout` by
`Promise == INSTANCE Rollout WITH ...` and the property `RollsOut`; since `Fleet`
extends `BlueGreen`, `RollsOut` is the fleet's as well, heals and moves included.

Definitions whose name contains `Defect` are seeded defects: each is the
definition it is named after with a plausible bug, and for each property there
is one that breaks it (`PROJECT.json`, "mutants").

### How the models correspond to the code

`Rollout`

* A generation is a deploy id, the spec it was made from and the upstreams it
  serves at. `live[a]` is what serves `a`'s domain (read off Caddy and the
  candidate set), `recorded[a]` what the newest running row says, `past` the rows
  that have not failed. Its actions are a new generation that takes over
  (`Publish`, a deploy's flip), the same one served by other upstreams (`Refit`, a
  heal's or a move's flip), one that serves no more (`Withdraw`, a removal), the
  records of these (`Strike`, `Record`), and a restart that goes back to what is
  recorded (`Restart`); nothing in between can be seen.

`BlueGreen`

* An action is one external call of `deployReplicaSet`,
  `recordFailedReplicaSet` or `removeSingleService` together with the code up to
  the next one. `pc` names the call that is due: `run` (RunContainer, and the
  connection to the backing network), `stage` (SetStaging), `gate`
  (checkHealth of every replica), `flip` (SetRoute), `unstage`
  (RemoveStaging), `retire` (removal of the old set), `status`, `record`;
  `undo`, `discard`, `fail` in `recordFailedReplicaSet`; `rmconts`, `rmroute`,
  `rmstatus` in a removal. `pc = "idle"` means that `r.mu` is free.
* `job` holds the local variables of the operation: the spec snapshot with its
  concrete node, the predicted deploy id, the targets, the containers started,
  and whether the request's context is still live.
* Everything between taking the lock and the first container (placement,
  resolving the node, EnsureUp, network, clone and build, image transfer,
  secrets, backing services) is one step, `StartDeploy`, or fails in one,
  `AbandonDeploy`. Nothing in between changes the variables of this module,
  except that EnsureUp's reload posts the committed table and that some of the
  failures are recorded.
* A container has a node, the deploy id and replica index its name consists
  of, a state, and whether it is able to answer. Docker refuses a name that is
  taken (`NameFree`). An upstream is what the code makes it: the container's
  name on the controller's own node, mesh address and published port elsewhere.
* A replica's gate is one of the three policies of `checkHealth`. The path and
  liveness policies go through the *shared* staging host of the set: any staged
  replica may answer (`StagedAnswers`).
* A post to Caddy has three outcomes (`Applied`, `Rejected`,
  `AppliedUnknown`): the third covers a timeout after Caddy took the
  configuration, and a Caddyfile that cannot be written after the post.
* A git app's version includes the commit its image was built from. Rolling back
  reuses the image recorded; scaling goes through Apply, which builds the
  branch again (`Rebuilds`). `BeginScale` lets a scale of a git row go on
  whatever its snapshot says; `Snapshots` has the rows it is refused for.

`Fleet`

* A heal or an evacuation holds `r.mu` from its first call to its last, and so
  excludes a deploy (`Free`). `op.at` names the call that is due. The steps both
  have in common are one action each; the order in which they come (a heal
  drops its staging route after the flip, a move before it) is in the step.
* A redeploy of a single replica is a deploy of `BlueGreen` that the evacuation
  starts; it goes on when that deploy has ended.
* `loop` is the one goroutine of `RunLoop`: what it has read (`LoopRead`), found
  dead (`LoopProbe`) or lost is kept there while it waits for `r.mu`, and other
  operations go on. `tryHealWith` reads the row again under the lock; it compares
  row ids.
* A failed inspection counts as a death (`SurfaceIsDead`): with `"inspect"` in
  `Faults` the loop's probe takes a healthy replica of a reachable node for dead,
  starts a heal that removes it, and uses up an attempt.
* A node that is `away` answers nothing and loses nothing; it may come back.
  Wherever the scheduler may place a replica, it may find no room as well:
  pools and capacities are `NodePool`'s and `Scheduler`'s.

`CaddyRouter`

* `call` is the one call in progress (the router's own mutex). A change is a
  post, the commit in memory, and the write of the Caddyfile, with a failure
  possible after each; `EnsureUp` is looked at step by step, since somebody else
  may start, stop or remove `lwd-caddy` in between.
* `known` is a history variable: the table callers have been told of since the
  daemon started, and at the start the one `SeedRoutes` was given. That may be any
  table: `buildInitialRoutes` finds neither the route of a compose app, nor one of
  a domain its app has given up, nor one set but not yet recorded, and it finds
  again one whose removal was cut short. Which routes it finds for image and git
  apps is in `BlueGreen` and `Fleet` (`InitialRoutes`, whose `RInv` and `FRInv` say
  that they are the rows'), and which it does not find for compose apps in `Stack`
  (`RestartKeepsRoutes`). The abstract table is `known`.

`NodePool`, `Scheduler`

* `lock` is the resolver's mutex with what its holder has looked up: it is held
  while a node is pinged and dialled. A handler of the API changes the table
  first and invalidates the cache afterwards; both are steps of their own.
* A deploy asks one node after the other, outside all locks but `r.mu`; the
  table may change under it. `Scheduler` is pure.

`Stack`

* One app on the local node; `proj` are the project's containers by service,
  with the configuration and secret they were made with and an age, so that a
  container that is made anew can be told from one that stays. `docker compose`
  is modelled as lwd relies on it: up changes what differs and may stop half
  way, down removes the services of the file it is given.
* A deploy resolves what the app lists in `secrets` (`lists`), not what its services
  refer to (`refs`); what is referred to and not listed runs blank (`Resolve`).
* The blue-green swap of an image app's surface is one step here; `BlueGreen`
  takes it apart.
* `sure` is a history variable: the daemon has not died, and no write or post
  has been lost, since the last deploy began.

`Snapshots`

* A deploy is one step that ends well or fails. The fields of a spec that
  validation and dispatch look at are there one by one; names, URLs, refs,
  paths and sizes are one flag, legible or not.
* `ask`, `of` and `old` are history: the spec a user submitted that a row goes
  back to, the row a rollback restored, and whether it goes back to a row that
  an older version of lwd has left (no list of replicas, `scheduled` false, a
  replica count of 0). A row older than the spec column has no snapshot at all
  (`NoSpec`; `store.go:195-240`, `TestMigrationFromPreSpecSchema`): rollback, scale,
  move and heal refuse it (`HasSnapshot`), until the app is deployed again. The
  snapshots that older versions did record are taken to be valid ones
  (`LegacyAssumption`), since they were validated before they were deployed.
* The user may commit to the branch, and edit or delete compose files, between
  any two requests (`Edit`).

## What is checked

`tlc -config X.cfg M.tla`, with M the MC module of the run in `PROJECT.json`.
Deadlock is checked in every run: a request can always be made.

| Run | Instance and faults | Properties | Shows |
| --- | --- | --- | --- |
| `bg_swap` | a git app of a replica or a pair, 2 nodes, 3 rows, 5 containers; starts and posts fail | RowIsRouted, NoDowntime, NoOrphans | its domain never leaves healthy containers, the store and the router agree, nothing is left behind |
| `bg_restart` | two apps, 3 rows; clients hang up, which makes removals and posts fail, and the daemon dies, at any step | OneRunning, RInv, RollsOut | never two running rows; a restart restores the routes; the invariant of the proofs, which implies `RowIsRouted`; every change is one step of `Rollout` |
| `bg_store` | one app, 2 rows; every kind of fault but failed inspections, which only the loop makes | TypeOK, GenerationIsRow, RetiredStaysRetired | what holds whatever fails |
| `bg_live` | one app, 2 rows; run, remove, router, cancel; fair | LockReleased, LiveIsRecorded | the mutex is always released; what has gone live is recorded |
| `fleet_heal` | a pair on 3 nodes, one of which may be lost, none cordoned; containers die, starts, removals and inspections fail; fair | FleetTypeOK, RoutedAtRest, WorksOnCurrentRow, MInv, MovesKeepServing, SpreadKept, HealedOrGivenUp | heals and moves keep route, spread and row right; what is dead is healed, replaced or given up |
| `fleet_drain` | a single replica or a pair on 3 nodes, 2 rows, 3 containers; drains (one node at a time), uncordons, heals, deploys; containers and the daemon die | FRInv, Drains, DrainedStaysEmpty, MovesKeepServing | the invariants of the proofs (`FRInv` implies `RoutedAtRest`); a move never takes down what serves; a node that has been emptied stays empty |
| `edge` | 2 domains, one staging host, 2 targets; half-done writes, Caddy and the daemon dying, any table seeded at a restart | TypeOK, AtMostOneInDoubt, NoRouteDropped, KeepsPromise | the router implements `RouteTable`; a restart drops no route the store backs |
| `nodes` | one registered node beside the local one, 2 hosts, 2 requests at a time, the loop, a deploy; fair | TypeOK, NoStaleClient, CordonHolds, LocalIsThere, SpreadWidely, AllAnswered | no stale client, cordons hold, everybody is answered; the spread rule on every set of at most 3 candidates |
| `stack` | a web and a database service, four specs (two stacks, one of which forgets to list its secret, an image app with and without backing), 3 rows; every call fails, the daemon dies | TypeOK, FlaggedOrServed, FailClosed, RemovedIsGone | what runs is what the row says, or a failed row flags it; no listed secret is missing; a removal takes what its row says |
| `snapshots` | six specs of all three shapes (two refused), older versions' rows with and without a snapshot, 4 rows, 2 commits, 2 file contents | ProvenanceKept, NothingStranded, RollbackRestores | a snapshot that is redeployed again and again loses nothing |

Two runs are expected to find a violation. They state what a comment says and
the code does not do (`PROJECT.json`, "findings"):

| Run | Property | Behaviour found |
| --- | --- | --- |
| `fleet_doc_heal` | HealTouchesOnlyDead | a drain moves a replica in place between the loop's read of the row and its probe; the row's id is the same, so the heal goes on and removes the healthy container that has taken the dead one's place |
| `stack_doc_restart` | RestartKeepsRoutes | `buildInitialRoutes` finds a compose app neither by replicas nor by the surface label: a restart drops its route |

**Bounds.** `MaxRows` bounds the deployments table, `MaxConts` the containers
ever created, `MaxAsked` the requests that wait with a stale read, `MaxAway` the
nodes away at a time, `MaxCordoned` the nodes cordoned at a time, `MaxBorn` the containers a project has made. Three
rows give a deploy, a redeploy and a rollback to the first; four, in
`snapshots`, a rollback or scale of what a rollback or a move has made. Five
containers let a pair replace a single replica and be replaced. Two rows
suffice for `bg_store`, where everything may fail: one row to retire and one to
record, with refused writes in between. One waiting request suffices because
requests interact through the table only; the fleet's runs have none (rollbacks
and scales are deploys to it). Two nodes tell local from remote; a move needs a
third. The bounds are guards of requests, of deaths and of the loop's starts, so
that an operation that has begun always ends. `HealedOrGivenUp` allows for an
instance that is used up (`Exhausted`).

**Fairness.** Whoever holds `r.mu` goes on: weak fairness of its steps
(`FairSpec`, `Operation` in `Fleet`). Each of its calls returns: the health gate
has a deadline, Caddy's client a timeout of ten seconds, calls to remote nodes
timeouts of their own. The reconcile loop's read and probe are fair, since its
ticker never stops, and the mutex is fair to it: strong fairness of `LoopLocks`
and `LoopRead`, since Go's mutex hands over to a waiter that has waited for a
millisecond. The same holds of `Invalidate` and of the deploy's lookups in
`NodePool`, which wait for the resolver's lock; a dial that holds it has a
timeout. A backoff elapses. Requests, failures, deaths and returns of nodes are
not fair.

**Assumptions on the environment.** `NoDowntime` is about what lwd does: no
container dies in its runs. `ExclusiveDomains` (no two apps claim one domain)
holds in every instance and is an assumption of `RunningIsRouted`; lwd does not
enforce it, the operator must. `SetRoute` drops no other route, so an app that
moves to another domain keeps its old route until a restart; `RowIsRouted`
speaks of the domain the row has. `RoutedAtRest` is checked without refused
store writes (see below). `edge` assumes that the store and the list of containers
can be read at a restart; otherwise the daemon starts with the routes it could
find. What it says of a restart is what the router makes of the table it is given,
not that the table is complete.

## What is proved

For all values of the constants that satisfy the named assumptions of the
modules; every theorem is checked by `tlapm` to the last leaf.

`BlueGreen_proofs`

* `TypeCorrect`, `GenerationsAreRows`, `RetiredForGood`: `TypeOK`,
  `GenerationIsRow` and `RetiredStaysRetired`, for every set of faults.
* `AtMostOneRunning`: `OneRunning`, if store writes are not refused.
* `RunningIsRouted`: `RowIsRouted`, if besides no post takes effect while it
  fails, and domains are exclusive.
* `DeploysRollOut`: `RollsOut`, that `BlueGreen` implements `Rollout`, under the
  assumptions of `RunningIsRouted`. `LiveIs` says what the refinement mapping is in
  each state, without a look at Caddy (by `RInv`); then every action is a step of
  `Rollout` or a stutter: a flip publishes, the old row's retirement strikes, the new
  row records, a route's removal withdraws, a restart goes back.

`IInv` adds to the types that what the holder keeps in its local variables
agrees with the store and Docker (`HolderOK`: the predicted id is still the next
one; every started container bears it; the row to be retired runs). It is needed
because `GenerationIsRow` at the moment of the record depends on a prediction
made many steps before: it holds since no other operation appends a row while
`r.mu` is held. `GenerationIsRow` itself is proved beside `IInv`
(`NextGeneration`) and is no part of it: the fleet keeps `IInv`, but a healed
replica bears an id that is not its row's. `SInv` adds that the old row has been
retired when the new one is about to be recorded (`OldRowRetired`). `RInv` adds
that every recorded spec is one a client submitted but for count and node
(`SpecsAreSubmitted`: this is how domains stay exclusive through rollbacks and
scales) and `EdgeInv`, which is `RowIsRouted` with a precise window: the app that
has been flipped and not recorded, and the one whose route is removed and row not
yet retired. Each is proved action by action; `StoreHasRoute` shows that a restart
derives from the store the very routes the table had.

`Swap_proofs`

* `NeverDown`: `NoDowntime`, if a domain, or the lack of one, belongs to one app
  (`OwnDomains`), every gate sees the replica it vouches for (`Gateable`: Docker's
  own verdict, or a set of one), and only starts, replies of starts, and posts
  fail. The invariant `DInv` says where each set is while the traffic moves: every
  running row outside its swap is routed and up (`RowsServe`); from the gate on the
  candidates are up, and from the flip on they are routed (`CandServes`); no two
  containers that exist share a name (`NamesUnique`), without which an upstream
  would not tell which container answers. `Gateable` cannot be dropped: with a
  shared staging host a replica may pass for another (`StagedAnswers`).
* `EdgeFollowsTable`: `RInv`, as a theorem of the specification.
* `NothingLeftBehind`: `NoOrphans`, if removals, replies, the store, the client and
  the daemon do not fail (`Tidy`: each of the five leaves a container behind, as the
  code says it may); whatever cannot be started or posted, and whichever containers
  exit. The invariant says who owns a container in the midst of an operation, a
  running row or the candidate set (`AllOwned`), and that a step that is past a
  removal has removed (`Cleared`).

`CaddyRouter_proofs`, for any domains, staging hosts and targets

* `TypeCorrect`: `TypeOK`, for every set of faults.
* `OneInDoubt`, `RoutesStay`: `AtMostOneInDoubt` and `NoRouteDropped`, if the
  routes can be seeded at a restart ("seed" is no fault). Both are about the table
  of the daemon that runs: a restart may be given any table, its first reload takes
  from Caddy what is not in it and nothing that is, and until then (`daemon` is
  "starting") Caddy and the table may differ in anything.
* `Implements`: `KeepsPromise`, the refinement of `RouteTable` with
  `served <- Served`, `pending <- Pending`, under the same assumption. Its `Restart`
  promises the table that was seeded and no more.

The invariant says what the call in progress carries: the candidate differs from
the table in one entry (`CandIsOneChange`), a call of EnsureUp has none
(`EnsureHasNoKey`), a candidate that waits for its write is what Caddy serves
(`WrittenIsServed`), and the table in memory is the one callers know
(`MemIsKnown`). With these each action is one action of `RouteTable` or a
stutter.

`NodePool_proofs`, for any nodes, requests, pools and capacities

* `TypeCorrect`: `TypeOK`.
* `ClientsAreCurrent`: `NoStaleClient`. The strengthening (`LookedUpHolds`) is that
  what the holder of the resolver's lock has looked up still holds, or the request
  that has changed it has yet to take the lock: it then drops what the holder is
  about to cache.
* `CordonsHold`: `CordonHolds`. A cordon that has held since the deploy began is in
  what the deploy has read of every node (`HeldIsKnown`), and `Place` returns a
  candidate that is schedulable (`PlaceChoosesSchedulable`).
* `LocalStays`: `LocalIsThere`. The strengthening (`LInv`) is that the local node is
  among the candidates from the moment a deploy asks, for the default pool, and that
  no candidate collected later bears its name.
* `PlaceFindsWhatFits`: `Place` returns a node exactly if some candidate fits, and one
  that no other precedes in the scheduler's order.

`Stack_proofs`, for any services, configurations, specs and faults

* `TypeCorrect`: `TypeOK`.
* `SecretsAreThere`: `FailClosed`. The strengthening (`Resolved`) is that a deploy
  past its resolution holds a value for what its app lists, whatever happens to
  the table of secrets after it. It says nothing of references the app does not
  list, which the code leaves blank.
* `TableIsTrue`: `FlaggedOrServed`, if no image app has a backing service with the
  name of a compose app's web service (`NoClash`). Without it the property is
  false: an image app that follows a compose app removes the old row's web
  container after its own backing services are up (`reconciler.go:1112`), and takes
  the service of that name down. The strengthening says where in an operation the
  table and the project part (`Placed`), and that what follows a running row has
  failed (`NoneAfter`).
* `RemovalTakesWhatItsRowSays`: `RemovedIsGone`, whatever failed before: the route,
  the services the row's file declares and, of an image app, the surfaces. What no
  row says stays (see below). The strengthening (`Leaving`) is what each step of a
  removal has taken away already.

`Fleet_proofs` and `FleetEdge_proofs`, for any nodes, apps and limits

* `FleetInductive`: `FInv`, for every set of faults and any comings and goings of
  nodes. It keeps `IInv` and adds what an operation at work knows (`WorkOK`: its
  row is the current one, and lists the replicas it believes it does but for those
  it has healed; `PlacedApart`: a healed replica is on its predecessor's node, a moved
  one on a node of its own) and what is still true of what the loop read before it
  got the mutex (`LoopOK`: the row exists and has as many replicas; its status and
  its replicas may have changed).
* `FleetTypes`, `CurrentRowOnly`, `StaysSpread`: `FleetTypeOK`, `WorksOnCurrentRow`
  and the action property `SpreadKept` follow from it without further assumptions.
* `RestIsRouted`: `RoutedAtRest`, under the assumptions of `RunningIsRouted`
  (exclusive domains, no refused store write, no post half done): whichever
  containers and nodes die, whatever cannot be started, removed or posted, and
  whenever the daemon dies. `FRInv` is `FInv`, `SInv`, `SpecsAreSubmitted` and
  `FleetEdge`, which is `EdgeInv` with one window more: between its flip and its
  save (`FlipDone`) a heal or a move has routed the set it is about to record.
  A restart in that window goes back to the routes of the table, by `StoreHasRoute`.

* `FleetRollsOut`: `RollsOut` of the fleet, under the same assumptions: a heal or a
  move changes the generation that serves in one step, all of the set at once, and
  its save records it. For a deploy's step the argument of `DeploysRollOut`
  is used (`RolloutStep`). TLC checks `RollsOut` on `bg_restart` only; on the fleet's
  instances its evaluation takes too long, and the theorem stands alone.
* `DrainHolds`: `DrainedStaysEmpty`, for every fault but refused store writes and as
  long as nobody rolls back (`NoRollbacks`). Neither can be dropped: a rollback goes
  back to the node its row was on, drained or not; and a row that could not be
  updated after a move still names the node that was left, and is healed there. The
  strengthening `Drains` looks at the nodes that have been emptied and at the one
  that is being emptied (`Shut`): no candidate or replacement the scheduler has
  chosen is on one of them, through crashes and returns of nodes (`AvoidsShut`); a
  set that goes live has all its replicas (`FullSets`: without it the row of a
  deploy cut short would say less than the node holds); and an evacuation that is
  done with an app without a failure has left nothing of it (`LeavesNothing`), which
  for a single replica rests on its redeploy having ended in a row of its own.
  `ToMoveShrinks` is the heart of it: no step but a rollback adds to what
  a shut node holds for an app.
* `FleetEdgeInductive`, `MoveInductive`, `DrainInductive`: `FRInv`, `MInv` and `Drains`
  themselves, which the runs check, as theorems of the specification.
* `MovesServe`: `MovesKeepServing`, for every set of faults, refused writes, posts
  half done and crashes included, if no app changes its domain (`OneDomain`: the
  route of the one it gives up would stay, see below; two apps may share one).
  `MInv` is `FInv`, `NamesUnique` and `SpecsAreSubmitted`, and three more.
  The containers a row lists are its app's, and of a pair or more each bears its
  index in its name (`Named`). A deploy's candidates are in no row, are there until
  they are discarded, and from the flip on have the domain to themselves (`FreshOK`).
  The same is true of the container that is to replace one of a set that is moved
  (`MoveOK`). What is needed of the table is little: that a row runs is never
  used, so a refused write does no harm. That the containers' names differ
  is needed since an upstream is an address: were it given to a newer container,
  Caddy would go on sending traffic to it (`UpstreamIsOne`, `IndexesDiffer`). But
  for removals and heals, only two steps take away what a row lists
  (`WhoTakesAway`): the removal of a deploy's old set, and that of a moved replica.

The inductive invariants are invariants of the runs: `RInv` of `bg_restart`, `FRInv`
and `Drains` of `fleet_drain`, `MInv` of `fleet_heal`. With rejected posts besides
(`"router"` in its `Faults`) all four properties of `fleet_drain` hold as well, on
3,537,968 states; the run leaves rejected posts out and has 1,383,512. Moves that
give up are in it all the same, since a gate may always fail, and in `fleet_heal`,
where starts fail too.

`Snapshots_proofs`, for any specs, nodes, counts, commits and files

* `TypeCorrect`: `TypeOK`.
* `ProvenanceSurvives`, `NothingIsStranded`, `RollbacksRestore`: `ProvenanceKept`,
  `NothingStranded`, `RollbackRestores`.

The invariant says of every row that has run that it is sound by itself (its
spec is valid once its image is taken out, or put in; its placement is the one
that was asked for or the scheduler's) and that it restores the row it was
rolled back to. A deploy's row has both because the row it was made from has, and
a status is all that ever changes in a row. `NothingStranded` speaks of rows with a
snapshot.

**Only model-checked.** Liveness (`LockReleased`, `LiveIsRecorded`,
`HealedOrGivenUp`, `AllAnswered`), which is outside the prover's reach. Of the
safety properties one: `SpreadWidely`, whose `ReplicaTargets` is a recursive
function over the replica index, so that what it computes for every count would
need an induction over data.

## Where the code says one thing and does another

Beside the two findings above, seen in the models and stated by no run:

* The replicas of a set are gated through one staging host Caddy balances over;
  one that answers may pass the gate for one that does not (`StagedAnswers`).
* An app without a domain is given a route with the empty domain, a catch-all.
* `Rollback` and the scale handler read their row before they take `r.mu`; a deploy
  that ends in between is undone (`AskRollback`, `AskScale`).
* A scale's comment says that it "preserves the exact running image/config"
  (`api/api.go:170-171`). It redeploys the *spec*: a git app is built anew from the
  head of its branch, a compose app's file is read again (`ApplyGit`,
  `ApplyCompose`). After a rollback or a move a git app's snapshot has its image
  pinned, and a scale of it is refused ("cannot mix git and image"); after a
  rollback a compose app's snapshot names a temporary file that is gone, and a
  scale of it fails (`Valid`, `TextAt`).
* README.md:650-651 of the repository says that a rollback recovers a compose app
  whose deploy has failed. The failed attempt leaves the row that worked last
  running, so the rollback restores the one before it, or finds none
  (`AskRollback` in `Stack`, `Previous` in `Snapshots`).
* A flip that Caddy has taken but whose call failed leaves Caddy routing to a
  candidate that is being torn down, until the next post (`AppliedUnknown`).
* A crash between the removal of the old set and the record seeds, at the restart,
  a route to containers that are gone; the loop heals the row later.
* The clean-up of a failed set runs under the request's context: once the client
  has hung up, the containers stay.
* A healed replica bears the next deploy id, which no row uses up; a later deploy
  or heal on that node finds the name taken once, and fails.
* README.md:390 of the repository says that a service's secrets are "resolved and
  injected the same fail-closed way as the app's own". Only the app's own list is
  resolved (`reconciler.go:417`, `1224`), and nothing requires a service's secrets to
  be in it (`spec.go:393-397`): one that is not runs with a blank value (`Resolve` in
  `Stack`). The same is true of any `${NAME}` of a compose file that is not listed.
* `reconciler.go:1373` says that Remove "tears down an app entirely". It knows the
  current row only, and leaves services that this row does not declare (of a failed
  attempt), everything a first deploy that failed has started, and the surface of
  the image app that a compose app was before (`applyCompose` retires that row,
  `1281-1285`, and `removeCompose` takes containers of the project only):
  `RemoveUnknown`, `RemoveDown`.
* `reconcile.go:250-251` says that healthy replicas "are never touched". One whose
  inspection fails once counts as dead (`reconciler.go:764-771`), is removed and made
  anew (`SurfaceIsDead`).
* A row that was there before the spec column serves, but cannot be healed, moved,
  scaled or rolled back to (`HasSnapshot`).
* A compose app whose web service is called like a backing service of the image app
  that replaces it: the deploy removes that backing service's container after it has
  brought it up, and the row says that all is well (`NoClash`).
* When `UpdateReplicas` is refused after a move has removed the old container, the
  row lists a container that is no more (`OpSave` with "store").
* `evacuate.go:245-247` speaks of a fallback that stacks replicas when no other
  node has room; the code has none (`NewHomes`).
* A rollback of an app that has been moved goes back to the node it left, cordoned
  or not (`Placed(FALSE)`).

## Not modelled

The node agent, the client, the CLI's commands, the web dashboard and the MCP
server translate requests and keep no state of the controller; the agent's calls
are those of node access. Configuration and version are constants. Left out of
what is modelled: log streaming, image transfer and the measuring of machines
(their failing is modelled); Caddyfile text; what git and `docker build` do beyond
the commit they pick and their failing; the encryption of secrets; the health
report of the loop; nudges, which only bring a pass forward; `placeReplicas`, which
only tests call. `PROJECT.json` gives the
reason for each component.

## Plan

What is left, the most useful first.

1. The shutdown of the daemon: a graceful stop with requests in progress. A crash,
   which is modelled, may end an operation at any of its steps already.
2. `Rollout` for `Stack`: a compose deploy changes its project in place, and so
   rolls out in steps that can be seen; what it promises is `FlaggedOrServed`.
3. The gap between the two halves of `Fleet`'s redeploy and `NodePool`'s choice of a
   node: the fleet takes any node that may be chosen.
