------------------------------- MODULE Stack -------------------------------
(***************************************************************************)
(* The compose project lwd-<app> of one app on the local node: a compose   *)
(* app is its project (applyCompose, removeCompose), an image or git app   *)
(* has its backing services in it (ensureBacking, downBacking) beside its  *)
(* surface, whose swap BlueGreen details and which is one step here.       *)
(* Secrets are set and deleted by requests that do not take r.mu; the      *)
(* daemon may die between two calls.                                       *)
(***************************************************************************)
EXTENDS Naturals, Sequences

CONSTANTS
  Services,  \* what a compose file may declare
  Configs,   \* images, commands, volumes, ... of a service
  Domains,
  Values,    \* of the app's secret
  Blank,     \* what compose puts in for a variable that it is not given
  Plain,     \* in place of a value: no reference to the secret
  None,
  Specs,     \* the specs a client may submit
  Faults,    \* "up", "router", "store", "down", "crash"
  MaxRows, MaxBorn, MaxAsked   \* bounds: rows, containers' ages, waiting rollbacks

(***************************************************************************)
(* A spec, with the content of its compose file (or of the one             *)
(* RenderBackingCompose renders) at the time it is read; web: the service  *)
(* Caddy fronts; refs: the services that refer to the secret; lists: the   *)
(* app's own list of secrets names it, which no reference requires.        *)
(***************************************************************************)
AppSpec == [kind: {"compose", "surface"}, file: [Services -> Configs \cup {None}],
            web: Services, refs: SUBSET Services, lists: BOOLEAN, dom: Domains]

ASSUME SpecsAssumption == Specs \subseteq AppSpec
ASSUME NoneAssumption == None \notin Values \cup Configs \cup {Blank, Plain}
ASSUME MarksAssumption == {Blank, Plain} \cap Values = {} /\ Blank # Plain

VARIABLES
  rows,    \* the app's rows of the deployments table
  proj,    \* the project's containers, by service
  surf,    \* the app's surface containers, by deploy id
  routes,  \* what Caddy and CaddyRouter route each domain to
  secret,  \* the app's secret, None if it is not set
  pc, job, \* the operation that holds r.mu
  asked,   \* rollbacks that have read their row and wait for r.mu
  born,    \* the age of the youngest container of the project
  sure     \* history: nothing has been cut short or lost since the last deploy

world == <<proj, surf, routes>>
vars == <<rows, proj, surf, routes, secret, pc, job, asked, born, sure>>

Row == [status: {"running", "failed", "retired"}, spec: AppSpec, cont: Nat]
Job == [spec: AppSpec, val: Values \cup {Blank, None}, row: Nat]
NoJob == [row |-> 0]
Composed == {"up", "locate", "route", "gate", "retire", "record"}
Steps == {"idle", "backing", "swap", "rmdown", "rmroute", "rmstatus"} \cup Composed

Newest(status) ==
  LET ids == {i \in DOMAIN rows : rows[i].status = status} IN
  IF ids = {} THEN 0 ELSE CHOOSE i \in ids : \A j \in ids : j <= i

Current == Newest("running")
OneRunning(table) ==
  \A i, j \in DOMAIN table : table[i].status = "running" /\ table[j].status = "running" => i = j
Declared(file) == {x \in Services : file[x] # None}
Surface(id) == [surface |-> id]
Service(x) == [service |-> x]   \* compose names a container for its service
Goto(l) == pc' = l /\ UNCHANGED job
\* Defect: the operation's variables are left behind.
DoneDefect == pc' = "idle" /\ UNCHANGED job
Done == pc' = "idle" /\ job' = NoJob

-----------------------------------------------------------------------------
(* docker compose *)

\* A service's container: what it was made from (val: what was put in for its
\* reference to the secret; None: nothing, though the app lists it) and its age.
Wanted(spec, val, x) == [conf |-> spec.file[x], val |-> IF x \in spec.refs THEN val ELSE Plain]
Cont == [conf: Configs, val: Values \cup {Blank, None, Plain}, age: Nat]
ASSUME ContAssumption == None \notin Cont
Made(w, age) == [conf |-> w.conf, val |-> w.val, age |-> age]

\* up -d --remove-orphans, as far as it gets: xs are the services it has dealt with.
Upped(spec, val, xs) ==
  [x \in Services |->
     LET w == Wanted(spec, val, x) IN
     IF x \notin xs THEN proj[x]
     ELSE IF w.conf = None THEN None
     ELSE IF proj[x] # None /\ Made(w, proj[x].age) = proj[x] THEN proj[x]
     ELSE Made(w, born + 1)]

\* down, which knows the services of the file it is given.
Downed(file) == [x \in Services |-> IF x \in Declared(file) THEN None ELSE proj[x]]

-----------------------------------------------------------------------------
(* Requests *)

\* The API's secrets handlers: a secret is set, or deleted.
ChangeSecret(v) ==
  /\ secret' = v
  /\ UNCHANGED <<rows, world, pc, job, asked, born, sure>>

\* Rollback reads PreviousDeployment before Apply takes the lock.
AskRollback ==
  /\ Len(asked) < MaxAsked /\ Newest("retired") # 0
  /\ asked' = Append(asked, rows[Newest("retired")].spec)
  /\ UNCHANGED <<rows, world, secret, pc, job, born, sure>>

NewRow(status, spec, cont) == [status |-> status, spec |-> spec, cont |-> cont]
Record(row) == rows' = Append(rows, row)

\* A failed attempt is recorded if the store allows it.
RecordFailed(spec, cont) ==
  \/ Record(NewRow("failed", spec, cont)) /\ UNCHANGED sure
  \/ "store" \in Faults /\ UNCHANGED rows /\ sure' = FALSE

\* What the app lists is resolved, and nothing else that its services refer to.
Resolve(spec) == IF spec.lists THEN secret ELSE Blank

\* Apply, up to what resolves the secrets: fail closed, or go on with the values
\* they have now.  Before that the node, the router, the image or the compose file
\* may be missing, and not every such attempt is recorded.
Apply(spec) ==
  /\ pc = "idle" /\ Len(rows) < MaxRows /\ born < MaxBorn
  /\ \/ /\ Resolve(spec) # None
        /\ job' = [spec |-> spec, val |-> Resolve(spec), row |-> 0]
        /\ pc' = IF spec.kind = "compose" THEN "up" ELSE "backing"
        /\ UNCHANGED <<rows, sure>>
     \/ /\ Resolve(spec) = None
        /\ RecordFailed(spec, 0)
        /\ UNCHANGED <<pc, job>>
     \/ /\ "up" \in Faults
        /\ RecordFailed(spec, 0) \/ UNCHANGED <<rows, sure>>
        /\ UNCHANGED <<pc, job>>
  /\ UNCHANGED <<world, secret, born>>

BeginApply(spec) == Apply(spec) /\ UNCHANGED asked
BeginRollback == asked # <<>> /\ Apply(Head(asked)) /\ asked' = Tail(asked)

-----------------------------------------------------------------------------
(* applyCompose *)

Fail(cont) == RecordFailed(job.spec, cont) /\ Done

\* Defect: the secret is looked up again.
UpDefect(next) ==
  /\ born' = born + 1
  /\ \/ /\ proj' = Upped(job.spec, Resolve(job.spec), Services)
        /\ Goto(next) /\ UNCHANGED <<rows, sure>>
     \/ /\ "up" \in Faults
        /\ \E xs \in SUBSET Services : proj' = Upped(job.spec, Resolve(job.spec), xs)
        /\ Fail(0)

Up(next) ==
  /\ born' = born + 1
  /\ \/ proj' = Upped(job.spec, job.val, Services) /\ Goto(next) /\ UNCHANGED <<rows, sure>>
     \/ /\ "up" \in Faults
        /\ \E xs \in SUBSET Services : proj' = Upped(job.spec, job.val, xs)
        /\ Fail(0)

ComposeUp ==
  /\ pc = "up" /\ Up("locate")
  /\ UNCHANGED <<surf, routes, secret, asked>>

Id == IF proj[job.spec.web] = None THEN 0 ELSE proj[job.spec.web].age

\* ServiceContainer, and its connection to the lwd network.
Locate ==
  /\ pc = "locate"
  /\ \/ proj[job.spec.web] # None /\ Goto("route") /\ UNCHANGED <<rows, sure>>
     \/ proj[job.spec.web] = None /\ Fail(0)
     \/ "up" \in Faults /\ \E cont \in {0, Id} : Fail(cont)
  /\ UNCHANGED <<world, secret, asked, born>>

\* The route flips before the gate.
SetRoute ==
  /\ pc = "route"
  /\ \/ /\ routes' = [routes EXCEPT ![job.spec.dom] = Service(job.spec.web)]
        /\ Goto("gate") /\ UNCHANGED <<rows, sure>>
     \/ "router" \in Faults /\ Fail(Id) /\ UNCHANGED routes
  /\ UNCHANGED <<proj, surf, secret, asked, born>>

\* Defect: what fails its gate is not recorded.
CheckHealthComposeDefect ==
  /\ pc = "gate"
  /\ Goto("retire") \/ Done
  /\ UNCHANGED <<rows, world, secret, asked, born, sure>>

\* Nothing is torn down when it fails.
CheckHealthCompose ==
  /\ pc = "gate"
  /\ \/ Goto("retire") /\ UNCHANGED <<rows, sure>>
     \/ Fail(Id)
  /\ UNCHANGED <<world, secret, asked, born>>

Retired(i) == IF i = 0 THEN rows ELSE [rows EXCEPT ![i].status = "retired"]

\* SetStatus: its error is ignored.
RetireRow ==
  /\ pc = "retire"
  /\ \/ rows' = Retired(Current)
     \/ "store" \in Faults /\ UNCHANGED rows
  /\ Goto("record")
  /\ UNCHANGED <<world, secret, asked, born, sure>>

RecordRunning ==
  /\ pc = "record"
  /\ \/ Record(NewRow("running", job.spec, Id)) /\ sure' = OneRunning(rows')
     \/ "store" \in Faults /\ UNCHANGED rows /\ sure' = FALSE
  /\ Done
  /\ UNCHANGED <<world, secret, asked, born>>

-----------------------------------------------------------------------------
(* Image and git apps: ensureBacking and the surface *)

\* An app that declares no services leaves the project alone.
EnsureBacking ==
  /\ pc = "backing"
  /\ \/ Declared(job.spec.file) # {} /\ Up("swap")
     \/ Declared(job.spec.file) = {} /\ Goto("swap") /\ UNCHANGED <<rows, proj, born, sure>>
  /\ UNCHANGED <<surf, routes, secret, asked>>

\* RemoveContainer of the current row's container: a surface, or what the row of
\* a compose app knows for its web service.
SwapOut(i) ==
  LET row == rows[i] IN
  IF row.spec.kind = "surface" THEN surf' = (surf \ {i}) \cup {Len(rows) + 1} /\ UNCHANGED proj
  ELSE /\ surf' = surf \cup {Len(rows) + 1}
       /\ proj' = [x \in Services |->
                     IF x = row.spec.web /\ proj[x] # None /\ proj[x].age = row.cont
                       THEN None ELSE proj[x]]

\* deployReplicaSet: the candidate fails and leaves no trace but its row, or it
\* goes live, the current row's container goes and the row is retired.  Without a
\* directory for the clone, or a deploy id, it fails without a row.
Swap ==
  /\ pc = "swap"
  /\ \/ /\ IF Current # 0 THEN SwapOut(Current)
           ELSE surf' = surf \cup {Len(rows) + 1} /\ UNCHANGED proj
        /\ routes' = [routes EXCEPT ![job.spec.dom] = Surface(Len(rows) + 1)]
        /\ rows' = Append(Retired(Current), NewRow("running", job.spec, 0))
        /\ sure' = OneRunning(rows') /\ Done
     \/ Fail(0) /\ UNCHANGED world
     \/ /\ {"up", "store"} \cap Faults # {}
        /\ Done /\ sure' = FALSE /\ UNCHANGED <<rows, world>>
  /\ UNCHANGED <<secret, asked, born>>

-----------------------------------------------------------------------------
(* Remove *)

BeginRemove ==
  /\ pc = "idle"
  /\ Current # 0
  /\ pc' = "rmdown" /\ job' = [spec |-> rows[Current].spec, val |-> None, row |-> Current]
  /\ UNCHANGED <<rows, world, secret, asked, born, sure>>

\* No row: what is labelled with the app's name goes, and that is all.
RemoveUnknown ==
  /\ pc = "idle" /\ Current = 0
  /\ surf' = {}
  /\ UNCHANGED <<rows, proj, routes, secret, pc, job, asked, born, sure>>

\* Defect: the backing project is not brought down.
RemoveDownDefect ==
  /\ pc = "rmdown"
  /\ IF job.spec.kind = "compose" THEN proj' = Downed(job.spec.file) /\ UNCHANGED surf
                                  ELSE surf' = {} /\ UNCHANGED proj
  /\ Goto("rmroute")
  /\ UNCHANGED <<rows, routes, secret, asked, born, sure>>

\* A failure ends the removal; the surfaces may be gone by then.
RemoveDown ==
  /\ pc = "rmdown"
  /\ \/ /\ surf' = IF job.spec.kind = "compose" THEN surf ELSE {}
        /\ proj' = Downed(job.spec.file)
        /\ Goto("rmroute") /\ UNCHANGED sure
     \/ /\ "down" \in Faults
        /\ surf' \in {surf} \cup {{} : k \in {job.spec.kind} \cap {"surface"}}
        /\ Done /\ sure' = FALSE /\ UNCHANGED proj
  /\ UNCHANGED <<rows, routes, secret, asked, born>>

\* "Best-effort: a failure here shouldn't stop the app from being retired."
RemoveRoute ==
  /\ pc = "rmroute"
  /\ \/ routes' = [routes EXCEPT ![job.spec.dom] = None] /\ UNCHANGED sure
     \/ "router" \in Faults /\ UNCHANGED routes /\ sure' = FALSE
  /\ Goto("rmstatus")
  /\ UNCHANGED <<rows, proj, surf, secret, asked, born>>

RemoveStatus ==
  /\ pc = "rmstatus"
  /\ \/ rows' = Retired(job.row) /\ UNCHANGED sure
     \/ "store" \in Faults /\ UNCHANGED rows /\ sure' = FALSE
  /\ Done
  /\ UNCHANGED <<world, secret, asked, born>>

-----------------------------------------------------------------------------
(* The daemon's start: buildInitialRoutes *)

\* A compose app's row has no replicas, and its containers have no label that
\* makes them surfaces.
InitialRoutes ==
  [d \in Domains |->
     IF Current # 0 /\ rows[Current].spec.kind = "surface" /\ rows[Current].spec.dom = d
       THEN Surface(Current) ELSE None]

Restart ==
  /\ "crash" \in Faults
  /\ routes' = InitialRoutes
  /\ asked' = <<>> /\ Done
  /\ sure' = (sure /\ pc = "idle" /\ Current # 0 /\ rows[Current].spec.kind = "surface")
  /\ UNCHANGED <<rows, proj, surf, secret, born>>

-----------------------------------------------------------------------------
Init ==
  /\ rows = <<>> /\ asked = <<>>
  /\ proj = [x \in Services |-> None] /\ surf = {} /\ routes = [d \in Domains |-> None]
  /\ secret = None
  /\ pc = "idle" /\ job = NoJob
  /\ born = 0 /\ sure = TRUE

ApplyCompose == ComposeUp \/ Locate \/ SetRoute \/ CheckHealthCompose \/ RetireRow \/ RecordRunning
Remove == BeginRemove \/ RemoveUnknown \/ RemoveDown \/ RemoveRoute \/ RemoveStatus

Next ==
  \/ \E v \in Values \cup {None} : ChangeSecret(v)
  \/ \E spec \in Specs : BeginApply(spec)
  \/ AskRollback \/ BeginRollback
  \/ ApplyCompose
  \/ EnsureBacking \/ Swap
  \/ Remove
  \/ Restart

Spec == Init /\ [][Next]_vars

-----------------------------------------------------------------------------
(* Properties *)

Target == {None} \cup [surface: Nat] \cup [service: Services]

TypeOK ==
  /\ rows \in Seq(Row) /\ asked \in Seq(AppSpec)
  /\ proj \in [Services -> Cont \cup {None}]
  /\ surf \subseteq DOMAIN rows
  /\ routes \in [Domains -> Target]
  /\ secret \in Values \cup {None}
  /\ pc \in Steps /\ (pc = "idle" => job = NoJob) /\ (pc # "idle" => job \in Job)
  /\ job.row \in {0} \cup DOMAIN rows
  /\ born \in Nat /\ sure \in BOOLEAN
  /\ \A x \in Services : proj[x] # None => proj[x].age <= born

\* What a row stands for is there and reachable.
Serves(i) ==
  LET spec == rows[i].spec IN
  /\ \A x \in Declared(spec.file) : proj[x] # None /\ proj[x].conf = spec.file[x]
  /\ IF spec.kind = "compose"
       THEN /\ Declared(spec.file) = {x \in Services : proj[x] # None}
            /\ routes[spec.dom] = Service(spec.web)
       ELSE i \in surf /\ routes[spec.dom] = Surface(i)

Newly == rows[Len(rows)].status

\* At rest the store does not lie: the project, the surface and the route are what
\* the running row says, or a newer row tells of an attempt that failed and may
\* have left something else live ("live and flagged", applyCompose).
FlaggedOrServed ==
  (pc = "idle" /\ sure /\ Current # 0 /\ Newly # "failed") => Serves(Current)

\* Whatever secrets are set, changed and deleted while a deploy or a rollback is
\* at work, no service is ever started without the value of a secret that its app
\* lists (Resolve's "fail closed", of values that are read once).  A reference to
\* one the app does not list is blank, whatever its service says (Resolve).
FailClosed == \A x \in Services : proj[x] # None => proj[x].val # None

\* Once the app has been removed without an error, and not been deployed since, what
\* its row said is gone: the route of its domain, the services its file declares and,
\* of an image app, every surface (removeCompose, removeSingleService).  Remove knows
\* that row only.  It leaves services that the row does not declare, as a failed
\* attempt may have started, and the surface of the image app a compose app once was.
RemovedIsGone ==
  (pc = "idle" /\ sure /\ rows # <<>> /\ Current = 0 /\ Newly = "retired") =>
    LET spec == rows[Len(rows)].spec IN
      /\ routes[spec.dom] = None
      /\ \A x \in Declared(spec.file) : proj[x] = None
      /\ spec.kind = "surface" => surf = {}

\* cli.go: the daemon's first reload "installs the full correct set" of routes.
RestartKeepsRoutes ==
  [][(Restart /\ pc = "idle" /\ Current # 0) =>
       routes'[rows[Current].spec.dom] = routes[rows[Current].spec.dom]]_vars
=============================================================================
