---------------------------- MODULE CaddyRouter ----------------------------
(***************************************************************************)
(* CaddyRouter (router.go): the mutators, one call at a time under c.mu -  *)
(* post the candidate table, write the Caddyfile, commit -, EnsureUp, which*)
(* adopts, replaces or starts the lwd-caddy container, and the daemon's    *)
(* start, which seeds the table first.  Caddy may exit, be removed or be   *)
(* started by others, and the daemon die, at any point.                    *)
(***************************************************************************)
CONSTANTS Domains, Hosts, Targets, None, Down,
  Faults    \* "seed": buildInitialRoutes fails; "half": a post takes effect and fails

ASSUME NoneAssumption ==
  /\ {None, Down} \cap (Targets \cup Domains \cup Hosts) = {}
  /\ {None, Down} \cap [Domains \cup Hosts -> Targets \cup {None}] = {}
  /\ Domains \cap Hosts = {}

VARIABLES
  mem,     \* CaddyRouter.routes and .staging, of this process
  cfg,     \* what the Caddy process serves, Down if there is none
  fresh,   \* Caddy still runs on the bootstrap Caddyfile
  ct,      \* the lwd-caddy container: none, running or exited
  daemon,  \* down, starting or up
  call,    \* the call in progress
  known    \* history: the routes the store had at the start, and what callers were told since

vars == <<mem, cfg, fresh, ct, daemon, call, known>>

Keys == Domains \cup Hosts
NoTable == [k \in Keys |-> None]
Table == [Keys -> Targets \cup {None}]
WithoutStaging(t) == [k \in Keys |-> IF k \in Hosts THEN None ELSE t[k]]

EnsureSteps == {"find", "remove", "run", "refind", "rerun", "wait"}
NoCall == [at |-> "idle", key |-> None, cand |-> NoTable]
Call == [at: {"idle", "post", "write"} \cup EnsureSteps, key: Keys \cup {None}, cand: Table]

caddy == <<cfg, fresh, ct>>

Goto(l) == call' = [call EXCEPT !.at = l]

\* An error: a daemon that cannot bring up Caddy when it starts gives up.
Fails ==
  /\ call' = NoCall
  /\ IF daemon = "starting" THEN daemon' = "down" /\ mem' = NoTable
                            ELSE UNCHANGED <<daemon, mem>>
  /\ UNCHANGED known

-----------------------------------------------------------------------------
(* The mutators and Reload *)

\* Defect: the table is changed where it is.
ChangeDefect(k, v) ==
  /\ daemon = "up" /\ call = NoCall
  /\ mem' = [mem EXCEPT ![k] = v]
  /\ call' = [at |-> "post", key |-> k, cand |-> mem']
  /\ UNCHANGED <<caddy, daemon, known>>

\* SetRoute, RemoveRoute, SetStaging, RemoveStaging: a copy is changed.
Change(k, v) ==
  /\ daemon = "up" /\ call = NoCall
  /\ call' = [at |-> "post", key |-> k, cand |-> [mem EXCEPT ![k] = v]]
  /\ UNCHANGED <<mem, caddy, daemon, known>>

\* The whole table is posted; Caddy may refuse it, not answer, or take it and
\* not be heard.
Post ==
  /\ call.at = "post"
  /\ \/ /\ ct = "running"
        /\ cfg' = call.cand /\ fresh' = FALSE
        /\ \/ Goto("write") /\ UNCHANGED <<daemon, mem, known>>
           \/ "half" \in Faults /\ Fails
     \/ Fails /\ UNCHANGED <<cfg, fresh>>
  /\ UNCHANGED ct

\* Defect: the candidate is in force but never becomes the table.
CommitDefect ==
  /\ call.at = "write"
  /\ \/ known' = call.cand /\ call' = NoCall /\ daemon' = "up" /\ UNCHANGED mem
     \/ "half" \in Faults /\ Fails
  /\ UNCHANGED caddy

\* The Caddyfile is written, or cannot be; then the table is committed.
Commit ==
  /\ call.at = "write"
  /\ \/ /\ mem' = call.cand /\ known' = call.cand
        /\ call' = NoCall
        /\ daemon' = "up"
     \/ "half" \in Faults /\ Fails
  /\ UNCHANGED caddy

-----------------------------------------------------------------------------
(* EnsureUp *)

\* A deploy brings up Caddy before it does anything else.
EnsureUp ==
  /\ daemon = "up" /\ call = NoCall
  /\ call' = [NoCall EXCEPT !.at = "find"]
  /\ UNCHANGED <<mem, caddy, daemon, known>>

\* Defect: a stopped container is not seen ("docker ps" without --all).
FoundDefect(c) == IF c = "running" THEN "wait" ELSE c

\* A running lwd-caddy is adopted, a stopped one is in the way.
Found(c) == CASE c = "running" -> "wait" [] c = "exited" -> "remove" [] c = "none" -> "run"

FindCaddy ==
  /\ call.at = "find"
  /\ \/ /\ Goto(Found(ct))
        /\ UNCHANGED <<daemon, mem, known>>
     \/ Fails
  /\ UNCHANGED caddy

RemoveStale ==
  /\ call.at = "remove"
  /\ \/ /\ ct # "none" /\ ct' = "none" /\ cfg' = Down /\ fresh' = FALSE
        /\ Goto("run") /\ UNCHANGED <<daemon, mem, known>>
     \/ Fails /\ UNCHANGED caddy

Boot == ct' = "running" /\ cfg' = NoTable /\ fresh' = TRUE

\* Someone else may have taken the name meanwhile, or a port.
RunCaddy ==
  /\ call.at = "run"
  /\ \/ ct = "none" /\ Boot /\ Goto("wait") /\ UNCHANGED <<daemon, mem, known>>
     \/ ct # "none" /\ UNCHANGED caddy /\ Goto("refind") /\ UNCHANGED <<daemon, mem, known>>
     \/ Fails /\ UNCHANGED caddy

\* Whatever has the name goes, if it can be removed.
Refind ==
  /\ call.at = "refind"
  /\ \/ ct' = "none" /\ cfg' = Down /\ fresh' = FALSE
     \/ UNCHANGED caddy
  /\ Goto("rerun")
  /\ UNCHANGED <<daemon, mem, known>>

RerunCaddy ==
  /\ call.at = "rerun"
  /\ \/ ct = "none" /\ Boot /\ Goto("wait") /\ UNCHANGED <<daemon, mem, known>>
     \/ Fails /\ UNCHANGED caddy

\* waitForAdminReady, then Reload: the committed table is posted.
AdminReady ==
  /\ call.at = "wait"
  /\ \/ /\ ct = "running"
        /\ call' = [call EXCEPT !.at = "post", !.cand = mem]
        /\ UNCHANGED <<daemon, mem, known>>
     \/ Fails
  /\ UNCHANGED caddy

-----------------------------------------------------------------------------
(* The daemon's start and end, and the environment *)

\* Defect: nothing is seeded.
StartDefect ==
  /\ daemon = "down"
  /\ daemon' = "starting"
  /\ known' \in {WithoutStaging(t) : t \in Table}
  /\ mem' = NoTable
  /\ call' = [NoCall EXCEPT !.at = "find"]
  /\ UNCHANGED caddy

\* SeedRoutes, before the first EnsureUp, with what buildInitialRoutes makes of the
\* store.  That need not be the table of the process before: a compose app's route,
\* one whose domain was given up and one set but not recorded do not come back, and
\* one removed whose row still runs does.
Start ==
  /\ daemon = "down"
  /\ daemon' = "starting"
  /\ known' \in {WithoutStaging(t) : t \in Table}
  /\ mem' \in {known'} \cup (IF "seed" \in Faults THEN {NoTable} ELSE {})
  /\ call' = [NoCall EXCEPT !.at = "find"]
  /\ UNCHANGED caddy

Die ==
  /\ daemon # "down"
  /\ daemon' = "down" /\ mem' = NoTable /\ call' = NoCall
  /\ UNCHANGED <<caddy, known>>

CaddyExits == ct = "running" /\ ct' = "exited" /\ cfg' = Down /\ fresh' = FALSE
CaddyRemoved == ct # "none" /\ ct' = "none" /\ cfg' = Down /\ fresh' = FALSE
CaddyStarted == ct # "running" /\ Boot

Environment ==
  /\ CaddyExits \/ CaddyRemoved \/ CaddyStarted
  /\ UNCHANGED <<mem, daemon, call, known>>

-----------------------------------------------------------------------------
Init ==
  /\ mem = NoTable /\ known = NoTable
  /\ cfg = Down /\ fresh = FALSE /\ ct = "none"
  /\ daemon = "down" /\ call = NoCall

Next ==
  \/ \E k \in Keys, v \in Targets \cup {None} : Change(k, v)
  \/ Post \/ Commit
  \/ EnsureUp \/ FindCaddy \/ RemoveStale \/ RunCaddy \/ Refind \/ RerunCaddy \/ AdminReady
  \/ Start \/ Die \/ Environment

Spec == Init /\ [][Next]_vars

-----------------------------------------------------------------------------
(* Properties *)

TypeOK ==
  /\ mem \in Table /\ known \in Table
  /\ cfg \in Table \cup {Down}
  /\ fresh \in BOOLEAN
  /\ ct \in {"none", "running", "exited"}
  /\ daemon \in {"down", "starting", "up"}
  /\ call \in Call

\* What Caddy serves differs from what the router of a daemon that is up believes
\* in one entry at most, whatever has failed, unless Caddy has been started anew and
\* nothing has been posted since ("committed only if the reload succeeds").
AtMostOneInDoubt ==
  (daemon = "up" /\ cfg # Down /\ ~fresh) =>
    \A k, l \in Domains : (cfg[k] # known[k] /\ cfg[l] # known[l]) => k = l

RoutesKept ==
  \A k \in Domains :
    (cfg # Down /\ cfg[k] = known[k] /\ cfg' # Down /\ ~fresh') =>
      (cfg'[k] = cfg[k] \/ call.key = k)

\* No step of the daemon takes from Caddy a route that is in force, but a change of
\* that very route, or the replacement of a container that took the name.  Of a
\* restarted daemon this speaks of the routes the store backs: its first reload is
\* not the one of an empty table (cli.go, "drop every app's live route"), but takes
\* what the store does not know of.
NoRouteDropped == [][RoutesKept]_vars

\* What RouteTable speaks of: what requests meet, and the change that is under way.
Served == IF cfg = Down THEN NoTable ELSE cfg
Pending == IF call.at = "write" /\ call.key # None THEN call.cand ELSE None

RT == INSTANCE RouteTable WITH served <- Served, pending <- Pending

\* The router keeps RouteTable's promise, as long as the store can be read when the
\* daemon starts: one entry at a time between restarts, and what is seeded at one.
KeepsPromise == RT!Spec
=============================================================================
