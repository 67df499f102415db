----------------------------- MODULE Scheduler -----------------------------
(***************************************************************************)
(* Where a container is put: scheduler.Place on a set of candidates        *)
(* (scheduler.go), and the rule that spreads a replica set over nodes      *)
(* (deployReplicaSet).  Names are numbers, in alphabetical order.          *)
(***************************************************************************)
EXTENDS Integers, FiniteSets, Sequences, FiniteSetsExt

CONSTANTS
  Names,  \* of the registered nodes
  Local   \* the name of the controller's own node

ASSUME NamesAssumption == Names \subseteq Nat \ {0} /\ Local \in Nat \ ({0} \cup Names)

AllNodes == Names \cup {Local}
Nowhere == 0

\* Amounts are whole units; of a node whose use cannot be measured, mem and cpu
\* are its totals.
Capacity == [known: BOOLEAN, mem: Nat, cpu: Nat]
Unmeasured == [known |-> FALSE, mem |-> 0, cpu |-> 0]

Candidate == [name: AllNodes, reachable: BOOLEAN, schedulable: BOOLEAN, cap: Capacity]

\* What cannot be measured is taken to fit.
Fits(c, req) == c.cap.known => c.cap.mem >= req.mem /\ c.cap.cpu >= req.cpu

\* The order of the sort: memory, then processors, then names.
Before(a, b) ==
  \/ a.cap.mem > b.cap.mem
  \/ a.cap.mem = b.cap.mem /\ a.cap.cpu > b.cap.cpu
  \/ a.cap.mem = b.cap.mem /\ a.cap.cpu = b.cap.cpu /\ a.name < b.name

Fitting(cands, req) == {c \in cands : c.reachable /\ c.schedulable /\ Fits(c, req)}

\* What the sort puts first.
Best(cands, req) ==
  {c \in Fitting(cands, req) : \A d \in Fitting(cands, req) \ {c} : Before(c, d)}

Place(cands, req) ==
  IF Best(cands, req) = {} THEN Nowhere ELSE (CHOOSE c \in Best(cands, req) : TRUE).name

\* placeExcludingSet, on candidates that do not change from call to call.
PlaceExcluding(cands, req, exclude) == Place({c \in cands : c.name \notin exclude}, req)

\* A replica goes to a node that has none yet, and if there is no such node to
\* the best of all.
NextTarget(cands, req, exclude) ==
  LET fresh == PlaceExcluding(cands, req, exclude) IN
  IF fresh = Nowhere THEN PlaceExcluding(cands, req, {}) ELSE fresh

\* Defect: only the anchor is kept clear of.
ReplicaTargetsDefect(cands, req, anchor, n) ==
  <<anchor>> \o [i \in 1..(n - 1) |-> NextTarget(cands, req, {anchor})]

\* deployReplicaSet: the anchor has been placed already, by resolvePlacement.
ReplicaTargets(cands, req, anchor, n) ==
  LET exclude[i \in 1..n] ==
        IF i = 1 THEN {anchor}
        ELSE exclude[i - 1] \cup {NextTarget(cands, req, exclude[i - 1])}
  IN [i \in 1..n |-> IF i = 1 THEN anchor ELSE NextTarget(cands, req, exclude[i - 1])]
=============================================================================
