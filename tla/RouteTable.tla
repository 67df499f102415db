----------------------------- MODULE RouteTable -----------------------------
(***************************************************************************)
(* What the router promises its callers: a table of routes that changes    *)
(* one entry at a time, and only once Caddy has it.  A call that fails     *)
(* leaves the table alone; Caddy may have its entry all the same until the *)
(* next call that succeeds.  These are the outcomes Applied, Rejected and  *)
(* AppliedUnknown that Controller builds on.                               *)
(***************************************************************************)
CONSTANTS
  Domains,  \* what a route may be set for
  Hosts,    \* throwaway hosts of staged candidates
  Targets,  \* upstream sets
  None      \* no route

VARIABLES
  known,    \* the table, as the callers know it
  served,   \* what Caddy serves
  pending   \* the table Caddy has taken for a call still to be answered

Keys == Domains \cup Hosts
NoTable == [k \in Keys |-> None]
Table == [Keys -> Targets \cup {None}]

Changed(t) == {[t EXCEPT ![k] = v] : k \in Keys, v \in Targets \cup {None}}
WithoutStaging(t) == [k \in Keys |-> IF k \in Hosts THEN None ELSE t[k]]

Init == known = NoTable /\ served = NoTable /\ pending = None

\* Caddy takes a changed table; the caller waits for its answer.
Serve ==
  /\ pending = None
  /\ \E t \in Changed(known) : served' = t /\ pending' \in {t, None}
  /\ UNCHANGED known

Commit ==
  /\ pending # None
  /\ known' = pending /\ pending' = None
  /\ UNCHANGED served

\* The call fails after all, or the daemon dies.
Forget == pending' = None /\ UNCHANGED <<known, served>>

\* Caddy is brought up to date.
Refresh == pending = None /\ served' = known /\ UNCHANGED <<known, pending>>

\* Caddy is gone, or has been started anew.
Reboot == served' = NoTable /\ UNCHANGED <<known, pending>>

\* A restarted daemon is given the routes its store backs, whatever was known
\* before, and nothing of what was being staged.
Restart ==
  /\ pending = None
  /\ known' \in {WithoutStaging(t) : t \in Table}
  /\ UNCHANGED <<served, pending>>

Next == Serve \/ Commit \/ Forget \/ Refresh \/ Reboot \/ Restart

Spec == Init /\ [][Next]_<<known, served, pending>>
=============================================================================
