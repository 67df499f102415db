------------------------------- MODULE Rollout -------------------------------
(***************************************************************************)
(* What lwd promises of the generations of an app: one takes over from     *)
(* another in a single step, for the traffic, and is recorded later; one   *)
(* app changes at a time; a daemon that dies in between comes back with    *)
(* what is recorded, for every app; and no recorded generation ever comes  *)
(* back as a new one.                                                      *)
(***************************************************************************)
CONSTANTS
  Apps,
  Nothing   \* no generation

VARIABLES
  live,      \* live[a]: the generation that serves a, [gen, spec, ups]
  recorded,  \* recorded[a]: the one a restart goes back to
  past       \* the ids of the generations that have been recorded

Init ==
  /\ live = [a \in Apps |-> Nothing] /\ recorded = [a \in Apps |-> Nothing]
  /\ past = {}

\* No change is under way.
Settled == live = recorded

\* A new generation takes over with all of its upstreams.
Publish(a) ==
  /\ Settled
  /\ live' = [live EXCEPT ![a] = live'[a]]
  /\ live'[a] # Nothing /\ live'[a].gen \notin past
  /\ UNCHANGED <<recorded, past>>

\* The same generation is served by other upstreams.
Refit(a) ==
  /\ Settled /\ live[a] # Nothing /\ live'[a] # Nothing
  /\ live' = [live EXCEPT ![a].ups = live'[a].ups]
  /\ UNCHANGED <<recorded, past>>

Withdraw(a) ==
  /\ Settled /\ live[a] # Nothing
  /\ live' = [live EXCEPT ![a] = Nothing]
  /\ UNCHANGED <<recorded, past>>

\* The record of what serves no more is struck out.
Strike(a) ==
  /\ live[a] # recorded[a] /\ recorded[a] # Nothing
  /\ recorded' = [recorded EXCEPT ![a] = Nothing]
  /\ UNCHANGED <<live, past>>

Record(a) ==
  /\ live[a] # recorded[a] /\ live[a] # Nothing
  /\ recorded' = [recorded EXCEPT ![a] = live[a]]
  /\ past' = past \cup {live[a].gen}
  /\ UNCHANGED live

Restart == live' = recorded /\ UNCHANGED <<recorded, past>>

Next ==
  \/ \E a \in Apps : Publish(a) \/ Refit(a) \/ Withdraw(a) \/ Strike(a) \/ Record(a)
  \/ Restart

Spec == Init /\ [][Next]_<<live, recorded, past>>
=============================================================================
