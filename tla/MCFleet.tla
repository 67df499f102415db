------------------------------ MODULE MCFleet ------------------------------
(* Instances of Fleet for TLC. *)
EXTENDS Fleet

MCNodes == {"local", "n1", "n2"}
MCDomains == {"d1", "none"}

S(v, n, on) == [app |-> "web", ver |-> v, dom |-> "d1", count |-> n, node |-> on,
                gate |-> "docker", git |-> FALSE]

\* A pair the scheduler places.
Pair == {S(1, 2, "any")}

\* A single replica the scheduler places.
Single == {S(1, 1, "any")}

Both == Pair \cup Single
=============================================================================
