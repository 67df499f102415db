---------------------------- MODULE MCSnapshots ----------------------------
(* Instances of Snapshots for TLC. *)
EXTENDS Snapshots

MCNodes == {"local", "n1"}

\* An image app of one replica that names no node, and what differs from it.
Plain == [git |-> FALSE, build |-> FALSE, backing |-> FALSE, service |-> FALSE,
          dom |-> TRUE, port |-> TRUE, legible |-> TRUE, image |-> [ref |-> "v1"],
          file |-> None, node |-> AnyNode, reps |-> 0]
FromGit == [Plain EXCEPT !.git = TRUE, !.build = TRUE, !.image = None]
Composed == [Plain EXCEPT !.service = TRUE, !.image = None, !.file = "web.yml"]

\* What is deployed, and what is refused.
MCTexts ==
  {Plain, FromGit, Composed,
   [Plain EXCEPT !.node = "n1", !.backing = TRUE],
   [FromGit EXCEPT !.image = [ref |-> "v1"]],
   [Composed EXCEPT !.node = "n1"]}

MCLegacy == {Plain, [Plain EXCEPT !.node = "n1"]}
=============================================================================
