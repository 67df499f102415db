------------------------------ MODULE MCStack ------------------------------
(* Instances of Stack for TLC. *)
EXTENDS Stack

MCServices == {"web", "db"}

File(web, db) == [x \in MCServices |-> IF x = "web" THEN web ELSE db]
App(kind, file, refs, lists, dom) ==
  [kind |-> kind, file |-> file, web |-> "web", refs |-> refs, lists |-> lists, dom |-> dom]

\* Two versions of a stack whose database reads the secret; the second forgets to
\* list it.
Stack1 == App("compose", File("c1", "c1"), {"db"}, TRUE, "d1")
Stack2 == App("compose", File("c2", "c1"), {"db"}, FALSE, "d1")

\* An image app with the same database behind it, and one with none, which reads
\* the secret itself.
Backed == App("surface", File(None, "c1"), {"db"}, TRUE, "d1")
Bare   == App("surface", File(None, None), {}, TRUE, "d1")

MCSpecs == {Stack1, Stack2, Backed, Bare}
Stacks == {Stack1, Stack2}
=============================================================================
