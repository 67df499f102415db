---------------------------- MODULE MCBlueGreen ----------------------------
(* Instances of BlueGreen for TLC. *)
EXTENDS BlueGreen

S(a, v, d, n, on, g) == [app |-> a, ver |-> v, dom |-> d, count |-> n, node |-> on,
                        gate |-> g, git |-> FALSE]

FromGit(s) == [s EXCEPT !.git = TRUE]

MCNodes == {"local", "n1"}
MCDomains == {"d1", "d2", "none"}

\* One app built from git: a single replica anywhere, and a replica pair on
\* another domain, each checked by Docker.
DockerSpecs == {FromGit(S("web", 1, "d1", 1, "any", "docker")),
                FromGit(S("web", 2, "d2", 2, "n1", "docker"))}

\* A single replica checked through the router, and one checked for liveness.
ProbedSpecs == {S("web", 1, "d1", 1, "local", "path"), S("web", 2, "d1", 1, "any", "liveness")}

\* Two apps, each on a domain and a node of its own.
TwoApps == {S("web", 1, "d1", 1, "n1", "docker"), S("api", 1, "d2", 1, "local", "docker")}
=============================================================================
