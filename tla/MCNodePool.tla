----------------------------- MODULE MCNodePool -----------------------------
(* Instances of NodePool and Scheduler for TLC. *)
EXTENDS NodePool

CONSTANTS h1, h2, r1, r2

MCNames == {1}
MCHosts == {h1, h2}
MCAgentHosts == {h1}
MCPools == {"default", "gpu"}
MCHandlers == {r1, r2}
MCCaps == {[known |-> TRUE, mem |-> 1, cpu |-> 1]}
MCReqs == {[mem |-> m, cpu |-> 1] : m \in {1, 2}}

\* Every set of at most three candidates with amounts 1 and 2.
SomeCaps == [known: BOOLEAN, mem: {1, 2}, cpu: {1, 2}]
CandidateSets ==
  UNION {{{[name |-> n, reachable |-> TRUE, schedulable |-> up[n], cap |-> cap[n]] : n \in ns} :
            cap \in [ns -> SomeCaps], up \in [ns -> BOOLEAN]} : ns \in SUBSET (1..3)}

SpreadRule ==
  \A cands \in CandidateSets, req \in MCReqs, n \in 1..3 :
    LET fitting == {c.name : c \in {d \in cands : d.schedulable /\ (d.cap.known => d.cap.mem >= req.mem)}}
        anchor == Place(cands, req)
        on == ReplicaTargets(cands, req, anchor, n)
        mem(x) == (CHOOSE c \in cands : c.name = x).cap.mem IN
    IF fitting = {} THEN anchor = Nowhere
    ELSE /\ {on[i] : i \in 1..n} \subseteq fitting
         /\ Cardinality({on[i] : i \in 1..n}) = Min({n, Cardinality(fitting)})
         /\ \A i \in 1..n, x \in fitting : (\A j \in 1..i : on[j] # x) => mem(on[i]) >= mem(x)

\* Whatever candidates a deploy may come by: its replica set is spread as widely
\* as the nodes that fit allow, no replica is put where it does not fit, and no
\* node that has none yet is passed over for one with less memory.
SpreadWidely == dep.at = "list" => SpreadRule
=============================================================================
