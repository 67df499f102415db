-------------------------- MODULE NodePool_proofs --------------------------
(***************************************************************************)
(* Theorems about NodePool, for any nodes, pools and capacities and any    *)
(* number of requests at a time: its types, that no client outlives the    *)
(* registration it was made for, that cordons hold, and that there is      *)
(* always the local node to place an app on.                               *)
(***************************************************************************)
EXTENDS NodePool, FiniteSetTheorems, WellFoundedInduction, TLAPS

\* Who has asked the table under the lock has an answer that still holds, or the
\* request that changed it has yet to take the lock.
LookedUpHolds ==
  (lock # Unlocked /\ ~Invalidating(lock.name)) =>
    nodes[lock.name] # None /\ nodes[lock.name].host = lock.reg.host

CInv == NoStaleClient /\ LookedUpHolds

\* What is held is cordoned still.
HeldIsCordoned == \A n \in held : nodes[n] # None /\ ~nodes[n].schedulable

\* A deploy knows the cordons that have held since it began.
HeldIsKnown ==
  /\ dep.at \in {"ask"} \cup Asking => held \cap dep.schedulable = {}
  /\ dep.at # "idle" => \A c \in dep.cands : c.schedulable => c.name \notin held

HInv == HeldIsCordoned /\ HeldIsKnown /\ CordonHolds

\* A step that changes neither the table nor the cache only looks.
Looks == UNCHANGED <<nodes, remotes, lock, handler>>

\* What Place returns is a schedulable candidate, or nothing.
LEMMA PlaceChoosesSchedulable ==
  ASSUME NEW cands \in SUBSET Candidate, NEW req
  PROVE  \/ Place(cands, req) = Nowhere
         \/ \E c \in cands : c.schedulable /\ c.name = Place(cands, req)
BY DEF Place, Best, Fitting

LEMMA CandidatesAreTyped ==
  ASSUME NEW n \in AllNodes, NEW ok \in BOOLEAN, NEW cap \in Capacity, dep.cands \in SUBSET Candidate
  PROVE  Candidates(n, ok, cap) \in SUBSET Candidate
<1>1. (n \in dep.schedulable) \in BOOLEAN
  OBVIOUS
<1>2. ASSUME NEW s \in BOOLEAN
      PROVE  [name |-> n, reachable |-> ok, schedulable |-> s, cap |-> cap] \in Candidate
  BY Zenon DEF Candidate
<1>3. [name |-> n, reachable |-> ok, schedulable |-> n \in dep.schedulable, cap |-> cap] \in Candidate
  BY <1>1, <1>2, Zenon
<1> QED BY <1>3, Zenon DEF Candidates

-----------------------------------------------------------------------------
(* Type correctness *)

LEMMA TypeInit == Init => TypeOK
BY DEF Init, TypeOK, Lock, Handling, NoRequest, Deploy, NoDeploy, Asking

LEMMA ToldIsTyped ==
  ASSUME TypeOK, NEW ok \in BOOLEAN, NEW cap \in Capacity, dep.at \in Asking, Told(ok, cap)
  PROVE  dep' \in Deploy /\ dep'.at = "ask"
<1>1. dep \in [at: {"ask"} \cup Asking, for: Surface, cands: SUBSET Candidate,
              left: SUBSET Names, asked: AllNodes, cached: Client \cup {None},
              schedulable: SUBSET Names]
  BY DEF TypeOK, Deploy, NoDeploy, Asking
<1>2. Candidates(dep.asked, ok, cap) \in SUBSET Candidate
  BY <1>1, CandidatesAreTyped
<1> QED BY <1>1, <1>2 DEF Told, Deploy, AllNodes

\* The steps that may change what a deploy holds.
LEMMA DeployIsTyped ==
  ASSUME TypeOK, DeployStep \/ \E s \in Surface : BeginDeploy(s)
  PROVE  dep' \in Deploy /\ (dep'.at \in Asking => dep'.asked \in Names)
<1> DEFINE Goal == dep' \in Deploy /\ (dep'.at \in Asking => dep'.asked \in Names)
<1>a. Unmeasured \in Capacity /\ \A c \in Caps : c \in Capacity
  BY CapAssumption DEF Unmeasured, Capacity
<1>b. dep \in Deploy /\ (dep.at \in Asking => dep.asked \in Names)
  BY DEF TypeOK
<1>c. ASSUME NEW ok \in BOOLEAN, NEW cap \in Capacity, dep.at \in Asking, Told(ok, cap)
      PROVE  Goal
  BY <1>c, ToldIsTyped DEF Asking
<1>d. ASSUME NEW l \in Asking, dep.at \in Asking,
             dep' = [dep EXCEPT !.at = l] \/ dep' = [dep EXCEPT !.at = l, !.cached = None]
      PROVE  Goal
  <2>1. dep \in [at: {"ask"} \cup Asking, for: Surface, cands: SUBSET Candidate,
                left: SUBSET Names, asked: AllNodes, cached: Client \cup {None},
                schedulable: SUBSET Names]
    BY <1>b, <1>d DEF Deploy, NoDeploy, Asking
  <2>2. dep' \in [at: {"ask"} \cup Asking, for: Surface, cands: SUBSET Candidate,
                 left: SUBSET Names, asked: AllNodes, cached: Client \cup {None},
                 schedulable: SUBSET Names]
    BY <2>1, <1>d
  <2>3. dep'.asked = dep.asked
    BY <2>1, <1>d
  <2> QED BY <1>b, <1>d, <2>2, <2>3 DEF Deploy
<1>1. ASSUME NEW s \in Surface, BeginDeploy(s)
      PROVE  Goal
  <2>1. \A local \in LocalCandidates(s.pool) : local \in SUBSET Candidate
    <3>1. \A c \in Caps \cup {Unmeasured} :
            [name |-> Local, reachable |-> TRUE, schedulable |-> TRUE, cap |-> c] \in Candidate
      BY <1>a DEF Candidate, AllNodes
    <3> QED BY <3>1 DEF LocalCandidates
  <2> QED BY <1>1, <2>1 DEF BeginDeploy, Deploy, Asking
<1>2. CASE ListNodes
  <2>1. dep \in [at: {"list"}, for: Surface, cands: SUBSET Candidate]
    BY <1>2, <1>b DEF ListNodes, Deploy, NoDeploy, Asking
  <2> QED BY <1>2, <2>1 DEF ListNodes, Deploy, Asking, AllNodes
<1>3. CASE Peek
  <2>1. dep.at = "ask"
    BY <1>3 DEF Peek
  <2>2. dep \in [at: {"ask"} \cup Asking, for: Surface, cands: SUBSET Candidate,
                left: SUBSET Names, asked: AllNodes, cached: Client \cup {None},
                schedulable: SUBSET Names]
    BY <2>1, <1>b DEF Deploy, NoDeploy, Asking
  <2>3. PICK n \in dep.left : dep' = [dep EXCEPT !.asked = n, !.cached = remotes[n], !.at = "ping"]
    BY <1>3 DEF Peek
  <2>4. n \in Names /\ remotes[n] \in Client \cup {None}
    BY <2>2, <2>3 DEF TypeOK
  <2> QED BY <2>2, <2>3, <2>4 DEF Deploy, Asking, AllNodes
<1>4. CASE Reachable
  BY <1>4, <1>a, <1>c, <1>d DEF Reachable, Asking
<1>5. CASE Resolve
  BY <1>5, <1>a, <1>c, <1>d DEF Resolve, Asking
<1>6. CASE ResolveBuilds
  BY <1>6, <1>a, <1>c, <1>d DEF ResolveBuilds, Asking
<1>7. CASE AskCapacity
  BY <1>7, <1>a, <1>c, <1>d DEF AskCapacity, Asking
<1>8. CASE Choose
  <2>1. dep.for \in Surface /\ dep.cands \in SUBSET Candidate
    BY <1>8, <1>b DEF Choose, Deploy, NoDeploy, Asking
  <2>2. Place(dep.cands, dep.for.req) \in AllNodes \cup {Nowhere}
    BY <2>1, PlaceChoosesSchedulable DEF Candidate
  <2> QED BY <1>8, <2>1, <2>2 DEF Choose, Deploy, Asking
<1>9. CASE EndDeploy
  BY <1>9 DEF EndDeploy, Deploy, NoDeploy, Asking
<1> QED
  BY <1>1, <1>2, <1>3, <1>4, <1>5, <1>6, <1>7, <1>8, <1>9 DEF DeployStep

\* The rest of the types, which no deploy has a say in.
TableOK ==
  /\ nodes \in [Names -> Registration \cup {None}]
  /\ remotes \in [Names -> Client \cup {None}]
  /\ lock \in Lock
  /\ handler \in [Handlers -> Handling]

LEMMA LookUpIsTyped ==
  ASSUME TableOK, NEW who \in {"deploy", "loop"}, NEW n \in Names, LookUp(who, n)
  PROVE  TableOK'
BY DEF LookUp, Lock, TableOK

LEMMA BuildIsTyped ==
  ASSUME TableOK, NEW who \in {"deploy", "loop"}, NEW transport \in Outcomes, Build(who, transport)
  PROVE  TableOK'
<1>1. lock.name \in Names /\ lock.reg.host \in Hosts
  BY DEF TableOK, Build, Lock, Unlocked, Registration
<1>2. transport # None => ClientFor(lock.reg, transport) \in Client
  BY <1>1 DEF ClientFor, Client, Outcomes
<1> QED BY <1>1, <1>2 DEF TableOK, Build, Cached, Lock

LEMMA TypeStep == TypeOK /\ [Next]_vars => TypeOK'
<1> SUFFICES ASSUME TypeOK, [Next]_vars PROVE TypeOK'
  OBVIOUS
<1> DEFINE DepOK == dep \in Deploy /\ (dep.at \in Asking => dep.asked \in Names)
<1>a. TableOK /\ DepOK /\ held \subseteq Names
  BY DEF TypeOK, TableOK
<1>1. ASSUME NEW h \in Handlers, NEW n \in Names, HandleNodeAdd(h, n)
      PROVE  TypeOK'
  <2>1. \A host \in Hosts, pool \in Pools : Upsert(n, host, pool) \in Registration
    BY DEF Upsert, Registration, TypeOK
  <2>2. TableOK'
    BY <1>1, <1>a, <2>1 DEF HandleNodeAdd, Handling, TableOK
  <2> QED BY <1>1, <1>a, <2>2 DEF HandleNodeAdd, TableOK, TypeOK
<1>2. ASSUME NEW h \in Handlers, NEW n \in Names, HandleNodeDelete(h, n)
      PROVE  TypeOK'
  <2>1. TableOK'
    BY <1>2, <1>a DEF HandleNodeDelete, Handling, TableOK
  <2> QED BY <1>2, <1>a, <2>1 DEF HandleNodeDelete, TableOK, TypeOK
<1>3. ASSUME NEW h \in Handlers, Invalidate(h)
      PROVE  TypeOK'
  <2>1. TableOK'
    BY <1>3, <1>a DEF Invalidate, Handling, TableOK
  <2> QED BY <1>3, <1>a, <2>1 DEF Invalidate, TableOK, TypeOK
<1>4. ASSUME NEW h \in Handlers, NEW n \in Names, NEW to \in BOOLEAN, CheckCordonTarget(h, n, to)
      PROVE  TypeOK'
  <2>1. TableOK'
    BY <1>4, <1>a DEF CheckCordonTarget, Handling, TableOK
  <2> QED BY <1>4, <1>a, <2>1 DEF CheckCordonTarget, TableOK, TypeOK
<1>5. ASSUME NEW h \in Handlers, SetSchedulable(h)
      PROVE  TypeOK'
  <2>1. handler[h] \in [at: {"set"}, name: Names, to: BOOLEAN]
    BY <1>5, <1>a DEF SetSchedulable, Handling, NoRequest, TableOK
  <2>2. nodes' \in [Names -> Registration \cup {None}]
    BY <1>5, <2>1, <1>a DEF SetSchedulable, Registration, TableOK
  <2>3. TableOK'
    BY <1>5, <2>2, <1>a DEF SetSchedulable, Handling, TableOK
  <2> QED BY <1>5, <1>a, <2>3 DEF SetSchedulable, TableOK, TypeOK
<1>6. ASSUME NEW n \in Names, LoopLookUp(n)
      PROVE  TypeOK'
  BY <1>6, <1>a, LookUpIsTyped DEF LoopLookUp, LookUp, TypeOK, TableOK
<1>7. CASE LoopBuild
  BY <1>7, <1>a, BuildIsTyped DEF LoopBuild, Build, TypeOK, TableOK
<1>8. ASSUME DeployStep \/ \E s \in Surface : BeginDeploy(s)
      PROVE  TypeOK'
  <2>1. DepOK'
    BY <1>8, DeployIsTyped
  <2>2. held' \subseteq Names
    BY <1>8, <1>a DEF DeployStep, BeginDeploy, ListNodes, Peek, Reachable, Resolve, ResolveBuilds,
       AskCapacity, Choose, EndDeploy, LookUp, Build
  <2>3. TableOK'
    <3>1. CASE Resolve
      <4>1. dep.asked \in Names
        BY <3>1, <1>a DEF Resolve, Asking
      <4> QED BY <3>1, <4>1, <1>a, LookUpIsTyped DEF Resolve, TableOK
    <3>2. CASE ResolveBuilds
      BY <3>2, <1>a, BuildIsTyped DEF ResolveBuilds
    <3>3. CASE Looks
      BY <3>3, <1>a DEF Looks, TableOK
    <3> QED BY <1>8, <3>1, <3>2, <3>3 DEF DeployStep, BeginDeploy, ListNodes, Peek, Reachable,
         AskCapacity, Choose, EndDeploy, Looks
  <2> QED BY <2>1, <2>2, <2>3 DEF TypeOK, TableOK
<1>9. CASE UNCHANGED vars
  BY <1>9, <1>a DEF vars, TypeOK, TableOK
<1> QED
  BY <1>1, <1>2, <1>3, <1>4, <1>5, <1>6, <1>7, <1>8, <1>9 DEF Next

\* The table, the cache, the requests and the deploy have their types, whatever
\* does not answer (store.go, resolver.go, schedule.go).
THEOREM TypeCorrect == Spec => []TypeOK
<1> QED BY TypeInit, TypeStep, PTL DEF Spec

-----------------------------------------------------------------------------
(* No stale client *)

LEMMA ClientsInit == Init => CInv
BY DEF Init, CInv, NoStaleClient, LookedUpHolds

\* What is about the table, the cache and the lock alone.
LEMMA LookUpKeeps ==
  ASSUME TypeOK, CInv, NEW who, NEW n \in Names, LookUp(who, n)
  PROVE  CInv'
BY DEF TypeOK, CInv, NoStaleClient, LookedUpHolds, LookUp, Invalidating

LEMMA BuildKeeps ==
  ASSUME TypeOK, CInv, NEW who \in {"deploy", "loop"}, NEW transport, Build(who, transport)
  PROVE  CInv'
<1>1. lock # Unlocked /\ lock.name \in Names
  BY DEF Build, TypeOK, Lock, Unlocked
<1>2. LookedUpHolds'
  BY DEF Build, LookedUpHolds
<1>3. ASSUME NEW n \in Names, remotes'[n] # None, ~Invalidating(n)'
      PROVE  nodes'[n] # None /\ nodes'[n].host = remotes'[n].host
  <2>1. ~Invalidating(n) /\ nodes' = nodes
    BY <1>3 DEF Build, Invalidating
  <2>2. CASE remotes'[n] = remotes[n]
    BY <1>3, <2>1, <2>2 DEF CInv, NoStaleClient
  <2>3. CASE n = lock.name /\ remotes'[n] = ClientFor(lock.reg, transport)
    BY <1>1, <2>1, <2>3 DEF CInv, LookedUpHolds, ClientFor
  <2> QED BY <1>1, <2>2, <2>3 DEF Build, Cached, TypeOK
<1> QED BY <1>2, <1>3 DEF CInv, NoStaleClient

LEMMA ClientsStep ==
  ASSUME TypeOK, CInv, [Next]_vars
  PROVE  CInv'
<1> USE DEF CInv, NoStaleClient, LookedUpHolds
<1>1. ASSUME NEW h \in Handlers, NEW n \in Names, HandleNodeAdd(h, n) \/ HandleNodeDelete(h, n)
      PROVE  CInv'
  <2>1. Invalidating(n)'
    BY <1>1 DEF HandleNodeAdd, HandleNodeDelete, Invalidating, TypeOK
  <2>2. \A m \in Names \ {n} : nodes'[m] = nodes[m] /\ (Invalidating(m) => Invalidating(m)')
    BY <1>1 DEF HandleNodeAdd, HandleNodeDelete, Invalidating, TypeOK, NoRequest
  <2>3. lock # Unlocked => lock.name \in Names
    BY DEF TypeOK, Lock
  <2> QED BY <1>1, <2>1, <2>2, <2>3 DEF HandleNodeAdd, HandleNodeDelete
<1>2. ASSUME NEW h \in Handlers, Invalidate(h)
      PROVE  CInv'
  <2>1. \A m \in Names : m # handler[h].name /\ Invalidating(m) => Invalidating(m)'
    BY <1>2 DEF Invalidate, Invalidating, TypeOK
  <2>2. \A m \in Names : remotes'[m] = IF m = handler[h].name THEN None ELSE remotes[m]
    BY <1>2 DEF Invalidate, TypeOK
  <2> QED BY <1>2, <2>1, <2>2 DEF Invalidate
<1>3. ASSUME NEW h \in Handlers, NEW n \in Names, NEW to \in BOOLEAN, CheckCordonTarget(h, n, to)
      PROVE  CInv'
  <2>1. \A m \in Names : Invalidating(m) => Invalidating(m)'
    BY <1>3 DEF CheckCordonTarget, Invalidating, TypeOK, NoRequest
  <2>2. lock # Unlocked => lock.name \in Names
    BY DEF TypeOK, Lock
  <2> QED BY <1>3, <2>1, <2>2 DEF CheckCordonTarget
<1>4. ASSUME NEW h \in Handlers, SetSchedulable(h)
      PROVE  CInv'
  <2>1. \A m \in Names : Invalidating(m) => Invalidating(m)'
    BY <1>4 DEF SetSchedulable, Invalidating, TypeOK
  <2>2. lock # Unlocked => lock.name \in Names
    BY DEF TypeOK, Lock
  <2>3. handler[h].name \in Names
    BY <1>4 DEF SetSchedulable, TypeOK, Handling, NoRequest
  <2>4. \A m \in Names : /\ nodes'[m] = None <=> nodes[m] = None
                         /\ nodes[m] # None => nodes'[m].host = nodes[m].host
    <3>1. CASE nodes' = nodes
      BY <3>1
    <3>2. CASE /\ nodes[handler[h].name] # None
               /\ nodes' = [nodes EXCEPT ![handler[h].name].schedulable = handler[h].to]
      <4>1. nodes[handler[h].name] \in Registration
        BY <2>3, <3>2 DEF TypeOK
      <4>2. None \notin Registration
        BY PoolAssumption DEF Registration
      <4>3. nodes'[handler[h].name] \in Registration
            /\ nodes'[handler[h].name].host = nodes[handler[h].name].host
        BY <1>4, <2>3, <3>2, <4>1 DEF TypeOK, SetSchedulable, Registration, Handling, NoRequest
      <4>4. \A m \in Names \ {handler[h].name} : nodes'[m] = nodes[m]
        BY <3>2 DEF TypeOK
      <4> QED BY <3>2, <4>2, <4>3, <4>4
    <3>3. \/ nodes' = nodes
          \/ /\ nodes[handler[h].name] # None
             /\ nodes' = [nodes EXCEPT ![handler[h].name].schedulable = handler[h].to]
      BY <1>4 DEF SetSchedulable
    <3> QED BY <3>1, <3>2, <3>3
  <2> QED BY <1>4, <2>1, <2>2, <2>4 DEF SetSchedulable
<1>5. ASSUME Looks
      PROVE  CInv'
  BY <1>5 DEF Looks, Invalidating
<1>6. ASSUME NEW n \in Names, LoopLookUp(n)
      PROVE  CInv'
  BY <1>6, LookUpKeeps DEF LoopLookUp
<1>7. CASE LoopBuild
  BY <1>7, BuildKeeps DEF LoopBuild
<1>8. CASE Resolve
  <2>1. dep.asked \in Names
    BY <1>8 DEF Resolve, TypeOK, Asking
  <2> QED BY <1>5, <1>8, <2>1, LookUpKeeps DEF Resolve, Looks
<1>9. CASE ResolveBuilds
  BY <1>9, BuildKeeps DEF ResolveBuilds
<1>10. ASSUME NEW s \in Surface, BeginDeploy(s)
       PROVE  CInv'
  BY <1>5, <1>10 DEF BeginDeploy, Looks
<1>11. CASE ListNodes \/ Peek \/ Reachable \/ AskCapacity \/ Choose \/ EndDeploy
  BY <1>5, <1>11 DEF ListNodes, Peek, Reachable, AskCapacity, Choose, EndDeploy, Looks
<1>12. CASE UNCHANGED vars
  BY <1>5, <1>12 DEF vars, Looks
<1> QED
  BY <1>1, <1>2, <1>3, <1>4, <1>6, <1>7, <1>8, <1>9, <1>10, <1>11, <1>12 DEF Next, DeployStep

\* However lookups, dials and requests interleave, a client that outlives the
\* registration it was made for goes before the request is answered
\* (Invalidate, resolver.go).
THEOREM ClientsAreCurrent == Spec => []NoStaleClient
<1>1. CInv => NoStaleClient
  BY DEF CInv
<1>2. TypeOK /\ CInv /\ [Next]_vars => CInv'
  BY ClientsStep
<1> QED BY <1>1, <1>2, ClientsInit, TypeCorrect, PTL DEF Spec

-----------------------------------------------------------------------------
(* Cordons *)

LEMMA CordonsInit == Init => HInv
BY DEF Init, HInv, HeldIsCordoned, HeldIsKnown, CordonHolds, NoDeploy, Asking

LEMMA ToldKeeps ==
  ASSUME TypeOK, HInv, dep.at \in Asking, NEW ok, NEW cap, Told(ok, cap), UNCHANGED held
  PROVE  HeldIsKnown'
<1>1. dep \in [at: {"ask"} \cup Asking, for: Surface, cands: SUBSET Candidate,
              left: SUBSET Names, asked: AllNodes, cached: Client \cup {None},
              schedulable: SUBSET Names]
  BY DEF TypeOK, Deploy, NoDeploy, Asking
<1>2. dep'.at = "ask" /\ dep'.schedulable = dep.schedulable
      /\ dep'.cands = Candidates(dep.asked, ok, cap)
  BY <1>1 DEF Told
<1>3. ASSUME NEW c \in dep'.cands, c.schedulable
      PROVE  c.name \notin held
  <2>1. CASE c \in dep.cands
    BY <1>3, <2>1 DEF HInv, HeldIsKnown, Asking
  <2>2. CASE c = [name |-> dep.asked, reachable |-> ok,
                  schedulable |-> dep.asked \in dep.schedulable, cap |-> cap]
    BY <1>3, <2>2 DEF HInv, HeldIsKnown, Asking
  <2> QED BY <1>2, <1>3, <2>1, <2>2 DEF Candidates
<1> QED BY <1>2, <1>3 DEF HInv, HeldIsKnown, Asking

LEMMA CordonsStep ==
  ASSUME TypeOK, HInv, [Next]_vars
  PROVE  HInv'
<1> USE DEF HInv, HeldIsCordoned, HeldIsKnown, CordonHolds
<1>a. None \notin Registration
  BY PoolAssumption DEF Registration
<1>1. ASSUME UNCHANGED dep, held' \subseteq held, HeldIsCordoned'
      PROVE  HInv'
  BY <1>1
<1>2. ASSUME NEW h \in Handlers, NEW n \in Names, HandleNodeAdd(h, n)
      PROVE  HInv'
  <2>1. PICK host \in Hosts, pool \in Pools : nodes' = [nodes EXCEPT ![n] = Upsert(n, host, pool)]
    BY <1>2 DEF HandleNodeAdd
  <2>2. Upsert(n, host, pool) # None
    <3>1. Upsert(n, host, pool) \in Registration
      BY DEF Upsert, Registration, TypeOK
    <3> QED BY <1>a, <3>1
  <2>3. nodes[n] # None => Upsert(n, host, pool).schedulable = nodes[n].schedulable
    BY DEF Upsert
  <2>4. \A m \in held : nodes'[m] # None /\ ~nodes'[m].schedulable
    BY <2>1, <2>2, <2>3 DEF TypeOK
  <2> QED BY <1>1, <1>2, <2>4 DEF HandleNodeAdd
<1>3. ASSUME NEW h \in Handlers, NEW n \in Names, HandleNodeDelete(h, n)
      PROVE  HInv'
  <2>1. \A m \in held \ {n} : nodes'[m] = nodes[m]
    BY <1>3 DEF HandleNodeDelete, TypeOK
  <2> QED BY <1>1, <1>3, <2>1 DEF HandleNodeDelete
<1>4. ASSUME NEW h \in Handlers, SetSchedulable(h)
      PROVE  HInv'
  <2>1. handler[h].name \in Names /\ handler[h].to \in BOOLEAN
    BY <1>4 DEF SetSchedulable, TypeOK, Handling, NoRequest
  <2>2. \A m \in held' : nodes'[m] # None /\ ~nodes'[m].schedulable
    <3>1. CASE nodes' = nodes
      BY <1>4, <3>1 DEF SetSchedulable
    <3>2. CASE /\ nodes[handler[h].name] # None
               /\ nodes' = [nodes EXCEPT ![handler[h].name].schedulable = handler[h].to]
      <4>1. nodes[handler[h].name] \in Registration
        BY <2>1, <3>2 DEF TypeOK
      <4>2. nodes'[handler[h].name] \in Registration
            /\ nodes'[handler[h].name].schedulable = handler[h].to
        BY <2>1, <3>2, <4>1 DEF TypeOK, Registration
      <4>3. \A m \in Names \ {handler[h].name} : nodes'[m] = nodes[m]
        BY <3>2 DEF TypeOK
      <4>4. held' \subseteq held /\ (handler[h].to => handler[h].name \notin held')
        BY <1>4 DEF SetSchedulable
      <4> QED BY <1>a, <2>1, <4>2, <4>3, <4>4 DEF TypeOK
    <3> QED BY <1>4, <3>1, <3>2 DEF SetSchedulable
  <2> QED BY <1>1, <1>4, <2>2 DEF SetSchedulable
<1>5. ASSUME UNCHANGED <<nodes, held, dep>>
      PROVE  HInv'
  BY <1>5
<1>6. ASSUME NEW s \in Surface, BeginDeploy(s)
      PROVE  HInv'
  <2>1. HeldIsCordoned'
    BY <1>6 DEF BeginDeploy
  <2>2. \A local \in LocalCandidates(s.pool) : \A c \in local : c.name \notin Names
    BY NamesAssumption DEF LocalCandidates
  <2> QED BY <1>6, <2>1, <2>2 DEF BeginDeploy, Asking
<1>7. ASSUME UNCHANGED <<nodes, held>>, HeldIsKnown', CordonHolds'
      PROVE  HInv'
  BY <1>7
<1>8. CASE ListNodes
  BY <1>8 DEF ListNodes, Asking
<1>9. ASSUME NEW ok, NEW cap, dep.at \in Asking, Told(ok, cap), UNCHANGED <<nodes, held>>
      PROVE  HInv'
  <2>1. dep'.at = "ask"
    BY <1>9 DEF TypeOK, Deploy, NoDeploy, Asking, Told
  <2> QED BY <1>7, <1>9, <2>1, ToldKeeps
<1>10. ASSUME dep.at \in {"ask"} \cup Asking, dep'.at \in Asking, dep'.cands = dep.cands,
              dep'.schedulable = dep.schedulable, UNCHANGED <<nodes, held>>
       PROVE  HInv'
  BY <1>10 DEF Asking
<1>11. dep.at \in {"ask"} \cup Asking =>
         dep \in [at: {"ask"} \cup Asking, for: Surface, cands: SUBSET Candidate,
                 left: SUBSET Names, asked: AllNodes, cached: Client \cup {None},
                 schedulable: SUBSET Names]
  BY DEF TypeOK, Deploy, NoDeploy, Asking
<1>12. CASE Peek
  BY <1>10, <1>11, <1>12 DEF Peek, Asking
<1>13. ASSUME dep.at \in Asking, NEW l \in Asking, UNCHANGED <<nodes, held>>,
              dep' = [dep EXCEPT !.at = l] \/ dep' = [dep EXCEPT !.at = l, !.cached = None]
       PROVE  HInv'
  <2>1. dep'.at \in Asking /\ dep'.cands = dep.cands /\ dep'.schedulable = dep.schedulable
    BY <1>11, <1>13 DEF Asking
  <2> QED BY <1>10, <1>13, <2>1
<1>14. CASE Reachable
  <2>1. dep.at \in Asking /\ UNCHANGED <<nodes, held>>
    BY <1>14 DEF Reachable, Asking
  <2>2. CASE Told(FALSE, Unmeasured)
    BY <1>9, <2>1, <2>2
  <2>3. CASE dep' = [dep EXCEPT !.at = "resolve", !.cached = None]
    BY <1>13, <2>1, <2>3 DEF Asking
  <2> QED BY <1>14, <2>2, <2>3 DEF Reachable
<1>15. CASE Resolve
  <2>1. dep.at \in Asking /\ UNCHANGED <<nodes, held>>
    BY <1>15 DEF Resolve, LookUp, Asking
  <2>2. CASE Told(FALSE, Unmeasured)
    BY <1>9, <2>1, <2>2
  <2>3. CASE dep' = [dep EXCEPT !.at = "capacity"] \/ dep' = [dep EXCEPT !.at = "build"]
    BY <1>13, <2>1, <2>3 DEF Asking
  <2> QED BY <1>15, <2>2, <2>3 DEF Resolve
<1>16. CASE ResolveBuilds \/ AskCapacity
  <2>1. dep.at \in Asking /\ UNCHANGED <<nodes, held>>
    BY <1>16 DEF ResolveBuilds, AskCapacity, Build, Asking
  <2>2. ASSUME NEW ok, NEW cap, Told(ok, cap)
        PROVE  HInv'
    BY <1>9, <2>1, <2>2
  <2>3. CASE dep' = [dep EXCEPT !.at = "capacity"]
    BY <1>13, <2>1, <2>3 DEF Asking
  <2>4. \/ \E ok \in BOOLEAN, cap \in Caps \cup {Unmeasured} : Told(ok, cap)
        \/ dep' = [dep EXCEPT !.at = "capacity"]
    BY <1>16 DEF ResolveBuilds, AskCapacity
  <2>5. CASE \E ok \in BOOLEAN, cap \in Caps \cup {Unmeasured} : Told(ok, cap)
    BY <2>2, <2>5
  <2> QED BY <2>3, <2>4, <2>5
<1>17. CASE Choose
  <2>1. dep.cands \in SUBSET Candidate /\ held \subseteq Names
    BY <1>17 DEF Choose, TypeOK, Deploy, NoDeploy, Asking
  <2>2. Place(dep.cands, dep.for.req) \notin held
    BY <1>17, <2>1, PlaceChoosesSchedulable, NamesAssumption DEF Choose, Nowhere
  <2> QED BY <1>7, <1>17, <2>2 DEF Choose, Asking
<1>18. CASE EndDeploy
  BY <1>18 DEF EndDeploy, NoDeploy, Asking
<1> QED
  BY <1>2, <1>3, <1>4, <1>5, <1>6, <1>8, <1>12, <1>13, <1>14, <1>15, <1>16, <1>17, <1>18
     DEF Next, DeployStep, Invalidate, CheckCordonTarget, LoopLookUp, LoopBuild, LookUp, Build, vars

\* No deploy places anything on a node that was cordoned before it began and has
\* not been given free or removed, registered anew or not (AddNode, store.go).
THEOREM CordonsHold == Spec => []CordonHolds
<1>1. HInv => CordonHolds
  BY DEF HInv
<1>2. TypeOK /\ HInv /\ [Next]_vars => HInv'
  BY CordonsStep
<1> QED BY <1>1, <1>2, CordonsInit, TypeCorrect, PTL DEF Spec

-----------------------------------------------------------------------------
(* The scheduler: what fits is found *)

NamesDistinct(cands) == \A c, d \in cands : c.name = d.name => c = d

LEMMA BeforeIsOrder ==
  ASSUME NEW cands \in SUBSET Candidate, NamesDistinct(cands)
  PROVE  /\ \A a, b \in cands : a # b => Before(a, b) \/ Before(b, a)
         /\ \A a, b, c \in cands : Before(a, b) /\ Before(b, c) => Before(a, c)
<1>1. \A c \in cands : c.name \in Nat /\ c.cap.mem \in Nat /\ c.cap.cpu \in Nat
  BY NamesAssumption DEF Candidate, Capacity, AllNodes
<1>2. ASSUME NEW a \in cands, NEW b \in cands, a # b
      PROVE  Before(a, b) \/ Before(b, a)
  <2>1. a.name # b.name
    BY <1>2 DEF NamesDistinct
  <2> QED BY <1>1, <2>1 DEF Before
<1>3. ASSUME NEW a \in cands, NEW b \in cands, NEW c \in cands, Before(a, b), Before(b, c)
      PROVE  Before(a, c)
  BY <1>1, <1>3 DEF Before
<1> QED BY <1>2, <1>3

\* Of some candidates with a name each one goes before all others.
LEMMA FirstExists ==
  ASSUME NEW cands \in SUBSET Candidate, NamesDistinct(cands), IsFiniteSet(cands), cands # {}
  PROVE  \E c \in cands : \A d \in cands \ {c} : Before(c, d)
<1>1. PICK seq \in Seq(cands) : \A c \in cands : \E n \in 1..Len(seq) : seq[n] = c
  BY DEF IsFiniteSet
<1> DEFINE First(k) == \E b \in 1..k : \A d \in 1..k : seq[d] # seq[b] => Before(seq[b], seq[d])
           Bad == {k \in 1..Len(seq) : ~First(k)}
           R == OpToRel(<, Nat)
<1>2. Len(seq) \in Nat /\ \A k \in 1..Len(seq) : seq[k] \in cands
  BY <1>1
<1>3. Len(seq) \in 1..Len(seq)
  BY <1>1, <1>2
<1>4. IsWellFoundedOn(R, Nat)
  BY NatLessThanWellFounded
<1>5. \A x, y \in Nat : y < x => <<y, x>> \in R
  BY DEF OpToRel
<1> HIDE DEF R
<1>a. \A a, b \in cands : a # b => Before(a, b) \/ Before(b, a)
  BY BeforeIsOrder
<1>b. \A a, b, c \in cands : Before(a, b) /\ Before(b, c) => Before(a, c)
  BY BeforeIsOrder
<1>6. Bad = {}
  <2> SUFFICES ASSUME Bad # {} PROVE FALSE
    OBVIOUS
  <2>1. Bad \subseteq Nat
    BY <1>2
  <2>2. PICK k \in Bad : \A y \in Bad : ~(<<y, k>> \in R)
    BY <1>4, <2>1, WFMin
  <2>3. k \in 1..Len(seq) /\ ~First(k)
    BY <2>2
  <2>4. k # 1
    <3>1. First(1)
      BY <1>2
    <3> QED BY <2>3, <3>1
  <2>5. k - 1 \in 1..Len(seq) /\ k - 1 < k
    BY <1>2, <2>3, <2>4
  <2>6. First(k - 1)
    BY <1>5, <2>1, <2>2, <2>5
  <2>7. PICK b \in 1..(k - 1) : \A d \in 1..(k - 1) : seq[d] # seq[b] => Before(seq[b], seq[d])
    BY <2>6
  <2>8. b \in 1..k /\ k \in 1..k /\ \A d \in 1..k : d \in 1..(k - 1) \/ d = k
    BY <1>2, <2>3, <2>7
  <2>9. seq[b] \in cands /\ seq[k] \in cands /\ \A d \in 1..k : seq[d] \in cands
    <3>1. \A d \in 1..k : d \in 1..Len(seq)
      BY <1>2, <2>3
    <3> QED BY <1>2, <2>8, <3>1
  <2>10. CASE seq[k] = seq[b] \/ Before(seq[b], seq[k])
    <3>1. \A d \in 1..k : seq[d] # seq[b] => Before(seq[b], seq[d])
      BY <2>7, <2>8, <2>10
    <3> QED BY <2>3, <2>8, <3>1
  <2>11. CASE seq[k] # seq[b] /\ ~Before(seq[b], seq[k])
    <3>1. Before(seq[k], seq[b])
      BY <1>a, <2>9, <2>11
    <3>2. ASSUME NEW d \in 1..k, seq[d] # seq[k] PROVE Before(seq[k], seq[d])
      <4>1. CASE seq[d] = seq[b]
        BY <3>1, <4>1
      <4>2. CASE seq[d] # seq[b]
        <5>1. Before(seq[b], seq[d])
          BY <2>7, <2>8, <3>2, <4>2
        <5>2. seq[d] \in cands
          BY <2>9
        <5> QED BY <1>b, <2>9, <3>1, <5>1, <5>2
      <4> QED BY <4>1, <4>2
    <3> QED BY <2>3, <2>8, <3>2
  <2> QED BY <2>10, <2>11
<1>7. First(Len(seq))
  BY <1>3, <1>6
<1>8. PICK b \in 1..Len(seq) : \A d \in 1..Len(seq) : seq[d] # seq[b] => Before(seq[b], seq[d])
  BY <1>7
<1>9. seq[b] \in cands
  BY <1>2
<1>10. ASSUME NEW d \in cands \ {seq[b]} PROVE Before(seq[b], d)
  <2>1. PICK n \in 1..Len(seq) : seq[n] = d
    BY <1>1
  <2> QED BY <1>8, <2>1
<1> QED BY <1>9, <1>10

\* Place finds a node if there is one that answers, is schedulable and fits, and
\* nothing is placed where it does not fit.
LEMMA PlaceFindsWhatFits ==
  ASSUME NEW cands \in SUBSET Candidate, NamesDistinct(cands), IsFiniteSet(cands), NEW req
  PROVE  /\ Place(cands, req) = Nowhere <=> Fitting(cands, req) = {}
         /\ Place(cands, req) # Nowhere =>
              \E c \in Fitting(cands, req) :
                /\ c.name = Place(cands, req)
                /\ \A d \in Fitting(cands, req) \ {c} : Before(c, d)
<1>1. Fitting(cands, req) \in SUBSET Candidate /\ IsFiniteSet(Fitting(cands, req))
      /\ NamesDistinct(Fitting(cands, req))
  BY FS_Subset DEF Fitting, NamesDistinct
<1>2. Fitting(cands, req) # {} => Best(cands, req) # {}
  BY <1>1, FirstExists DEF Best
<1>3. Best(cands, req) # {} =>
        \E c \in Best(cands, req) : Place(cands, req) = c.name
  BY DEF Place
<1>4. \A c \in Fitting(cands, req) : c.name # Nowhere
  BY <1>1, NamesAssumption DEF Candidate, AllNodes, Nowhere
<1> QED BY <1>2, <1>3, <1>4 DEF Best, Place

-----------------------------------------------------------------------------
(* The local node *)

\* The candidates of a deploy: the local one, if it is one, and each node once.
Gathered(cands, pool) ==
  /\ IsFiniteSet(cands) /\ NamesDistinct(cands)
  /\ pool = Default => \E c \in cands : c.name = Local /\ c.reachable /\ c.schedulable

LInv ==
  /\ dep.at # "idle" => Gathered(dep.cands, dep.for.pool)
  /\ dep.at = "list" => \A c \in dep.cands : c.name = Local
  /\ dep.at \in {"ask"} \cup Asking => \A c \in dep.cands : c.name \notin dep.left
  /\ dep.at \in Asking => dep.asked \in dep.left
  /\ LocalIsThere

LEMMA LocalToldKeeps ==
  ASSUME TypeOK, LInv, dep.at \in Asking, NEW ok, NEW cap, Told(ok, cap)
  PROVE  LInv'
<1> DEFINE new == [name |-> dep.asked, reachable |-> ok,
                   schedulable |-> dep.asked \in dep.schedulable, cap |-> cap]
<1>1. dep \in [at: {"ask"} \cup Asking, for: Surface, cands: SUBSET Candidate,
              left: SUBSET Names, asked: AllNodes, cached: Client \cup {None},
              schedulable: SUBSET Names]
  BY DEF TypeOK, Deploy, NoDeploy, Asking
<1>2. /\ dep'.at = "ask" /\ dep'.for = dep.for /\ dep'.left = dep.left \ {dep.asked}
      /\ dep'.cands = dep.cands \cup {new}
  BY <1>1 DEF Told, Candidates
<1>3. dep.asked \in dep.left /\ new.name = dep.asked /\ Gathered(dep.cands, dep.for.pool)
      /\ \A c \in dep.cands : c.name \notin dep.left
  BY DEF LInv, Asking
<1> HIDE DEF new
<1>4. IsFiniteSet(dep'.cands)
  BY <1>2, <1>3, FS_AddElement DEF Gathered
<1>5. NamesDistinct(dep'.cands)
  BY <1>2, <1>3 DEF Gathered, NamesDistinct
<1>6. Gathered(dep'.cands, dep'.for.pool)
  BY <1>2, <1>3, <1>4, <1>5 DEF Gathered
<1>7. \A c \in dep'.cands : c.name \notin dep'.left
  BY <1>2, <1>3
<1>8. dep'.at \notin {"idle", "list", "chosen"} \cup Asking
  BY <1>2 DEF Asking
<1> QED BY <1>6, <1>7, <1>8 DEF LInv, LocalIsThere

LEMMA LocalStep ==
  ASSUME TypeOK, LInv, [Next]_vars
  PROVE  LInv'
<1>a. dep.at \in {"ask"} \cup Asking =>
        dep \in [at: {"ask"} \cup Asking, for: Surface, cands: SUBSET Candidate,
                left: SUBSET Names, asked: AllNodes, cached: Client \cup {None},
                schedulable: SUBSET Names]
  BY DEF TypeOK, Deploy, NoDeploy, Asking
<1>1. CASE UNCHANGED dep
  BY <1>1 DEF LInv, LocalIsThere
<1>2. ASSUME NEW s \in Surface, BeginDeploy(s)
      PROVE  LInv'
  <2>1. PICK local \in LocalCandidates(s.pool) :
               dep' = [at |-> "list", for |-> s, cands |-> local]
    BY <1>2 DEF BeginDeploy
  <2>2. Gathered(local, s.pool) /\ \A c \in local : c.name = Local
    <3>1. CASE s.pool # Default
      <4>1. local = {}
        BY <3>1 DEF LocalCandidates
      <4> QED BY <3>1, <4>1, FS_EmptySet DEF Gathered, NamesDistinct
    <3>2. CASE s.pool = Default
      <4>1. PICK cap \in Caps \cup {Unmeasured} :
              local = {[name |-> Local, reachable |-> TRUE, schedulable |-> TRUE, cap |-> cap]}
        BY <3>2 DEF LocalCandidates
      <4> DEFINE c == [name |-> Local, reachable |-> TRUE, schedulable |-> TRUE, cap |-> cap]
      <4>2. local = {c} /\ c.name = Local /\ c.reachable /\ c.schedulable
        BY <4>1
      <4> HIDE DEF c
      <4> QED BY <4>2, FS_Singleton DEF Gathered, NamesDistinct
    <3> QED BY <3>1, <3>2
  <2> QED BY <2>1, <2>2 DEF LInv, LocalIsThere, Asking
<1>3. CASE ListNodes
  <2>1. /\ dep.at = "list" /\ dep'.at = "ask" /\ dep'.for = dep.for /\ dep'.cands = dep.cands
        /\ dep'.left \subseteq Names
    BY <1>3 DEF ListNodes
  <2>2. \A c \in dep'.cands : c.name \notin dep'.left
    BY <2>1, NamesAssumption DEF LInv
  <2> QED BY <2>1, <2>2 DEF LInv, LocalIsThere, Asking
<1>4. CASE Peek
  <2>1. dep.at = "ask"
    BY <1>4 DEF Peek
  <2>2. PICK n \in dep.left : dep' = [dep EXCEPT !.asked = n, !.cached = remotes[n], !.at = "ping"]
    BY <1>4 DEF Peek
  <2>3. /\ dep'.at = "ping" /\ dep'.for = dep.for /\ dep'.cands = dep.cands
        /\ dep'.left = dep.left /\ dep'.asked \in dep.left
    BY <1>a, <2>1, <2>2
  <2> QED BY <2>1, <2>3 DEF LInv, LocalIsThere, Asking
<1>5. ASSUME dep.at \in Asking, NEW l \in Asking,
             dep' = [dep EXCEPT !.at = l] \/ dep' = [dep EXCEPT !.at = l, !.cached = None]
      PROVE  LInv'
  <2>1. /\ dep'.at = l /\ dep'.for = dep.for /\ dep'.cands = dep.cands
        /\ dep'.left = dep.left /\ dep'.asked = dep.asked
    BY <1>a, <1>5
  <2> QED BY <1>5, <2>1 DEF LInv, LocalIsThere, Asking
<1>6. CASE Reachable
  BY <1>5, <1>6, LocalToldKeeps DEF Reachable, Asking
<1>7. CASE Resolve
  BY <1>5, <1>7, LocalToldKeeps DEF Resolve, Asking
<1>8. CASE ResolveBuilds
  BY <1>5, <1>8, LocalToldKeeps DEF ResolveBuilds, Asking
<1>9. CASE AskCapacity
  BY <1>5, <1>9, LocalToldKeeps DEF AskCapacity, Asking
<1>10. CASE Choose
  <2>1. /\ dep.at = "ask" /\ dep'.at = "chosen" /\ dep'.for = dep.for /\ dep'.cands = dep.cands
        /\ dep'.node = Place(dep.cands, dep.for.req)
    BY <1>10 DEF Choose
  <2>2. Gathered(dep.cands, dep.for.pool) /\ dep.cands \in SUBSET Candidate
    BY <1>a, <2>1 DEF LInv
  <2>3. ASSUME dep.for.pool = Default, dep'.node = Nowhere
        PROVE  \E c \in dep.cands : c.name = Local /\ c.cap.known /\ ~Fits(c, dep.for.req)
    <3>1. Fitting(dep.cands, dep.for.req) = {}
      BY <2>1, <2>2, <2>3, PlaceFindsWhatFits DEF Gathered
    <3>2. PICK c \in dep.cands : c.name = Local /\ c.reachable /\ c.schedulable
      BY <2>2, <2>3 DEF Gathered
    <3>3. ~Fits(c, dep.for.req)
      BY <3>1, <3>2 DEF Fitting
    <3> QED BY <3>2, <3>3 DEF Fits
  <2> QED BY <2>1, <2>2, <2>3 DEF LInv, LocalIsThere, Asking
<1>11. CASE EndDeploy
  BY <1>11 DEF EndDeploy, NoDeploy, LInv, LocalIsThere, Asking
<1>12. CASE UNCHANGED vars
  BY <1>1, <1>12 DEF vars
<1> QED
  BY <1>1, <1>2, <1>3, <1>4, <1>6, <1>7, <1>8, <1>9, <1>10, <1>11, <1>12
     DEF Next, DeployStep, HandleNodeAdd, HandleNodeDelete, Invalidate, CheckCordonTarget,
         SetSchedulable, LoopLookUp, LoopBuild

\* An app in the default pool is placed, whatever nodes are added, cordoned and
\* removed and whichever do not answer, unless it asks for more than the local node
\* is known to have (localCandidate, schedule.go).
THEOREM LocalStays == Spec => []LocalIsThere
<1>1. Init => LInv
  BY DEF Init, LInv, LocalIsThere, NoDeploy, Asking
<1>2. LInv => LocalIsThere
  BY DEF LInv
<1>3. TypeOK /\ LInv /\ [Next]_vars => LInv'
  BY LocalStep
<1> QED BY <1>1, <1>2, <1>3, TypeCorrect, PTL DEF Spec
=============================================================================
