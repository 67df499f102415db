------------------------- MODULE CaddyRouter_proofs -------------------------
(***************************************************************************)
(* Theorems about CaddyRouter: its types, the one entry that may be in     *)
(* doubt, and that it implements RouteTable, for any number of domains,    *)
(* staged hosts and upstream sets.  They assume that a starting daemon can *)
(* read the store, whichever routes that backs; half-done posts are        *)
(* allowed.                                                                *)
(***************************************************************************)
EXTENDS CaddyRouter, TLAPS

Seeded == "seed" \notin Faults

\* The table is what the callers know, while there is a process to hold it.
MemIsKnown == daemon # "down" => mem = known

\* Only a process has a call in progress.
CallsAreOurs == daemon = "down" => call = NoCall

\* What a call posts is the table, but for the entry the call is about.
CandIsOneChange ==
  call.at \in {"post", "write"} =>
    \/ call.key = None /\ call.cand = known
    \/ /\ call.key \in Keys
       /\ \E v \in Targets \cup {None} : call.cand = [known EXCEPT ![call.key] = v]

\* Only a change of an entry comes without EnsureUp.
EnsureHasNoKey == call.at \in EnsureSteps => call.key = None

\* A post that succeeded is in force until Caddy is started anew.
WrittenIsServed == (call.at = "write" /\ cfg # Down /\ ~fresh) => cfg = call.cand

IInv ==
  /\ TypeOK
  /\ MemIsKnown
  /\ CallsAreOurs
  /\ CandIsOneChange
  /\ EnsureHasNoKey
  /\ WrittenIsServed
  /\ AtMostOneInDoubt

LEMMA NoTableIsTable == NoTable \in Table
BY DEF NoTable, Table

LEMMA NoCallIsCall == NoCall \in Call /\ NoCall.at = "idle" /\ NoCall.key = None
BY NoTableIsTable DEF NoCall, Call

\* An entry changed, or the staged ones taken out, a table is still a table.
LEMMA TablesStayTables ==
  ASSUME NEW t \in Table
  PROVE  /\ WithoutStaging(t) \in Table
         /\ \A k \in Keys, v \in Targets \cup {None} : [t EXCEPT ![k] = v] \in Table
BY DEF Table, WithoutStaging

-----------------------------------------------------------------------------
(* Type correctness, whatever fails *)

LEMMA TypeInit == Init => TypeOK
BY NoTableIsTable, NoCallIsCall DEF Init, TypeOK

LEMMA TypeStep == TypeOK /\ [Next]_vars => TypeOK'
<1> SUFFICES ASSUME TypeOK, [Next]_vars PROVE TypeOK'
  OBVIOUS
<1> USE NoTableIsTable, NoCallIsCall DEF TypeOK
<1>1. ASSUME NEW k \in Keys, NEW v \in Targets \cup {None}, Change(k, v)
      PROVE  TypeOK'
  BY <1>1, TablesStayTables DEF Change, Call, caddy
<1>2. CASE Post
  BY <1>2 DEF Post, Goto, Fails, Call
<1>3. CASE Commit
  BY <1>3 DEF Commit, Fails, Call, caddy
<1>4. CASE EnsureUp
  BY <1>4 DEF EnsureUp, Call, EnsureSteps, caddy
<1>5. CASE FindCaddy
  <2>1. Found(ct) \in {"wait", "remove", "run"}
    BY DEF Found
  <2> QED BY <1>5, <2>1 DEF FindCaddy, Goto, Fails, Call, EnsureSteps, caddy
<1>6. CASE RemoveStale
  BY <1>6 DEF RemoveStale, Goto, Fails, Call, EnsureSteps, caddy
<1>7. CASE RunCaddy
  BY <1>7 DEF RunCaddy, Boot, Goto, Fails, Call, EnsureSteps, caddy
<1>8. CASE Refind
  BY <1>8 DEF Refind, Goto, Call, EnsureSteps, caddy
<1>9. CASE RerunCaddy
  BY <1>9 DEF RerunCaddy, Boot, Goto, Fails, Call, EnsureSteps, caddy
<1>10. CASE AdminReady
  BY <1>10 DEF AdminReady, Fails, Call, EnsureSteps, caddy
<1>11. CASE Start
  BY <1>11, TablesStayTables DEF Start, Call, EnsureSteps, caddy
<1>12. CASE Die
  BY <1>12 DEF Die, caddy
<1>13. CASE Environment
  BY <1>13 DEF Environment, CaddyExits, CaddyRemoved, CaddyStarted, Boot
<1>14. CASE UNCHANGED vars
  BY <1>14 DEF vars
<1> QED
  BY <1>1, <1>2, <1>3, <1>4, <1>5, <1>6, <1>7, <1>8, <1>9, <1>10, <1>11, <1>12, <1>13, <1>14 DEF Next

\* The router's state has its types, whatever fails (CaddyRouter, router.go).
THEOREM TypeCorrect == Spec => []TypeOK
<1> QED BY TypeInit, TypeStep, PTL DEF Spec

-----------------------------------------------------------------------------
(* The table and what Caddy serves *)

LEMMA InvInit == Init => IInv
<1> SUFFICES ASSUME Init PROVE IInv
  OBVIOUS
<1>1. TypeOK
  BY TypeInit
<1> QED
  BY <1>1, NoCallIsCall DEF Init, IInv, MemIsKnown, CallsAreOurs, CandIsOneChange,
     EnsureHasNoKey, WrittenIsServed, AtMostOneInDoubt, EnsureSteps

\* Caddy and the callers disagree on one domain at most.
Doubt(c, f, n) ==
  (c # Down /\ ~f) => \A k, l \in Domains : (c[k] # n[k] /\ c[l] # n[l]) => k = l

\* A table that is one change away puts one domain in doubt at most.
LEMMA OneChangeOneDoubt ==
  ASSUME NEW t \in Table, NEW k \in Keys, NEW v \in Targets \cup {None}
  PROVE  Doubt([t EXCEPT ![k] = v], FALSE, t)
BY DEF Doubt, Table, Keys

LEMMA InvStep ==
  ASSUME Seeded, IInv, [Next]_vars
  PROVE  IInv'
<1>0. TypeOK /\ TypeOK'
  BY TypeStep DEF IInv
<1> USE <1>0, NoCallIsCall DEF TypeOK
<1>a. /\ AtMostOneInDoubt = (daemon = "up" => Doubt(cfg, fresh, known))
      /\ AtMostOneInDoubt' = (daemon' = "up" => Doubt(cfg', fresh', known'))
  BY DEF AtMostOneInDoubt, Doubt
<1>b. Down \notin Table
  BY NoneAssumption DEF Table, Keys
<1> DEFINE Rest == /\ MemIsKnown' /\ CallsAreOurs' /\ CandIsOneChange'
                   /\ EnsureHasNoKey' /\ WrittenIsServed' /\ AtMostOneInDoubt'
<1> SUFFICES Rest
  BY DEF IInv
<1> USE DEF IInv, MemIsKnown, CallsAreOurs, EnsureHasNoKey, WrittenIsServed, EnsureSteps
<1>1. ASSUME NEW k \in Keys, NEW v \in Targets \cup {None}, Change(k, v)
      PROVE  Rest
  <2>1. CandIsOneChange'
    BY <1>1 DEF Change, CandIsOneChange
  <2>2. AtMostOneInDoubt'
    BY <1>1, <1>a DEF Change, caddy
  <2> QED BY <1>1, <2>1, <2>2 DEF Change, caddy
<1>2. CASE Post
  <2>1. CandIsOneChange'
    <3>1. known' = known
      BY <1>2 DEF Post, Fails
    <3>2. CASE call' = NoCall
      BY <3>2 DEF CandIsOneChange
    <3>3. CASE call' = [call EXCEPT !.at = "write"]
      <4>1. call.at = "post" /\ call'.key = call.key /\ call'.cand = call.cand
        BY <1>2, <3>3 DEF Post, Call
      <4> QED BY <3>1, <4>1 DEF CandIsOneChange
    <3> QED BY <1>2, <3>2, <3>3 DEF Post, Goto, Fails
  <2>2. AtMostOneInDoubt'
    <3>1. CASE cfg' = call.cand /\ fresh' = FALSE
      <4>1. known' = known
        BY <1>2 DEF Post, Fails
      <4>2. call.at = "post"
        BY <1>2 DEF Post
      <4>3. Doubt(call.cand, FALSE, known)
        <5>1. CASE call.cand = known
          <6> HIDE DEF IInv, TypeOK, MemIsKnown, CallsAreOurs, EnsureHasNoKey, WrittenIsServed
          <6> QED BY <5>1 DEF Doubt
        <5>2. ASSUME call.key \in Keys,
                     NEW v \in Targets \cup {None}, call.cand = [known EXCEPT ![call.key] = v]
              PROVE  Doubt(call.cand, FALSE, known)
          <6>1. known \in Table
            OBVIOUS
          <6>2. Doubt([known EXCEPT ![call.key] = v], FALSE, known)
            BY <5>2, <6>1, OneChangeOneDoubt
          <6> HIDE DEF IInv, TypeOK, MemIsKnown, CallsAreOurs, EnsureHasNoKey, WrittenIsServed
          <6> QED BY <5>2, <6>2
        <5> QED BY <4>2, <5>1, <5>2 DEF CandIsOneChange
      <4> QED BY <3>1, <4>1, <4>3, <1>a
    <3>2. ASSUME UNCHANGED <<cfg, fresh>>, known' = known, daemon' = "up"
          PROVE  Doubt(cfg', fresh', known')
      <4>0. daemon = "up"
        BY <1>2, <3>2 DEF Post, Fails
      <4>1. Doubt(cfg, fresh, known)
        BY <4>0, <1>a DEF IInv
      <4>2. cfg' = cfg /\ fresh' = fresh /\ known' = known
        BY <3>2
      <4> QED BY <4>1, <4>2 DEF Doubt
    <3> QED BY <1>2, <1>a, <3>1, <3>2 DEF Post, Fails
  <2>3. MemIsKnown' /\ CallsAreOurs'
    BY <1>2 DEF Post, Fails, Goto
  <2>4. EnsureHasNoKey' /\ WrittenIsServed'
    <3>1. CASE call' = NoCall
      BY <3>1
    <3>2. CASE call' = [call EXCEPT !.at = "write"] /\ cfg' = call.cand
      BY <3>2 DEF Call
    <3> QED BY <1>2, <3>1, <3>2 DEF Post, Goto, Fails
  <2> QED BY <2>1, <2>2, <2>3, <2>4
<1>3. CASE Commit
  <2>1. ASSUME mem' = call.cand, known' = call.cand, call' = NoCall, daemon' = "up", UNCHANGED caddy
        PROVE  Rest
    <3>1. call.at = "write"
      BY <1>3 DEF Commit
    <3>2. AtMostOneInDoubt'
      BY <2>1, <3>1, <1>a DEF caddy, Doubt
    <3> QED BY <2>1, <3>2 DEF caddy, CandIsOneChange
  <2>2. ASSUME Fails, UNCHANGED caddy PROVE Rest
    BY <2>2, <1>a DEF Fails, caddy, CandIsOneChange
  <2> QED BY <1>3, <2>1, <2>2 DEF Commit
<1>4. ASSUME call.at \in EnsureSteps, call'.at \in EnsureSteps, call'.key = call.key,
             UNCHANGED <<daemon, mem, known>>,
             \/ UNCHANGED caddy
             \/ cfg' = Down
             \/ fresh' = TRUE
      PROVE  Rest
  BY <1>4, <1>a DEF caddy, CandIsOneChange, Doubt
<1>5. ASSUME Fails, UNCHANGED caddy
      PROVE  Rest
  BY <1>5, <1>a DEF Fails, caddy, CandIsOneChange
<1>6. CASE EnsureUp
  BY <1>6, <1>a DEF EnsureUp, caddy, CandIsOneChange
<1>7. CASE FindCaddy
  <2>1. Found(ct) \in {"wait", "remove", "run"}
    BY DEF Found
  <2> QED BY <1>7, <1>4, <1>5, <2>1 DEF FindCaddy, Goto, Call
<1>8. CASE RemoveStale
  BY <1>8, <1>4, <1>5 DEF RemoveStale, Goto, Call
<1>9. CASE RunCaddy
  BY <1>9, <1>4, <1>5 DEF RunCaddy, Boot, Goto, Call
<1>10. CASE Refind
  BY <1>10, <1>4 DEF Refind, Goto, Call
<1>11. CASE RerunCaddy
  BY <1>11, <1>4, <1>5 DEF RerunCaddy, Boot, Goto, Call
<1>12. CASE AdminReady
  <2>1. ASSUME call' = [call EXCEPT !.at = "post", !.cand = mem], UNCHANGED <<daemon, mem, known, caddy>>
        PROVE  Rest
    <3>1. call.key = None /\ mem = known /\ daemon # "down"
      BY <1>12 DEF AdminReady
    <3>2. call'.at = "post" /\ call'.key = None /\ call'.cand = known
      BY <2>1, <3>1 DEF Call
    <3> QED BY <2>1, <3>1, <3>2, <1>a DEF CandIsOneChange, caddy
  <2> QED BY <1>12, <2>1, <1>5 DEF AdminReady
<1>13. CASE Start
  <2>1. mem' = known'
    BY <1>13 DEF Start, Seeded
  <2>3. AtMostOneInDoubt'
    BY <1>13, <1>a DEF Start
  <2>4. call'.at = "find" /\ call'.key = None /\ daemon' = "starting"
    BY <1>13 DEF Start, NoCall
  <2> QED BY <2>1, <2>3, <2>4 DEF CandIsOneChange
<1>14. CASE Die
  BY <1>14, <1>a DEF Die, caddy, CandIsOneChange
<1>15. CASE Environment
  BY <1>15, <1>a DEF Environment, CaddyExits, CaddyRemoved, CaddyStarted, Boot, CandIsOneChange, Doubt
<1>16. CASE UNCHANGED vars
  BY <1>16, <1>a DEF vars, CandIsOneChange
<1> QED
  BY <1>1, <1>2, <1>3, <1>6, <1>7, <1>8, <1>9, <1>10, <1>11, <1>12, <1>13, <1>14, <1>15, <1>16 DEF Next

LEMMA InvHolds == Seeded => (Spec => []IInv)
<1>1. Init => IInv
  BY InvInit
<1>2. Seeded /\ IInv /\ [Next]_vars => IInv'
  BY InvStep
<1>3. Seeded => []Seeded
  OBVIOUS
<1> QED BY <1>1, <1>2, <1>3, PTL DEF Spec

\* What Caddy serves and what the callers of a daemon that is up were told differ in
\* one domain at most, through failed posts, unwritable files and restarts, whatever
\* the store has the daemon start with (applyConfig, router.go).
THEOREM OneInDoubt == Seeded => (Spec => []AtMostOneInDoubt)
<1>1. IInv => AtMostOneInDoubt
  BY DEF IInv
<1> QED BY <1>1, InvHolds, PTL

LEMMA KeptStep ==
  ASSUME IInv, [Next]_vars
  PROVE  RoutesKept
<1>1. TypeOK /\ CandIsOneChange
  BY DEF IInv
<1>2. CASE Post
  <2>1. CASE UNCHANGED cfg
    BY <2>1 DEF RoutesKept
  <2>2. CASE cfg' = call.cand /\ call.at = "post"
    <3>1. CASE call.cand = known
      BY <2>2, <3>1 DEF RoutesKept
    <3>2. ASSUME call.key \in Keys,
                 NEW v \in Targets \cup {None}, call.cand = [known EXCEPT ![call.key] = v]
          PROVE  RoutesKept
      <4>1. ASSUME NEW k \in Domains, k # call.key
            PROVE  call.cand[k] = known[k]
        BY <1>1, <3>2, <4>1 DEF TypeOK, Table, Keys
      <4> QED BY <2>2, <4>1 DEF RoutesKept
    <3> QED BY <1>1, <2>2, <3>1, <3>2 DEF CandIsOneChange
  <2> QED BY <1>2, <2>1, <2>2 DEF Post
<1>3. CASE UNCHANGED cfg
  BY <1>3 DEF RoutesKept
<1>4. CASE cfg' = Down \/ fresh' = TRUE
  BY <1>4 DEF RoutesKept
<1> QED
  BY <1>2, <1>3, <1>4 DEF Next, Change, Commit, EnsureUp, FindCaddy, RemoveStale, RunCaddy,
     Refind, RerunCaddy, AdminReady, Start, Die, Environment, CaddyExits, CaddyRemoved,
     CaddyStarted, Boot, caddy, vars

\* No step takes a route out of Caddy but a change of that route, whatever fails and
\* wherever the daemon dies; the reload of a restarted one takes those its store does
\* not back, and no other (SeedRoutes and EnsureUp, router.go and cli.go).
THEOREM RoutesStay == Seeded => (Spec => NoRouteDropped)
<1>1. IInv /\ [Next]_vars => RoutesKept
  BY KeptStep
<1> QED BY <1>1, InvHolds, PTL DEF Spec, NoRouteDropped

-----------------------------------------------------------------------------
(* The router implements RouteTable *)

LEMMA RefinesInit == Init => RT!Init
BY NoCallIsCall DEF Init, Served, Pending, RT!Init, NoTable, RT!NoTable, Keys, RT!Keys

LEMMA RefinesStep ==
  ASSUME Seeded, IInv, [Next]_vars
  PROVE  [RT!Next]_<<known, Served, Pending>>
<1>0. TypeOK /\ TypeOK'
  BY TypeStep DEF IInv
<1> USE <1>0, NoCallIsCall DEF TypeOK
<1>a. None \notin Table /\ Down \notin Table /\ None \notin Keys
  BY NoneAssumption DEF Table, Keys
<1>b. /\ NoTable = RT!NoTable /\ Table = RT!Table
      /\ \A n : WithoutStaging(n) = RT!WithoutStaging(n)
  BY DEF NoTable, RT!NoTable, Table, RT!Table, Keys, RT!Keys, WithoutStaging, RT!WithoutStaging
<1>c. Served' = IF cfg' = Down THEN NoTable ELSE cfg'
  BY DEF Served, NoTable, Keys
<1> DEFINE Stutter == UNCHANGED <<known, Served, Pending>>
<1> SUFFICES RT!Next \/ Stutter
  OBVIOUS
\* A step that leaves the table and Caddy alone, and writes no file, is not seen.
<1>1. ASSUME UNCHANGED known, UNCHANGED caddy, Pending' = Pending
      PROVE  Stutter
  BY <1>1 DEF caddy, Served, NoTable, Keys
<1>2. ASSUME UNCHANGED known, cfg' \in {Down, NoTable}, Pending' = Pending
      PROVE  RT!Next
  <2>1. Served' = NoTable
    BY <1>2, <1>c
  <2> QED BY <1>2, <2>1, <1>b DEF RT!Next, RT!Reboot, Served, Pending
<1>3. ASSUME Fails, UNCHANGED caddy, call.at # "write"
      PROVE  Stutter
  BY <1>3, <1>1 DEF Fails, Pending
<1>4. ASSUME NEW k \in Keys, NEW v \in Targets \cup {None}, Change(k, v)
      PROVE  Stutter
  BY <1>4, <1>1 DEF Change, Pending
<1>5. CASE Post
  <2>1. call.at = "post" /\ Pending = None /\ UNCHANGED known
    BY <1>5 DEF Post, Fails, Pending
  <2>2. CASE UNCHANGED caddy /\ Fails
    BY <2>1, <2>2, <1>3
  <2>3. CASE cfg' = call.cand
    <3>1. Served' = call.cand
      BY <2>3, <1>a, <1>c DEF Call
    <3>2. Pending' = IF call'.at = "write" /\ call'.key # None THEN call'.cand ELSE None
      BY DEF Pending
    <3>3. call' = [call EXCEPT !.at = "write"] \/ call' = NoCall
      BY <1>5 DEF Post, Goto, Fails
    <3>4. CASE call.key = None /\ call.cand = known
      <4>1. Pending' = None
        BY <3>2, <3>3, <3>4 DEF Call
      <4> QED BY <2>1, <3>1, <3>4, <4>1 DEF RT!Next, RT!Refresh
    <3>5. ASSUME call.key \in Keys,
                 NEW v \in Targets \cup {None}, call.cand = [known EXCEPT ![call.key] = v]
          PROVE  RT!Next
      <4>1. Pending' \in {call.cand, None}
        BY <3>2, <3>3, <3>5, <1>a DEF Call
      <4>2. call.cand \in RT!Changed(known)
        BY <3>5 DEF RT!Changed, RT!Keys, Keys
      <4> QED BY <2>1, <3>1, <4>1, <4>2 DEF RT!Next, RT!Serve
    <3> QED BY <2>1, <3>4, <3>5 DEF IInv, CandIsOneChange
  <2> QED BY <1>5, <2>2, <2>3 DEF Post, caddy
<1>6. CASE Commit
  <2>1. call.at = "write" /\ UNCHANGED caddy /\ Pending' = None
    BY <1>6 DEF Commit, Fails, Pending
  <2>2. Served' = Served
    BY <2>1 DEF caddy, Served, NoTable, Keys
  <2>3. CASE call.key = None
    <3>1. call.cand = known /\ Pending = None
      BY <2>1, <2>3, <1>a DEF IInv, CandIsOneChange, Pending
    <3>2. UNCHANGED known
      BY <1>6, <3>1 DEF Commit, Fails
    <3> QED BY <2>1, <2>2, <3>1, <3>2
  <2>4. CASE call.key # None
    <3>1. Pending = call.cand /\ Pending # None
      BY <2>1, <2>4, <1>a DEF Pending, Call
    <3>2. CASE known' = call.cand
      BY <2>1, <2>2, <3>1, <3>2 DEF RT!Next, RT!Commit
    <3>3. CASE UNCHANGED known
      BY <2>1, <2>2, <3>3 DEF RT!Next, RT!Forget
    <3> QED BY <1>6, <3>2, <3>3 DEF Commit, Fails
  <2> QED BY <2>3, <2>4
<1>7. CASE EnsureUp
  BY <1>7, <1>1 DEF EnsureUp, Pending
<1>8. ASSUME call.at \in EnsureSteps, call'.key = call.key, call'.at # "write", UNCHANGED known,
             UNCHANGED caddy \/ cfg' \in {Down, NoTable}
      PROVE  RT!Next \/ Stutter
  <2>1. Pending = None /\ Pending' = None
    BY <1>8 DEF Pending, EnsureSteps
  <2> QED BY <1>8, <2>1, <1>1, <1>2
<1>9. ASSUME Fails, UNCHANGED caddy, call.at \in EnsureSteps
      PROVE  Stutter
  BY <1>9, <1>3 DEF EnsureSteps
<1>10. CASE FindCaddy
  <2>1. Found(ct) # "write"
    BY DEF Found
  <2> QED BY <1>10, <1>8, <1>9, <2>1 DEF FindCaddy, Goto, Call, EnsureSteps
<1>11. CASE RemoveStale
  BY <1>11, <1>8, <1>9 DEF RemoveStale, Goto, Call, EnsureSteps
<1>12. CASE RunCaddy
  BY <1>12, <1>8, <1>9 DEF RunCaddy, Boot, Goto, Call, EnsureSteps
<1>13. CASE Refind
  BY <1>13, <1>8 DEF Refind, Goto, Call, EnsureSteps
<1>14. CASE RerunCaddy
  BY <1>14, <1>8, <1>9 DEF RerunCaddy, Boot, Goto, Call, EnsureSteps
<1>15. CASE AdminReady
  BY <1>15, <1>8, <1>9 DEF AdminReady, Call, EnsureSteps
<1>16. CASE Start
  <2>1. Pending = None /\ Pending' = None
    BY <1>16 DEF Start, IInv, CallsAreOurs, Pending
  <2>2. Served' = Served
    BY <1>16 DEF Start, caddy, Served, NoTable, Keys
  <2>3. known' \in {RT!WithoutStaging(t) : t \in RT!Table}
    BY <1>16, <1>b DEF Start
  <2> QED BY <2>1, <2>2, <2>3 DEF RT!Next, RT!Restart
<1>17. CASE Die
  <2>1. Pending' = None /\ UNCHANGED known
    BY <1>17 DEF Die, Pending
  <2>2. Served' = Served
    BY <1>17 DEF Die, caddy, Served, NoTable, Keys
  <2> QED BY <2>1, <2>2 DEF RT!Next, RT!Forget
<1>18. CASE Environment
  <2>1. UNCHANGED known /\ Pending' = Pending
    BY <1>18 DEF Environment, Pending
  <2> QED BY <1>18, <2>1, <1>2 DEF Environment, CaddyExits, CaddyRemoved, CaddyStarted, Boot
<1>19. CASE UNCHANGED vars
  BY <1>19 DEF vars, Served, Pending, NoTable, Keys
<1> QED
  BY <1>4, <1>5, <1>6, <1>7, <1>10, <1>11, <1>12, <1>13, <1>14, <1>15, <1>16, <1>17, <1>18, <1>19 DEF Next

\* CaddyRouter (router.go) keeps the promise its callers build on: one entry at a
\* time, and only what Caddy has taken.
THEOREM Implements == Seeded => (Spec => KeepsPromise)
<1>1. Init => RT!Init
  BY RefinesInit
<1>2. Seeded /\ IInv /\ [Next]_vars => [RT!Next]_<<known, Served, Pending>>
  BY RefinesStep
<1>3. Seeded => []Seeded
  OBVIOUS
<1> QED BY <1>1, <1>2, <1>3, InvHolds, PTL DEF Spec, KeepsPromise, RT!Spec
=============================================================================
