---------------------------- MODULE Stack_proofs ----------------------------
(***************************************************************************)
(* Theorems about Stack, for any services, configurations, secrets and     *)
(* specs, and whatever fails: its types, that no service is started        *)
(* without the value of a secret its app lists, that what runs is what the *)
(* table says or is flagged, and that a removal takes what its row says.   *)
(***************************************************************************)
EXTENDS Stack, SequenceTheorems, WellFoundedInduction, TLAPS

\* What an operation is about to put into services has been resolved.
Resolved == pc \in {"up", "backing"} => job.val # None

SInv == FailClosed /\ Resolved

-----------------------------------------------------------------------------
(* The newest row *)

LEMMA GreatestExists ==
  ASSUME NEW n \in Nat, NEW T, T \subseteq 1..n, T # {}
  PROVE  \E i \in T : \A j \in T : j <= i
<1> DEFINE D == {n - i : i \in T}
           R == OpToRel(<, Nat)
<1>1. D \subseteq Nat /\ D # {}
  <2>1. \A i \in T : n - i \in Nat
    OBVIOUS
  <2>2. \E i \in T : n - i \in D
    OBVIOUS
  <2> QED BY <2>1, <2>2
<1>2. IsWellFoundedOn(R, Nat)
  BY NatLessThanWellFounded
<1>3. \A y, x \in Nat : y < x => <<y, x>> \in R
  BY DEF OpToRel
<1> HIDE DEF R
<1>4. PICK x \in D : \A y \in D : ~ (<<y, x>> \in R)
  BY <1>1, <1>2, WFMin
<1>5. PICK i \in T : x = n - i
  OBVIOUS
<1>6. ASSUME NEW j \in T PROVE j <= i
  <2>1. n - j \in D
    OBVIOUS
  <2>2. ~ (n - j < n - i)
    BY <2>1, <1>1, <1>3, <1>4, <1>5
  <2> QED BY <2>2
<1> QED BY <1>6

LEMMA NewestIsRow ==
  ASSUME rows \in Seq(Row), NEW st
  PROVE  Newest(st) # 0 => Newest(st) \in DOMAIN rows /\ rows[Newest(st)] \in Row
<1> DEFINE ids == {i \in DOMAIN rows : rows[i].status = st}
<1>1. Len(rows) \in Nat /\ ids \subseteq 1..Len(rows)
  BY LenProperties
<1>2. CASE ids = {}
  BY <1>2 DEF Newest
<1>3. CASE ids # {}
  <2>1. \E i \in ids : \A j \in ids : j <= i
    BY <1>1, <1>3, GreatestExists
  <2>2. Newest(st) \in ids
    BY <2>1, <1>3 DEF Newest
  <2> QED BY <2>2, <1>1
<1> QED BY <1>2, <1>3

\* The current row, if there is one.
LEMMA CurrentIsRow ==
  ASSUME rows \in Seq(Row)
  PROVE  Current # 0 => Current \in DOMAIN rows /\ rows[Current] \in Row
BY NewestIsRow DEF Current

LEMMA RetiredIsTable ==
  ASSUME rows \in Seq(Row), NEW i, i = 0 \/ i \in DOMAIN rows
  PROVE  Retired(i) \in Seq(Row) /\ DOMAIN Retired(i) = DOMAIN rows /\ Len(Retired(i)) = Len(rows)
<1>1. CASE i = 0
  BY <1>1 DEF Retired
<1>2. CASE i # 0
  <2>1. rows \in [1..Len(rows) -> Row] /\ Len(rows) \in Nat
    BY LenProperties
  <2>2. [rows[i] EXCEPT !.status = "retired"] \in Row
    BY <1>2, <2>1 DEF Row
  <2>3. Retired(i) \in [1..Len(rows) -> Row]
    BY <1>2, <2>1, <2>2 DEF Retired
  <2> QED BY <2>1, <2>3, SeqDef, LenProperties
<1> QED BY <1>1, <1>2

LEMMA AppendedIsTable ==
  ASSUME NEW table \in Seq(Row), NEW status \in {"running", "failed", "retired"},
         NEW spec \in AppSpec, NEW cont \in Nat
  PROVE  /\ Append(table, NewRow(status, spec, cont)) \in Seq(Row)
         /\ DOMAIN Append(table, NewRow(status, spec, cont)) = DOMAIN table \cup {Len(table) + 1}
BY DEF NewRow, Row

\* A failed attempt adds a row or none.
LEMMA FailedIsTable ==
  ASSUME rows \in Seq(Row), sure \in BOOLEAN, NEW spec \in AppSpec, NEW cont \in Nat,
         RecordFailed(spec, cont)
  PROVE  rows' \in Seq(Row) /\ DOMAIN rows \subseteq DOMAIN rows' /\ sure' \in BOOLEAN
<1>1. /\ Append(rows, NewRow("failed", spec, cont)) \in Seq(Row)
      /\ DOMAIN Append(rows, NewRow("failed", spec, cont)) = DOMAIN rows \cup {Len(rows) + 1}
  BY AppendedIsTable
<1> QED BY <1>1 DEF RecordFailed, Record

-----------------------------------------------------------------------------
(* The project *)

Projects == [Services -> Cont \cup {None}]
NoneYounger(p, age) == \A x \in Services : p[x] # None => p[x].age <= age

LEMMA UppedIsTyped ==
  ASSUME proj \in Projects, NoneYounger(proj, born), born \in Nat,
         NEW spec \in AppSpec, NEW val \in Values \cup {Blank, None}, NEW xs
  PROVE  /\ Upped(spec, val, xs) \in Projects
         /\ NoneYounger(Upped(spec, val, xs), born + 1)
<1> DEFINE next == Upped(spec, val, xs)
<1>1. ASSUME NEW x \in Services
      PROVE  next[x] \in Cont \cup {None} /\ (next[x] # None => next[x].age <= born + 1)
  <2> DEFINE w == Wanted(spec, val, x)
  <2>1. w.conf \in Configs \cup {None} /\ w.val \in Values \cup {Blank, None, Plain}
    BY DEF Wanted, AppSpec
  <2>2. w.conf # None => Made(w, born + 1) \in Cont
    BY <2>1 DEF Made, Cont
  <2>3. Made(w, born + 1).age = born + 1
    BY DEF Made
  <2>4. next[x] \in {proj[x], None, Made(w, born + 1)} /\ (next[x] = Made(w, born + 1) => next[x] = proj[x] \/ next[x] = None \/ w.conf # None)
    BY DEF Upped
  <2>5. proj[x] \in Cont \cup {None} /\ (proj[x] # None => proj[x].age \in Nat /\ proj[x].age <= born)
    BY DEF Projects, NoneYounger, Cont
  <2> HIDE DEF w, next
  <2> QED BY <2>2, <2>3, <2>4, <2>5
<1>2. next = [x \in Services |-> next[x]]
  BY DEF Upped
<1>3. next \in Projects /\ NoneYounger(next, born + 1)
  <2> HIDE DEF next
  <2> QED BY <1>1, <1>2 DEF Projects, NoneYounger
<1> QED BY <1>3 DEF next

\* Services that are gone leave the others as they are.
LEMMA FewerIsTyped ==
  ASSUME proj \in Projects, NoneYounger(proj, born), NEW next,
         next = [x \in Services |-> next[x]],
         \A x \in Services : next[x] \in {proj[x], None}
  PROVE  next \in Projects /\ NoneYounger(next, born)
<1>1. \A x \in Services : proj[x] \in Cont \cup {None}
  BY DEF Projects
<1>2. \A x \in Services : next[x] \in Cont \cup {None}
  BY <1>1
<1> QED BY <1>2 DEF Projects, NoneYounger

-----------------------------------------------------------------------------
(* Type correctness *)

HolderTyped ==
  pc \in Steps /\ (pc = "idle" => job = NoJob) /\ (pc # "idle" => job \in Job)

\* TypeOK, with names for its parts.
Parts ==
  /\ rows \in Seq(Row) /\ asked \in Seq(AppSpec)
  /\ proj \in Projects /\ NoneYounger(proj, born)
  /\ surf \subseteq DOMAIN rows
  /\ routes \in [Domains -> Target]
  /\ secret \in Values \cup {None}
  /\ HolderTyped /\ job.row \in {0} \cup DOMAIN rows
  /\ born \in Nat /\ sure \in BOOLEAN

LEMMA TypeParts == TypeOK <=> Parts
BY DEF TypeOK, Parts, HolderTyped, Projects, NoneYounger

LEMMA TypePartsNext == TypeOK' <=> Parts'
BY DEF TypeOK, Parts, HolderTyped, Projects, NoneYounger

LEMMA TypeInit == Init => TypeOK
<1> SUFFICES ASSUME Init PROVE TypeOK
  OBVIOUS
<1>1. rows \in Seq(Row) /\ asked \in Seq(AppSpec) /\ surf \subseteq DOMAIN rows
  BY DEF Init
<1>2. job.row = 0
  BY DEF Init, NoJob
<1> QED BY <1>1, <1>2, TypeParts DEF Init, Parts, HolderTyped, Projects, NoneYounger, Target, Steps

LEMMA HolderMoves ==
  ASSUME HolderTyped, Done \/ (pc # "idle" /\ \E l \in Steps \ {"idle"} : Goto(l))
  PROVE  HolderTyped' /\ job'.row \in {0, job.row}
BY DEF HolderTyped, Done, Goto, Steps, NoJob

LEMMA SpecIsTyped ==
  ASSUME HolderTyped, pc # "idle"
  PROVE  job.spec \in AppSpec /\ job.val \in Values \cup {Blank, None} /\ job.row \in Nat
BY DEF HolderTyped, Job

LEMMA RequestsTyped ==
  ASSUME TypeOK, \/ \E v \in Values \cup {None} : ChangeSecret(v)
                 \/ AskRollback \/ BeginRollback
                 \/ \E spec \in Specs : BeginApply(spec)
  PROVE  TypeOK'
<1> USE TypeParts, TypePartsNext DEF Parts
<1>1. ASSUME NEW v \in Values \cup {None}, ChangeSecret(v) PROVE TypeOK'
  BY <1>1 DEF ChangeSecret, world, HolderTyped
<1>2. ASSUME AskRollback PROVE TypeOK'
  <2>1. rows[Newest("retired")] \in Row
    BY <1>2, NewestIsRow DEF AskRollback
  <2>2. asked' \in Seq(AppSpec)
    BY <1>2, <2>1 DEF AskRollback, Row
  <2> QED BY <1>2, <2>2 DEF AskRollback, world, HolderTyped
<1>3. ASSUME NEW spec \in AppSpec, Apply(spec), asked' \in Seq(AppSpec) PROVE TypeOK'
  <2>1. /\ rows' \in Seq(Row) /\ DOMAIN rows \subseteq DOMAIN rows' /\ sure' \in BOOLEAN
    BY <1>3, FailedIsTable DEF Apply
  <2>2. [spec |-> spec, val |-> Resolve(spec), row |-> 0] \in Job
    BY DEF Job, Resolve
  <2>3. HolderTyped'
    BY <1>3, <2>2 DEF Apply, HolderTyped, Steps, Composed
  <2> QED BY <1>3, <2>1, <2>3 DEF Apply, world
<1>4. ASSUME BeginRollback PROVE TypeOK'
  <2>1. Head(asked) \in AppSpec /\ Tail(asked) \in Seq(AppSpec)
    BY <1>4 DEF BeginRollback
  <2> QED BY <1>3, <1>4, <2>1 DEF BeginRollback
<1>5. ASSUME NEW spec \in Specs, BeginApply(spec) PROVE TypeOK'
  BY <1>3, <1>5, SpecsAssumption DEF BeginApply
<1> QED BY <1>1, <1>2, <1>4, <1>5

\* What compose up leaves, whether it succeeds or not.
LEMMA UpTyped ==
  ASSUME TypeOK, pc # "idle", NEW l \in Steps \ {"idle"}, Up(l)
  PROVE  /\ rows' \in Seq(Row) /\ DOMAIN rows \subseteq DOMAIN rows' /\ sure' \in BOOLEAN
         /\ proj' \in Projects /\ NoneYounger(proj', born') /\ born' \in Nat
         /\ HolderTyped' /\ job'.row \in {0, job.row}
<1> USE TypeParts, TypePartsNext DEF Parts
<1>1. job.spec \in AppSpec /\ job.val \in Values \cup {Blank, None}
  BY SpecIsTyped
<1>2. \/ proj' = Upped(job.spec, job.val, Services) /\ Goto(l) /\ UNCHANGED <<rows, sure>>
      \/ (\E xs \in SUBSET Services : proj' = Upped(job.spec, job.val, xs)) /\ Fail(0)
  BY DEF Up
<1>3. born' = born + 1
  BY DEF Up
<1>4. proj' \in Projects /\ NoneYounger(proj', born')
  BY <1>1, <1>2, <1>3, UppedIsTyped
<1>5. HolderTyped' /\ job'.row \in {0, job.row}
  BY <1>2, HolderMoves DEF Fail
<1>6. rows' \in Seq(Row) /\ DOMAIN rows \subseteq DOMAIN rows' /\ sure' \in BOOLEAN
  BY <1>1, <1>2, FailedIsTable DEF Fail
<1> QED BY <1>3, <1>4, <1>5, <1>6

LEMMA IdTyped ==
  ASSUME TypeOK, pc # "idle"
  PROVE  Id \in Nat
<1>1. job.spec.web \in Services
  BY TypeParts, SpecIsTyped DEF Parts, AppSpec
<1>2. proj[job.spec.web] \in Cont \cup {None}
  BY <1>1, TypeParts DEF Parts, Projects
<1> QED BY <1>2 DEF Id, Cont

LEMMA ApplyComposeTyped ==
  ASSUME TypeOK, ApplyCompose
  PROVE  TypeOK'
<1> USE TypeParts, TypePartsNext DEF Parts
<1>a. pc # "idle"
  BY DEF ApplyCompose, ComposeUp, Locate, SetRoute, CheckHealthCompose, RetireRow, RecordRunning
<1>b. job.spec \in AppSpec /\ Id \in Nat
  BY <1>a, SpecIsTyped, IdTyped
<1>c. ASSUME NEW cont \in Nat, Fail(cont)
      PROVE  rows' \in Seq(Row) /\ DOMAIN rows \subseteq DOMAIN rows' /\ sure' \in BOOLEAN /\ HolderTyped' /\ job'.row \in {0, job.row}
  BY <1>b, <1>c, FailedIsTable, HolderMoves DEF Fail
<1>d. ASSUME NEW l \in Steps \ {"idle"}, Goto(l) PROVE HolderTyped' /\ job'.row \in {0, job.row}
  BY <1>a, <1>d, HolderMoves
<1>1. CASE ComposeUp
  <2>1. Up("locate") /\ "locate" \in Steps \ {"idle"}
    BY <1>1 DEF ComposeUp, Steps, Composed
  <2> QED BY <1>1, <1>a, <2>1, UpTyped DEF ComposeUp
<1>2. CASE Locate
  <2>1. rows' \in Seq(Row) /\ DOMAIN rows \subseteq DOMAIN rows' /\ sure' \in BOOLEAN /\ HolderTyped' /\ job'.row \in {0, job.row}
    BY <1>2, <1>b, <1>c, <1>d DEF Locate, Steps, Composed
  <2> QED BY <1>2, <2>1 DEF Locate, world
<1>3. CASE SetRoute
  <2>1. rows' \in Seq(Row) /\ DOMAIN rows \subseteq DOMAIN rows' /\ sure' \in BOOLEAN /\ HolderTyped' /\ job'.row \in {0, job.row}
    BY <1>3, <1>b, <1>c, <1>d DEF SetRoute, Steps, Composed
  <2>2. job.spec.dom \in Domains /\ Service(job.spec.web) \in Target
    BY <1>b DEF AppSpec, Service, Target
  <2>3. routes' \in [Domains -> Target]
    BY <1>3, <2>2 DEF SetRoute
  <2> QED BY <1>3, <2>1, <2>3 DEF SetRoute
<1>4. CASE CheckHealthCompose
  <2>1. rows' \in Seq(Row) /\ DOMAIN rows \subseteq DOMAIN rows' /\ sure' \in BOOLEAN /\ HolderTyped' /\ job'.row \in {0, job.row}
    BY <1>4, <1>b, <1>c, <1>d DEF CheckHealthCompose, Steps, Composed
  <2> QED BY <1>4, <2>1 DEF CheckHealthCompose, world
<1>5. CASE RetireRow
  <2>1. rows' \in Seq(Row) /\ DOMAIN rows' = DOMAIN rows
    BY <1>5, CurrentIsRow, RetiredIsTable DEF RetireRow
  <2>2. HolderTyped' /\ job'.row \in {0, job.row}
    BY <1>5, <1>d DEF RetireRow, Steps, Composed
  <2> QED BY <1>5, <2>1, <2>2 DEF RetireRow, world
<1>6. CASE RecordRunning
  <2>1. rows' \in Seq(Row) /\ DOMAIN rows \subseteq DOMAIN rows'
    <3>1. /\ Append(rows, NewRow("running", job.spec, Id)) \in Seq(Row)
          /\ DOMAIN Append(rows, NewRow("running", job.spec, Id)) = DOMAIN rows \cup {Len(rows) + 1}
      BY <1>b, AppendedIsTable
    <3> QED BY <1>6, <3>1 DEF RecordRunning, Record
  <2>2. sure' \in BOOLEAN
    BY <1>6 DEF RecordRunning, OneRunning
  <2>3. HolderTyped' /\ job'.row \in {0, job.row}
    BY <1>6, HolderMoves DEF RecordRunning
  <2> QED BY <1>6, <2>1, <2>2, <2>3 DEF RecordRunning, world
<1> QED BY <1>1, <1>2, <1>3, <1>4, <1>5, <1>6 DEF ApplyCompose

LEMMA EnsureBackingTyped ==
  ASSUME TypeOK, EnsureBacking
  PROVE  TypeOK'
<1> USE TypeParts, TypePartsNext DEF Parts
<1>1. pc # "idle" /\ "swap" \in Steps \ {"idle"}
  BY DEF EnsureBacking, Steps
<1>2. CASE Up("swap")
  BY <1>1, <1>2, UpTyped DEF EnsureBacking
<1>3. CASE Goto("swap") /\ UNCHANGED <<rows, proj, born, sure>>
  <2>1. HolderTyped' /\ job'.row \in {0, job.row}
    BY <1>1, <1>3, HolderMoves
  <2> QED BY <1>3, <2>1 DEF EnsureBacking
<1> QED BY <1>2, <1>3 DEF EnsureBacking

LEMMA SwapTyped ==
  ASSUME TypeOK, Swap
  PROVE  TypeOK'
<1> USE TypeParts, TypePartsNext DEF Parts
<1>1. pc # "idle"
  BY DEF Swap
<1>2. job.spec \in AppSpec
  BY <1>1, SpecIsTyped
<1>3. ASSUME IF Current # 0 THEN SwapOut(Current)
             ELSE surf' = surf \cup {Len(rows) + 1} /\ UNCHANGED proj,
             routes' = [routes EXCEPT ![job.spec.dom] = Surface(Len(rows) + 1)],
             rows' = Append(Retired(Current), NewRow("running", job.spec, 0)),
             sure' = OneRunning(rows'), Done
      PROVE  TypeOK'
  <2>1. /\ Retired(Current) \in Seq(Row) /\ DOMAIN Retired(Current) = DOMAIN rows
        /\ Len(Retired(Current)) = Len(rows)
    BY CurrentIsRow, RetiredIsTable
  <2>2. rows' \in Seq(Row) /\ DOMAIN rows' = DOMAIN rows \cup {Len(rows) + 1}
    <3>1. /\ Append(Retired(Current), NewRow("running", job.spec, 0)) \in Seq(Row)
          /\ DOMAIN Append(Retired(Current), NewRow("running", job.spec, 0))
               = DOMAIN Retired(Current) \cup {Len(Retired(Current)) + 1}
      BY <1>2, <2>1, AppendedIsTable
    <3> QED BY <1>3, <2>1, <3>1
  <2>3. surf' \subseteq DOMAIN rows'
    BY <1>3, <2>2 DEF SwapOut
  <2>4. proj' \in Projects /\ NoneYounger(proj', born)
    <3>1. \/ proj' = proj
          \/ /\ proj' = [x \in Services |-> proj'[x]]
             /\ \A x \in Services : proj'[x] \in {proj[x], None}
      BY <1>3 DEF SwapOut
    <3> QED BY <3>1, FewerIsTyped
  <2>5. routes' \in [Domains -> Target]
    <3>1. Surface(Len(rows) + 1) \in Target
      BY LenProperties DEF Surface, Target
    <3> QED BY <1>3, <3>1
  <2>6. sure' \in BOOLEAN
    BY <1>3 DEF OneRunning
  <2>7. HolderTyped' /\ job'.row \in {0, job.row}
    BY <1>3, HolderMoves
  <2>8. asked' \in Seq(AppSpec) /\ secret' \in Values \cup {None} /\ born' = born
    BY DEF Swap
  <2> QED BY <2>2, <2>3, <2>4, <2>5, <2>6, <2>7, <2>8
<1>4. ASSUME Fail(0), UNCHANGED world PROVE TypeOK'
  <2>1. rows' \in Seq(Row) /\ DOMAIN rows \subseteq DOMAIN rows' /\ sure' \in BOOLEAN
    BY <1>2, <1>4, FailedIsTable DEF Fail
  <2>2. HolderTyped' /\ job'.row \in {0, job.row}
    BY <1>4, HolderMoves DEF Fail
  <2> QED BY <1>4, <2>1, <2>2 DEF Swap, world
<1>5. ASSUME Done, sure' = FALSE, UNCHANGED <<rows, world>> PROVE TypeOK'
  BY <1>5, HolderMoves DEF Swap, world
<1> QED BY <1>3, <1>4, <1>5 DEF Swap

LEMMA RemoveTyped ==
  ASSUME TypeOK, Remove
  PROVE  TypeOK'
<1> USE TypeParts, TypePartsNext DEF Parts
<1>1. CASE BeginRemove
  <2>1. Current \in Nat /\ rows[Current].spec \in AppSpec
    BY <1>1, CurrentIsRow DEF BeginRemove, Row
  <2>2. [spec |-> rows[Current].spec, val |-> None, row |-> Current] \in Job
    BY <2>1 DEF Job
  <2>3. HolderTyped' /\ job'.row = Current
    BY <1>1, <2>2 DEF BeginRemove, HolderTyped, Steps
  <2> QED BY <1>1, <2>3, CurrentIsRow DEF BeginRemove, world
<1>2. CASE RemoveUnknown
  BY <1>2 DEF RemoveUnknown, HolderTyped
<1>3. CASE RemoveDown
  <2>1. proj' \in Projects /\ NoneYounger(proj', born)
    <3>1. \/ proj' = proj
          \/ /\ proj' = [x \in Services |-> proj'[x]]
             /\ \A x \in Services : proj'[x] \in {proj[x], None}
      BY <1>3 DEF RemoveDown, Downed
    <3> QED BY <3>1, FewerIsTyped
  <2>2. HolderTyped' /\ job'.row \in {0, job.row}
    BY <1>3, HolderMoves DEF RemoveDown, Steps
  <2>3. surf' \subseteq surf
    BY <1>3 DEF RemoveDown
  <2> QED BY <1>3, <2>1, <2>2, <2>3 DEF RemoveDown
<1>4. CASE RemoveRoute
  <2>1. HolderTyped' /\ job'.row \in {0, job.row}
    BY <1>4, HolderMoves DEF RemoveRoute, Steps
  <2>2. routes' \in [Domains -> Target]
    BY <1>4 DEF RemoveRoute, Target
  <2> QED BY <1>4, <2>1, <2>2 DEF RemoveRoute
<1>5. CASE RemoveStatus
  <2>1. HolderTyped' /\ job'.row \in {0, job.row}
    BY <1>5, HolderMoves DEF RemoveStatus
  <2>2. rows' \in Seq(Row) /\ DOMAIN rows' = DOMAIN rows
    BY <1>5, RetiredIsTable DEF RemoveStatus
  <2> QED BY <1>5, <2>1, <2>2 DEF RemoveStatus, world
<1> QED BY <1>1, <1>2, <1>3, <1>4, <1>5 DEF Remove

LEMMA RestartTyped ==
  ASSUME TypeOK, Restart
  PROVE  TypeOK'
<1> USE TypeParts, TypePartsNext DEF Parts
<1>1. HolderTyped' /\ job'.row \in {0, job.row}
  BY HolderMoves DEF Restart
<1>2. Current # 0 => Surface(Current) \in Target
  BY CurrentIsRow, LenProperties DEF Surface, Target
<1>3. routes' \in [Domains -> Target]
  BY <1>2 DEF Restart, InitialRoutes, Target
<1>4. sure' \in BOOLEAN
  BY DEF Restart
<1> QED BY <1>1, <1>3, <1>4 DEF Restart

LEMMA TypeStep == TypeOK /\ [Next]_vars => TypeOK'
<1> SUFFICES ASSUME TypeOK, [Next]_vars PROVE TypeOK'
  OBVIOUS
<1>1. CASE UNCHANGED vars
  BY <1>1 DEF vars, world, TypeOK
<1>2. CASE Next
  BY <1>2, RequestsTyped, ApplyComposeTyped, EnsureBackingTyped, SwapTyped, RemoveTyped,
     RestartTyped DEF Next
<1> QED BY <1>1, <1>2

\* The types are right, whatever fails.
THEOREM TypeCorrect == Spec => []TypeOK
BY TypeInit, TypeStep, PTL DEF Spec

-----------------------------------------------------------------------------
(* Secrets *)

LEMMA UppedIsResolved ==
  ASSUME FailClosed, NEW spec \in AppSpec, NEW val \in Values \cup {Blank}, NEW xs,
         proj' = Upped(spec, val, xs)
  PROVE  FailClosed'
<1> SUFFICES ASSUME NEW x \in Services, proj'[x] # None PROVE proj'[x].val # None
  BY DEF FailClosed
<1>1. proj'[x] = proj[x] \/ proj'[x] = Made(Wanted(spec, val, x), born + 1)
  BY DEF Upped
<1>2. proj[x] # None => proj[x].val # None
  BY DEF FailClosed
<1>3. Made(Wanted(spec, val, x), born + 1).val # None
  BY NoneAssumption DEF Made, Wanted
<1> QED BY <1>1, <1>2, <1>3

LEMMA UpResolved ==
  ASSUME TypeOK, SInv, pc \in {"up", "backing"}, NEW l \in Steps \ {"up", "backing"}, Up(l)
  PROVE  SInv'
<1>1. job.spec \in AppSpec /\ job.val \in Values \cup {Blank, None}
  BY SpecIsTyped DEF TypeOK, HolderTyped
<1>2. FailClosed'
  BY <1>1, UppedIsResolved DEF Up, SInv, Resolved
<1>3. pc' \notin {"up", "backing"}
  BY DEF Up, Goto, Fail, Done
<1> QED BY <1>2, <1>3 DEF SInv, Resolved

LEMMA SecretsStep == TypeOK /\ SInv /\ [Next]_vars => SInv'
<1> SUFFICES ASSUME TypeOK, SInv, [Next]_vars PROVE SInv'
  OBVIOUS
<1>1. ASSUME \A x \in Services : proj'[x] \in {proj[x], None},
             pc' \notin {"up", "backing"} \/ UNCHANGED <<pc, job>>
      PROVE  SInv'
  BY <1>1 DEF SInv, FailClosed, Resolved
<1>2. ASSUME NEW spec, Apply(spec) PROVE SInv'
  BY <1>2 DEF Apply, SInv, FailClosed, Resolved, world
<1>3. CASE ComposeUp
  BY <1>3, UpResolved DEF ComposeUp, Steps, Composed
<1>4. CASE EnsureBacking
  <2>1. CASE Up("swap")
    BY <1>4, <2>1, UpResolved DEF EnsureBacking, Steps
  <2>2. CASE Goto("swap") /\ UNCHANGED proj
    BY <1>1, <2>2 DEF Goto
  <2> QED BY <1>4, <2>1, <2>2 DEF EnsureBacking
<1>5. CASE ApplyCompose /\ ~ComposeUp
  BY <1>1, <1>5 DEF ApplyCompose, Locate, SetRoute, CheckHealthCompose, RetireRow, RecordRunning,
     Goto, Fail, Done, world
<1>6. CASE Swap
  BY <1>1, <1>6 DEF Swap, SwapOut, Fail, Done, world
<1>7. CASE Remove
  BY <1>1, <1>7 DEF Remove, BeginRemove, RemoveUnknown, RemoveDown, RemoveRoute, RemoveStatus,
     Downed, Goto, Done, world
<1>8. CASE Restart
  BY <1>1, <1>8 DEF Restart, Done
<1>9. CASE \/ \E v \in Values \cup {None} : ChangeSecret(v)
           \/ AskRollback \/ UNCHANGED vars
  BY <1>1, <1>9 DEF ChangeSecret, AskRollback, vars, world
<1>10. CASE BeginRollback \/ \E spec \in Specs : BeginApply(spec)
  BY <1>2, <1>10 DEF BeginRollback, BeginApply
<1> QED BY <1>3, <1>4, <1>5, <1>6, <1>7, <1>8, <1>9, <1>10 DEF Next

\* No service is ever started without the value of a secret its app lists, whenever
\* the secret is set, changed or deleted and whatever fails.
THEOREM SecretsAreThere == Spec => []FailClosed
<1>1. Init => SInv
  BY DEF Init, SInv, FailClosed, Resolved
<1>2. SInv => FailClosed
  BY DEF SInv
<1> QED BY <1>1, <1>2, SecretsStep, TypeCorrect, PTL DEF Spec

-----------------------------------------------------------------------------
(* What a row stands for *)

\* The surface's deploy removes the web container of the compose app before it: no
\* backing service has the name of a compose app's web service.
NoClash ==
  \A s, t \in Specs : s.kind = "surface" /\ t.kind = "compose" => s.file[t.web] = None

SpecsAreSubmitted ==
  /\ \A i \in DOMAIN rows : rows[i].spec \in Specs
  /\ \A i \in DOMAIN asked : asked[i] \in Specs
  /\ pc # "idle" => job.spec \in Specs

\* As long as nothing was lost, what follows a running row has failed.
NoneAfter(table) ==
  \A i, j \in DOMAIN table :
    table[i].status = "running" /\ i < j => table[j].status = "failed"

\* The project is what a spec's file declares, and no more.
Fits(p, spec) ==
  \A x \in Services :
    IF spec.file[x] = None THEN p[x] = None ELSE p[x] # None /\ p[x].conf = spec.file[x]

\* How far a deploy has come.
Placed ==
  /\ pc \in Composed => job.spec.kind = "compose"
  /\ pc \in {"backing", "swap"} => job.spec.kind = "surface"
  /\ pc \in Composed \ {"up"} => Fits(proj, job.spec)
  /\ pc = "swap" /\ Declared(job.spec.file) # {} => Fits(proj, job.spec)
  /\ pc \in {"gate", "retire", "record"} => routes[job.spec.dom] = Service(job.spec.web)

\* How far a removal has come.
Leaving ==
  /\ pc \in {"rmdown", "rmroute", "rmstatus"} =>
       Current # 0 /\ job.row = Current /\ job.spec = rows[Current].spec
  /\ pc \in {"rmroute", "rmstatus"} =>
       /\ \A x \in Declared(job.spec.file) : proj[x] = None
       /\ job.spec.kind = "surface" => surf = {}
  /\ pc = "rmstatus" /\ sure => routes[job.spec.dom] = None

WInv ==
  /\ SpecsAreSubmitted /\ Placed /\ Leaving
  /\ sure => NoneAfter(rows)
  /\ (NoClash => FlaggedOrServed) /\ RemovedIsGone

\* The newest row of a table with a status.
NewestIn(table, status) ==
  LET ids == {i \in DOMAIN table : table[i].status = status} IN
  IF ids = {} THEN 0 ELSE CHOOSE i \in ids : \A j \in ids : j <= i

LEMMA CurrentIs == Current = NewestIn(rows, "running") /\ Current' = NewestIn(rows', "running")
BY DEF Current, Newest, NewestIn

LEMMA NewestIsIn ==
  ASSUME NEW table \in Seq(Row), NEW st
  PROVE  /\ NewestIn(table, st) = 0 <=> \A i \in DOMAIN table : table[i].status # st
         /\ NewestIn(table, st) # 0 =>
              /\ NewestIn(table, st) \in DOMAIN table /\ table[NewestIn(table, st)].status = st
              /\ \A j \in DOMAIN table : table[j].status = st => j <= NewestIn(table, st)
<1> DEFINE ids == {i \in DOMAIN table : table[i].status = st}
<1>1. Len(table) \in Nat /\ ids \subseteq 1..Len(table)
  BY LenProperties
<1>2. CASE ids = {}
  BY <1>2 DEF NewestIn
<1>3. CASE ids # {}
  <2>1. \E i \in ids : \A j \in ids : j <= i
    BY <1>1, <1>3, GreatestExists
  <2>2. NewestIn(table, st) \in ids /\ \A j \in ids : j <= NewestIn(table, st)
    BY <2>1, <1>3 DEF NewestIn
  <2>3. 0 \notin ids
    BY <1>1
  <2> QED BY <2>2, <2>3
<1> QED BY <1>2, <1>3

\* The row appended to a table in which none runs, or none but it.
LEMMA AppendedRuns ==
  ASSUME NEW table \in Seq(Row), NEW row \in Row, row.status = "running",
         OneRunning(Append(table, row))
  PROVE  /\ NewestIn(Append(table, row), "running") = Len(table) + 1
         /\ NoneAfter(Append(table, row))
<1> DEFINE next == Append(table, row)
<1>1. /\ next \in Seq(Row) /\ DOMAIN next = 1..(Len(table) + 1) /\ Len(table) \in Nat
      /\ next[Len(table) + 1] = row
  BY LenProperties
<1>2. Len(table) + 1 \in DOMAIN next /\ next[Len(table) + 1].status = "running"
  BY <1>1
<1> HIDE DEF next
<1>3. NewestIn(next, "running") # 0
  BY <1>1, <1>2, NewestIsIn
<1>4. NewestIn(next, "running") = Len(table) + 1
  BY <1>1, <1>2, <1>3, NewestIsIn DEF OneRunning, next
<1>5. NoneAfter(next)
  <2> SUFFICES ASSUME NEW i \in DOMAIN next, NEW j \in DOMAIN next,
                      next[i].status = "running", i < j
               PROVE  FALSE
    BY DEF NoneAfter
  <2>1. i = Len(table) + 1
    BY <1>2 DEF OneRunning, next
  <2> QED BY <1>1, <2>1
<1> QED BY <1>4, <1>5 DEF next

\* A failed attempt, if it is recorded, is the newest row.
LEMMA FailedIsFlagged ==
  ASSUME rows \in Seq(Row), sure \in BOOLEAN,
         NEW spec \in Specs, NEW cont \in Nat, RecordFailed(spec, cont)
  PROVE  /\ sure' => sure
         /\ (sure => NoneAfter(rows)) => (sure' => NoneAfter(rows'))
         /\ sure' => rows'[Len(rows')].status = "failed"
         /\ (\A i \in DOMAIN rows : rows[i].spec \in Specs) =>
              \A i \in DOMAIN rows' : rows'[i].spec \in Specs
<1> DEFINE row == NewRow("failed", spec, cont)
           next == Append(rows, row)
<1>1. spec \in AppSpec /\ row \in Row /\ row.status = "failed" /\ row.spec = spec
  BY SpecsAssumption DEF NewRow, Row
<1>2. /\ Len(rows) \in Nat /\ DOMAIN rows = 1..Len(rows)
      /\ DOMAIN next = 1..(Len(rows) + 1) /\ Len(next) = Len(rows) + 1
      /\ next[Len(rows) + 1] = row /\ \A i \in DOMAIN rows : next[i] = rows[i]
  BY <1>1, LenProperties, AppendProperties
<1>3. \/ rows' = next /\ sure' = sure
      \/ rows' = rows /\ sure' = FALSE
  BY DEF RecordFailed, Record
<1> HIDE DEF next, row
<1>4. NoneAfter(rows) => NoneAfter(next)
  <2> SUFFICES ASSUME NoneAfter(rows), NEW i \in DOMAIN next, NEW j \in DOMAIN next,
                      next[i].status = "running", i < j
               PROVE  next[j].status = "failed"
    BY DEF NoneAfter
  <2>1. i \in DOMAIN rows
    BY <1>2
  <2>2. CASE j \in DOMAIN rows
    BY <1>2, <2>1, <2>2 DEF NoneAfter
  <2>3. CASE j = Len(rows) + 1
    BY <1>1, <1>2, <2>3
  <2> QED BY <1>2, <2>2, <2>3
<1>5. (\A i \in DOMAIN rows : rows[i].spec \in Specs) => \A i \in DOMAIN next : next[i].spec \in Specs
  BY <1>1, <1>2
<1>6. next[Len(next)].status = "failed"
  BY <1>1, <1>2
<1>7. CASE rows' = next /\ sure' = sure
  BY <1>4, <1>5, <1>6, <1>7
<1>8. CASE rows' = rows /\ sure' = FALSE
  BY <1>8
<1> QED BY <1>3, <1>7, <1>8

LEMMA RetiredIsSame ==
  ASSUME rows \in Seq(Row), NEW i, i = 0 \/ i \in DOMAIN rows
  PROVE  /\ Retired(i) \in Seq(Row) /\ Len(Retired(i)) = Len(rows) /\ DOMAIN Retired(i) = DOMAIN rows
         /\ \A j \in DOMAIN rows :
              /\ Retired(i)[j].spec = rows[j].spec
              /\ j # i => Retired(i)[j] = rows[j]
              /\ j = i => Retired(i)[j].status = "retired"
<1>1. /\ Retired(i) \in Seq(Row) /\ Len(Retired(i)) = Len(rows) /\ DOMAIN Retired(i) = DOMAIN rows
  BY RetiredIsTable
<1>2. \A j \in DOMAIN rows : rows[j] \in Row
  OBVIOUS
<1>3. ASSUME NEW j \in DOMAIN rows
      PROVE  /\ Retired(i)[j].spec = rows[j].spec
             /\ j # i => Retired(i)[j] = rows[j]
             /\ j = i => Retired(i)[j].status = "retired"
  <2>1. CASE i = 0
    <3>1. j # 0
      BY LenProperties
    <3> QED BY <2>1, <3>1 DEF Retired
  <2>2. CASE i # 0
    BY <1>2, <2>2 DEF Retired, Row
  <2> QED BY <2>1, <2>2
<1> QED BY <1>1, <1>3

\* With the only running row retired, none runs.
LEMMA NoneRuns ==
  ASSUME rows \in Seq(Row), NoneAfter(rows)
  PROVE  /\ \A i \in DOMAIN rows : Retired(Current)[i].status # "running"
         /\ NewestIn(Retired(Current), "running") = 0
         /\ NoneAfter(Retired(Current))
<1>1. Current = 0 \/ Current \in DOMAIN rows
  BY CurrentIsRow
<1>2. \A i \in DOMAIN rows : rows[i].status = "running" => i = Current
  <2> SUFFICES ASSUME NEW i \in DOMAIN rows, rows[i].status = "running", i # Current PROVE FALSE
    OBVIOUS
  <2>1. Current # 0 /\ i <= Current /\ rows[Current].status = "running"
    BY CurrentIs, NewestIsIn
  <2>2. i \in Nat /\ Current \in Nat /\ i < Current
    BY <1>1, <2>1, LenProperties
  <2> QED BY <1>1, <2>1, <2>2 DEF NoneAfter
<1>3. \A i \in DOMAIN rows : Retired(Current)[i].status # "running"
  BY <1>1, <1>2, RetiredIsSame
<1>4. Retired(Current) \in Seq(Row) /\ DOMAIN Retired(Current) = DOMAIN rows
  BY <1>1, RetiredIsSame
<1> QED BY <1>3, <1>4, NewestIsIn DEF NoneAfter

\* In the middle of an operation only its own progress matters.
LEMMA MidWay ==
  ASSUME pc' # "idle", SpecsAreSubmitted', Placed', Leaving', sure' => NoneAfter(rows')
  PROVE  WInv'
BY DEF WInv, FlaggedOrServed, RemovedIsGone, NoneAfter

\* What fails is flagged, or is not sure.
LEMMA FailKeeps ==
  ASSUME TypeOK, WInv, NEW spec \in Specs, NEW cont \in Nat, RecordFailed(spec, cont),
         pc' = "idle", \A i \in DOMAIN asked' : asked'[i] \in Specs
  PROVE  WInv'
<1>1. /\ sure' => sure
      /\ (sure => NoneAfter(rows)) => (sure' => NoneAfter(rows'))
      /\ sure' => rows'[Len(rows')].status = "failed"
      /\ (\A i \in DOMAIN rows : rows[i].spec \in Specs) =>
           \A i \in DOMAIN rows' : rows'[i].spec \in Specs
  BY FailedIsFlagged, TypeParts DEF Parts
<1>2. SpecsAreSubmitted'
  BY <1>1 DEF WInv, SpecsAreSubmitted
<1>3. Placed' /\ Leaving'
  BY DEF Placed, Leaving, Composed
<1>4. sure' => NoneAfter(rows')
  BY <1>1 DEF WInv
<1>5. FlaggedOrServed' /\ RemovedIsGone'
  BY <1>1 DEF FlaggedOrServed, RemovedIsGone, Newly
<1> QED BY <1>2, <1>3, <1>4, <1>5 DEF WInv, NoneAfter

LEMMA UppedFits ==
  ASSUME proj \in Projects, NEW spec \in AppSpec, NEW val \in Values \cup {Blank, None}, born \in Nat
  PROVE  Fits(Upped(spec, val, Services), spec)
<1> SUFFICES ASSUME NEW x \in Services
             PROVE  LET c == Upped(spec, val, Services)[x] IN
                    IF spec.file[x] = None THEN c = None ELSE c # None /\ c.conf = spec.file[x]
  BY DEF Fits
<1> DEFINE w == Wanted(spec, val, x)
<1>1. w.conf = spec.file[x] /\ w.conf \in Configs \cup {None} /\ w.val \in Values \cup {Blank, None, Plain}
  BY DEF Wanted, AppSpec
<1>2. \A age \in Nat : w.conf # None => Made(w, age) \in Cont /\ Made(w, age).conf = w.conf
  BY <1>1 DEF Made, Cont
<1>3. proj[x] # None => proj[x].age \in Nat
  BY DEF Projects, Cont
<1>4. Upped(spec, val, Services)[x] =
        IF w.conf = None THEN None
        ELSE IF proj[x] # None /\ Made(w, proj[x].age) = proj[x] THEN proj[x]
        ELSE Made(w, born + 1)
  BY DEF Upped
<1> HIDE DEF w
<1> QED BY <1>1, <1>2, <1>3, <1>4, ContAssumption

\* What requests do while no operation is at work, or another one is.
LEMMA RequestsKeep ==
  ASSUME TypeOK, WInv, \/ \E v \in Values \cup {None} : ChangeSecret(v)
                       \/ AskRollback \/ BeginRollback
                       \/ \E spec \in Specs : BeginApply(spec)
                       \/ UNCHANGED vars
  PROVE  WInv'
<1>a. rows \in Seq(Row) /\ asked \in Seq(AppSpec) /\ sure \in BOOLEAN
  BY TypeParts DEF Parts
<1>b. SpecsAreSubmitted /\ (sure => NoneAfter(rows))
  BY DEF WInv
<1>1. ASSUME UNCHANGED <<rows, world, pc, job, sure>>, \A i \in DOMAIN asked' : asked'[i] \in Specs
      PROVE  WInv'
  <2>1. SpecsAreSubmitted'
    BY <1>1, <1>b DEF SpecsAreSubmitted
  <2>a. Current' = Current
    BY <1>1, CurrentIs
  <2>2. Placed' /\ Leaving'
    BY <1>1, <2>a DEF WInv, Placed, Leaving, world, Fits
  <2>3. (NoClash => FlaggedOrServed') /\ RemovedIsGone'
    <3>1. UNCHANGED <<rows, proj, surf, routes, pc, sure>>
      BY <1>1 DEF world
    <3>2. Serves(Current) => Serves(Current)'
      BY <2>a, <3>1 DEF Serves
    <3> QED BY <2>a, <3>1, <3>2 DEF WInv, FlaggedOrServed, RemovedIsGone, Newly
  <2> QED BY <1>1, <1>b, <2>1, <2>2, <2>3 DEF WInv, NoneAfter
<1>2. CASE (\E v \in Values \cup {None} : ChangeSecret(v)) \/ UNCHANGED vars
  <2>1. UNCHANGED <<rows, world, pc, job, sure, asked>>
    BY <1>2 DEF ChangeSecret, vars, world
  <2> QED BY <1>1, <1>b, <2>1 DEF SpecsAreSubmitted
<1>3. CASE AskRollback
  <2>1. /\ Newest("retired") \in DOMAIN rows
        /\ asked' = Append(asked, rows[Newest("retired")].spec)
    BY <1>3, <1>a, NewestIsRow DEF AskRollback
  <2>2. rows[Newest("retired")].spec \in Specs
    BY <2>1, <1>b DEF SpecsAreSubmitted
  <2>3. \A i \in DOMAIN asked' : asked'[i] \in Specs
    BY <2>1, <2>2, <1>a, <1>b, SpecsAssumption DEF SpecsAreSubmitted
  <2> QED BY <1>1, <1>3, <2>3 DEF AskRollback
<1>4. ASSUME NEW spec \in Specs, Apply(spec), \A i \in DOMAIN asked' : asked'[i] \in Specs
      PROVE  WInv'
  <2>1. pc = "idle" /\ UNCHANGED <<proj, surf, routes>>
    BY <1>4 DEF Apply, world
  <2>2. CASE RecordFailed(spec, 0) /\ UNCHANGED <<pc, job>>
    BY <1>4, <2>1, <2>2, FailKeeps
  <2>3. CASE UNCHANGED <<rows, sure, pc, job>>
    BY <1>1, <1>4, <2>1, <2>3 DEF world
  <2>4. CASE /\ job' = [spec |-> spec, val |-> Resolve(spec), row |-> 0]
             /\ pc' = IF spec.kind = "compose" THEN "up" ELSE "backing"
             /\ UNCHANGED <<rows, sure>>
    <3>1. spec.kind \in {"compose", "surface"}
      BY SpecsAssumption DEF AppSpec
    <3>2. Placed' /\ Leaving'
      BY <2>4, <3>1 DEF Placed, Leaving, Composed
    <3>3. SpecsAreSubmitted'
      BY <1>4, <2>4, <1>b DEF SpecsAreSubmitted
    <3> QED BY <2>4, <3>2, <3>3, <1>b, MidWay
  <2> QED BY <1>4, <2>2, <2>3, <2>4 DEF Apply
<1>5. CASE BeginRollback
  <2>1. Apply(Head(asked)) /\ asked # <<>> /\ asked' = Tail(asked)
    BY <1>5 DEF BeginRollback
  <2>2. Head(asked) \in Specs /\ \A i \in DOMAIN asked' : asked'[i] \in Specs
    BY <2>1, <1>a, <1>b DEF SpecsAreSubmitted
  <2> QED BY <1>4, <2>1, <2>2
<1>6. ASSUME NEW spec \in Specs, BeginApply(spec) PROVE WInv'
  BY <1>4, <1>6, <1>b DEF BeginApply, SpecsAreSubmitted
<1> QED BY <1>2, <1>3, <1>5, <1>6

LEMMA ApplyComposeKeeps ==
  ASSUME TypeOK, WInv, ApplyCompose
  PROVE  WInv'
<1>a. /\ rows \in Seq(Row) /\ sure \in BOOLEAN /\ proj \in Projects /\ born \in Nat
      /\ routes \in [Domains -> Target] /\ pc # "idle" /\ Id \in Nat
      /\ UNCHANGED asked
  BY TypeParts, IdTyped DEF Parts, ApplyCompose, ComposeUp, Locate, SetRoute,
     CheckHealthCompose, RetireRow, RecordRunning
<1>b. /\ SpecsAreSubmitted /\ Placed /\ (sure => NoneAfter(rows)) /\ job.spec \in Specs
      /\ job.spec \in AppSpec /\ job.val \in Values \cup {Blank, None} /\ job.spec.kind = "compose"
      /\ pc \in Composed
  <2>1. pc \in Composed
    BY DEF ApplyCompose, ComposeUp, Locate, SetRoute, CheckHealthCompose, RetireRow,
       RecordRunning, Composed
  <2> QED BY <1>a, <2>1, TypeParts, SpecIsTyped DEF WInv, SpecsAreSubmitted, Placed, Parts
<1>c. ASSUME NEW cont \in Nat, Fail(cont) PROVE WInv'
  BY <1>a, <1>b, <1>c, FailKeeps DEF Fail, Done, SpecsAreSubmitted
<1>d. ASSUME NEW l \in Composed \ {"up"}, Goto(l), UNCHANGED <<rows, sure>>, Placed' PROVE WInv'
  <2>1. SpecsAreSubmitted'
    BY <1>a, <1>b, <1>d DEF SpecsAreSubmitted, Goto
  <2>2. pc' \notin {"idle", "rmdown", "rmroute", "rmstatus"}
    BY <1>d DEF Goto, Composed
  <2> QED BY <1>b, <1>d, <2>1, <2>2, MidWay DEF Leaving
<1>1. CASE ComposeUp
  <2>1. CASE proj' = Upped(job.spec, job.val, Services) /\ Goto("locate") /\ UNCHANGED <<rows, sure>>
    <3>1. Fits(proj', job.spec)
      BY <1>a, <1>b, <2>1, UppedFits
    <3>2. Placed'
      BY <1>b, <2>1, <3>1 DEF Placed, Goto, Composed, Fits
    <3> QED BY <1>d, <2>1, <3>2 DEF Composed
  <2>2. CASE Fail(0)
    BY <1>c, <2>2
  <2> QED BY <1>1, <2>1, <2>2 DEF ComposeUp, Up
<1>2. CASE Locate
  <2>1. CASE Goto("route") /\ UNCHANGED <<rows, sure>>
    <3>1. Placed'
      BY <1>2, <1>b, <2>1 DEF Placed, Goto, Composed, Fits, Locate, world
    <3> QED BY <1>d, <2>1, <3>1 DEF Composed
  <2> QED BY <1>2, <1>a, <1>c, <2>1 DEF Locate
<1>3. CASE SetRoute
  <2>1. CASE /\ routes' = [routes EXCEPT ![job.spec.dom] = Service(job.spec.web)]
             /\ Goto("gate") /\ UNCHANGED <<rows, sure>>
    <3>1. job.spec.dom \in Domains
      BY <1>b DEF AppSpec
    <3>2. routes'[job.spec.dom] = Service(job.spec.web)
      BY <1>a, <2>1, <3>1
    <3>3. Placed'
      BY <1>3, <1>b, <2>1, <3>2 DEF Placed, Goto, Composed, Fits, SetRoute
    <3> QED BY <1>d, <2>1, <3>3 DEF Composed
  <2> QED BY <1>3, <1>a, <1>c, <2>1 DEF SetRoute
<1>4. CASE CheckHealthCompose
  <2>1. CASE Goto("retire") /\ UNCHANGED <<rows, sure>>
    <3>1. Placed'
      BY <1>4, <1>b, <2>1 DEF Placed, Goto, Composed, Fits, CheckHealthCompose, world
    <3> QED BY <1>d, <2>1, <3>1 DEF Composed
  <2> QED BY <1>4, <1>a, <1>c, <2>1 DEF CheckHealthCompose
<1>5. CASE RetireRow
  <2>1. /\ rows' = Retired(Current) \/ rows' = rows
        /\ UNCHANGED <<proj, surf, routes, sure, job>> /\ pc' = "record" /\ pc = "retire"
    BY <1>5 DEF RetireRow, world, Goto
  <2>2. \A i \in DOMAIN rows' : rows'[i].spec \in Specs
    BY <1>a, <1>b, <2>1, CurrentIsRow, RetiredIsSame DEF SpecsAreSubmitted
  <2>3. SpecsAreSubmitted'
    BY <1>a, <1>b, <2>1, <2>2 DEF SpecsAreSubmitted
  <2>4. Placed' /\ Leaving'
    BY <1>b, <2>1 DEF Placed, Leaving, Fits, Composed
  <2>5. sure' => NoneAfter(rows')
    BY <1>a, <1>b, <2>1, NoneRuns
  <2> QED BY <2>1, <2>3, <2>4, <2>5, MidWay
<1>6. CASE RecordRunning
  <2> DEFINE row == NewRow("running", job.spec, Id)
  <2>1. /\ pc = "record" /\ pc' = "idle" /\ UNCHANGED <<proj, surf, routes>>
        /\ \/ rows' = Append(rows, row) /\ sure' = OneRunning(rows')
           \/ rows' = rows /\ sure' = FALSE
    BY <1>6 DEF RecordRunning, world, Done, Record
  <2>2. row \in Row /\ row.status = "running" /\ row.spec = job.spec
    BY <1>a, <1>b DEF NewRow, Row
  <2> HIDE DEF row
  <2>3. /\ Len(rows) \in Nat /\ DOMAIN rows = 1..Len(rows)
        /\ DOMAIN Append(rows, row) = 1..(Len(rows) + 1)
        /\ Append(rows, row)[Len(rows) + 1] = row
        /\ \A i \in DOMAIN rows : Append(rows, row)[i] = rows[i]
    BY <1>a, <2>2, LenProperties, AppendProperties
  <2>4. \A i \in DOMAIN rows' : rows'[i].spec \in Specs
    <3>1. \A i \in DOMAIN Append(rows, row) : Append(rows, row)[i].spec \in Specs
      BY <1>b, <2>2, <2>3 DEF SpecsAreSubmitted
    <3> QED BY <1>b, <2>1, <3>1 DEF SpecsAreSubmitted
  <2>5. SpecsAreSubmitted' /\ Placed' /\ Leaving'
    BY <1>a, <1>b, <2>1, <2>4 DEF SpecsAreSubmitted, Placed, Leaving, Composed
  <2>6. CASE ~sure'
    BY <2>5, <2>6 DEF WInv, FlaggedOrServed, RemovedIsGone
  <2>7. CASE sure'
    <3>1. rows' = Append(rows, row) /\ OneRunning(Append(rows, row))
      BY <2>1, <2>7
    <3>2. NewestIn(rows', "running") = Len(rows) + 1 /\ NoneAfter(rows')
      BY <1>a, <2>2, <3>1, AppendedRuns
    <3>3. Current' = Len(rows) + 1 /\ rows'[Current'].spec = job.spec /\ Current' # 0
      BY <2>2, <2>3, <3>1, <3>2, CurrentIs
    <3>4. Fits(proj', job.spec) /\ routes'[job.spec.dom] = Service(job.spec.web)
      BY <1>b, <2>1 DEF Placed, Composed
    <3>5. Serves(Current)'
      BY <1>b, <3>3, <3>4 DEF Serves, Fits, Declared
    <3> QED BY <2>5, <3>2, <3>3, <3>5 DEF WInv, FlaggedOrServed, RemovedIsGone, NoneAfter
  <2> QED BY <2>6, <2>7
<1> QED BY <1>1, <1>2, <1>3, <1>4, <1>5, <1>6 DEF ApplyCompose

LEMMA EnsureBackingKeeps ==
  ASSUME TypeOK, WInv, EnsureBacking
  PROVE  WInv'
<1>a. /\ rows \in Seq(Row) /\ sure \in BOOLEAN /\ proj \in Projects /\ born \in Nat
      /\ pc = "backing" /\ UNCHANGED asked
  BY TypeParts DEF Parts, EnsureBacking
<1>b. /\ SpecsAreSubmitted /\ (sure => NoneAfter(rows)) /\ job.spec \in Specs
      /\ job.spec \in AppSpec /\ job.val \in Values \cup {Blank, None} /\ job.spec.kind = "surface"
  BY <1>a, TypeParts, SpecIsTyped DEF WInv, SpecsAreSubmitted, Placed, Parts
<1>1. ASSUME Goto("swap"), UNCHANGED <<rows, sure>>,
             Declared(job.spec.file) # {} => Fits(proj', job.spec)
      PROVE  WInv'
  <2>1. Placed' /\ Leaving'
    BY <1>1, <1>b DEF Placed, Leaving, Goto, Composed, Fits
  <2>2. SpecsAreSubmitted'
    BY <1>1, <1>a, <1>b DEF SpecsAreSubmitted, Goto
  <2> QED BY <1>1, <1>b, <2>1, <2>2, MidWay DEF Goto
<1>2. CASE Fail(0)
  BY <1>a, <1>b, <1>2, FailKeeps DEF Fail, Done, SpecsAreSubmitted
<1>3. CASE proj' = Upped(job.spec, job.val, Services) /\ Goto("swap") /\ UNCHANGED <<rows, sure>>
  <2>1. Fits(proj', job.spec)
    BY <1>a, <1>b, <1>3, UppedFits
  <2> QED BY <1>1, <1>3, <2>1
<1>4. CASE Declared(job.spec.file) = {} /\ Goto("swap") /\ UNCHANGED <<rows, proj, born, sure>>
  BY <1>1, <1>4
<1> QED BY <1>2, <1>3, <1>4 DEF EnsureBacking, Up

LEMMA SwapKeeps ==
  ASSUME TypeOK, WInv, Swap
  PROVE  WInv'
<1>a. /\ rows \in Seq(Row) /\ sure \in BOOLEAN /\ routes \in [Domains -> Target]
      /\ pc = "swap" /\ UNCHANGED asked
  BY TypeParts DEF Parts, Swap
<1>b. /\ SpecsAreSubmitted /\ (sure => NoneAfter(rows)) /\ job.spec \in Specs
      /\ job.spec \in AppSpec /\ job.spec.kind = "surface"
      /\ Declared(job.spec.file) # {} => Fits(proj, job.spec)
  BY <1>a, TypeParts, SpecIsTyped DEF WInv, SpecsAreSubmitted, Placed, Parts
<1>1. CASE Fail(0)
  BY <1>a, <1>b, <1>1, FailKeeps DEF Fail, Done, SpecsAreSubmitted
<1>2. ASSUME IF Current # 0 THEN SwapOut(Current)
             ELSE surf' = surf \cup {Len(rows) + 1} /\ UNCHANGED proj,
             routes' = [routes EXCEPT ![job.spec.dom] = Surface(Len(rows) + 1)],
             rows' = Append(Retired(Current), NewRow("running", job.spec, 0)),
             sure' = OneRunning(rows'), Done
      PROVE  WInv'
  <2> DEFINE row == NewRow("running", job.spec, 0)
             table == Retired(Current)
  <2>1. row \in Row /\ row.status = "running" /\ row.spec = job.spec
    BY <1>b DEF NewRow, Row
  <2>2. /\ table \in Seq(Row) /\ Len(table) = Len(rows) /\ DOMAIN table = DOMAIN rows
        /\ \A j \in DOMAIN rows : table[j].spec = rows[j].spec
    BY <1>a, CurrentIsRow, RetiredIsSame
  <2>3. rows' = Append(table, row)
    BY <1>2
  <2> HIDE DEF row, table
  <2>4. /\ Len(rows) \in Nat /\ DOMAIN rows' = 1..(Len(rows) + 1)
        /\ rows'[Len(rows) + 1] = row
        /\ \A i \in DOMAIN rows : rows'[i] = table[i]
        /\ DOMAIN rows = 1..Len(rows)
    BY <1>a, <2>1, <2>2, <2>3, LenProperties, AppendProperties
  <2>5. \A i \in DOMAIN rows' : rows'[i].spec \in Specs
    BY <1>b, <2>1, <2>2, <2>4 DEF SpecsAreSubmitted
  <2>6. SpecsAreSubmitted' /\ Placed' /\ Leaving'
    BY <1>a, <1>b, <1>2, <2>5 DEF SpecsAreSubmitted, Placed, Leaving, Composed, Done
  <2>7. CASE ~sure'
    BY <2>6, <2>7 DEF WInv, FlaggedOrServed, RemovedIsGone
  <2>8. CASE sure'
    <3>1. OneRunning(Append(table, row))
      BY <1>2, <2>3, <2>8
    <3>2. NewestIn(rows', "running") = Len(rows) + 1 /\ NoneAfter(rows')
      BY <2>1, <2>2, <2>3, <3>1, AppendedRuns
    <3>3. Current' = Len(rows) + 1 /\ rows'[Current'].spec = job.spec /\ Current' # 0
      BY <2>1, <2>4, <3>2, CurrentIs
    <3>4. ASSUME NoClash, NEW x \in Declared(job.spec.file) PROVE proj'[x] = proj[x]
      <4>1. x \in Services /\ job.spec.file[x] # None
        BY DEF Declared
      <4>2. CASE proj' = proj
        BY <4>2
      <4>3. CASE Current # 0 /\ rows[Current].spec.kind # "surface"
        <5>1. Current \in DOMAIN rows /\ rows[Current].spec.kind = "compose" /\ rows[Current].spec \in Specs
          BY <1>a, <1>b, <4>3, CurrentIsRow DEF Row, AppSpec, SpecsAreSubmitted
        <5>2. x # rows[Current].spec.web
          BY <1>b, <3>4, <4>1, <5>1 DEF NoClash
        <5>3. proj' = [y \in Services |->
                         IF y = rows[Current].spec.web /\ proj[y] # None /\ proj[y].age = rows[Current].cont
                           THEN None ELSE proj[y]]
          BY <1>2, <4>3 DEF SwapOut
        <5> QED BY <4>1, <5>2, <5>3
      <4> QED BY <1>2, <4>2, <4>3 DEF SwapOut
    <3>5. Len(rows) + 1 \in surf'
      BY <1>2 DEF SwapOut
    <3>6. routes'[job.spec.dom] = Surface(Len(rows) + 1)
      BY <1>a, <1>b, <1>2 DEF AppSpec
    <3>7. NoClash => \A x \in Declared(job.spec.file) : proj'[x] # None /\ proj'[x].conf = job.spec.file[x]
      BY <1>b, <3>4 DEF Fits, Declared
    <3>8. NoClash => Serves(Current)'
      BY <1>b, <3>3, <3>5, <3>6, <3>7 DEF Serves
    <3> QED BY <2>6, <3>2, <3>3, <3>8 DEF WInv, FlaggedOrServed, RemovedIsGone, NoneAfter
  <2> QED BY <2>7, <2>8, <1>2 DEF OneRunning
<1>3. CASE Done /\ sure' = FALSE /\ UNCHANGED <<rows, world>>
  <2>1. SpecsAreSubmitted' /\ Placed' /\ Leaving'
    BY <1>a, <1>b, <1>3 DEF SpecsAreSubmitted, Placed, Leaving, Composed, Done
  <2> QED BY <1>3, <2>1 DEF WInv, FlaggedOrServed, RemovedIsGone
<1> QED BY <1>1, <1>2, <1>3 DEF Swap

LEMMA RemoveKeeps ==
  ASSUME TypeOK, WInv, Remove
  PROVE  WInv'
<1>a. /\ rows \in Seq(Row) /\ sure \in BOOLEAN /\ routes \in [Domains -> Target] /\ UNCHANGED asked
  BY TypeParts DEF Parts, Remove, BeginRemove, RemoveUnknown, RemoveDown, RemoveRoute, RemoveStatus
<1>b. /\ SpecsAreSubmitted /\ (sure => NoneAfter(rows)) /\ Leaving
      /\ pc # "idle" => job.spec \in AppSpec
  BY TypeParts, SpecIsTyped DEF WInv, Parts
<1>c. ASSUME Goto("rmroute") \/ Goto("rmstatus"), rows' = rows, sure' => sure, Leaving',
             pc # "idle"
      PROVE  WInv'
  <2>1. SpecsAreSubmitted' /\ Placed'
    BY <1>a, <1>b, <1>c DEF SpecsAreSubmitted, Placed, Goto, Composed
  <2> QED BY <1>b, <1>c, <2>1, MidWay DEF Goto
<1>1. CASE BeginRemove
  <2>1. /\ Current # 0 /\ Current \in DOMAIN rows /\ rows[Current].spec \in Specs
    BY <1>1, <1>a, <1>b, CurrentIsRow DEF BeginRemove, SpecsAreSubmitted
  <2>2. /\ pc' = "rmdown" /\ job' = [spec |-> rows[Current].spec, val |-> None, row |-> Current]
        /\ UNCHANGED <<rows, sure>> /\ Current' = Current
    BY <1>1, CurrentIs DEF BeginRemove
  <2>3. SpecsAreSubmitted' /\ Placed' /\ Leaving'
    BY <1>a, <1>b, <2>1, <2>2 DEF SpecsAreSubmitted, Placed, Leaving, Composed
  <2> QED BY <1>b, <2>2, <2>3, MidWay
<1>2. CASE RemoveUnknown
  <2>1. /\ pc = "idle" /\ Current = 0 /\ surf' = {} /\ UNCHANGED <<rows, proj, routes, pc, job, sure>>
        /\ Current' = 0
    BY <1>2, CurrentIs DEF RemoveUnknown
  <2>2. SpecsAreSubmitted' /\ Placed' /\ Leaving'
    BY <1>a, <1>b, <2>1 DEF SpecsAreSubmitted, Placed, Leaving, Composed
  <2>3. FlaggedOrServed' /\ RemovedIsGone'
    BY <2>1 DEF WInv, FlaggedOrServed, RemovedIsGone, Newly
  <2> QED BY <1>b, <2>1, <2>2, <2>3 DEF WInv, NoneAfter
<1>3. CASE RemoveDown
  <2>a. pc = "rmdown" /\ UNCHANGED <<rows, routes>>
    BY <1>3 DEF RemoveDown
  <2>1. CASE Done /\ sure' = FALSE
    <3>1. SpecsAreSubmitted' /\ Placed' /\ Leaving'
      BY <1>a, <1>b, <2>a, <2>1 DEF SpecsAreSubmitted, Placed, Leaving, Composed, Done
    <3> QED BY <2>1, <3>1 DEF WInv, FlaggedOrServed, RemovedIsGone
  <2>2. CASE /\ surf' = IF job.spec.kind = "compose" THEN surf ELSE {}
             /\ proj' = Downed(job.spec.file)
             /\ Goto("rmroute") /\ UNCHANGED sure
    <3>1. \A x \in Declared(job.spec.file) : proj'[x] = None
      BY <2>2 DEF Downed, Declared
    <3>2. Leaving'
      BY <1>b, <2>a, <2>2, <3>1, CurrentIs DEF Leaving, Goto
    <3> QED BY <1>c, <2>a, <2>2, <3>2
  <2> QED BY <1>3, <2>1, <2>2 DEF RemoveDown
<1>4. CASE RemoveRoute
  <2>1. /\ pc = "rmroute" /\ Goto("rmstatus") /\ UNCHANGED <<rows, proj, surf>>
        /\ \/ routes' = [routes EXCEPT ![job.spec.dom] = None] /\ sure' = sure
           \/ sure' = FALSE
    BY <1>4 DEF RemoveRoute
  <2>2. sure' => routes'[job.spec.dom] = None
    <3>1. job.spec.dom \in Domains
      BY <1>b, <2>1 DEF AppSpec
    <3> QED BY <1>a, <2>1, <3>1
  <2>3. Leaving'
    BY <1>b, <2>1, <2>2, CurrentIs DEF Leaving, Goto
  <2> QED BY <1>a, <1>c, <2>1, <2>3
<1>5. CASE RemoveStatus
  <2>1. /\ pc = "rmstatus" /\ pc' = "idle" /\ UNCHANGED <<proj, surf, routes>>
        /\ \/ rows' = Retired(job.row) /\ sure' = sure
           \/ rows' = rows /\ sure' = FALSE
    BY <1>5 DEF RemoveStatus, world, Done
  <2>2. /\ Current # 0 /\ job.row = Current /\ job.spec = rows[Current].spec
        /\ Current \in DOMAIN rows
        /\ \A x \in Declared(job.spec.file) : proj[x] = None
        /\ job.spec.kind = "surface" => surf = {}
        /\ sure => routes[job.spec.dom] = None
    BY <1>a, <1>b, <2>1, CurrentIsRow DEF Leaving
  <2>3. /\ Len(Retired(Current)) = Len(rows) /\ DOMAIN Retired(Current) = DOMAIN rows
        /\ \A j \in DOMAIN rows :
             /\ Retired(Current)[j].spec = rows[j].spec
             /\ j # Current => Retired(Current)[j] = rows[j]
    BY <1>a, <2>2, RetiredIsSame
  <2>4. SpecsAreSubmitted' /\ Placed' /\ Leaving'
    <3>1. \A i \in DOMAIN rows' : rows'[i].spec \in Specs
      BY <1>b, <2>1, <2>2, <2>3 DEF SpecsAreSubmitted
    <3> QED BY <1>a, <1>b, <2>1, <3>1 DEF SpecsAreSubmitted, Placed, Leaving, Composed
  <2>5. CASE ~sure'
    BY <2>4, <2>5 DEF WInv, FlaggedOrServed, RemovedIsGone
  <2>6. CASE sure'
    <3>1. sure /\ rows' = Retired(Current)
      BY <1>a, <2>1, <2>2, <2>6
    <3>2. Current' = 0 /\ NoneAfter(rows')
      BY <1>a, <1>b, <3>1, NoneRuns, CurrentIs
    <3>3. ASSUME Newly' = "retired"
          PROVE  Len(rows') = Current /\ rows'[Len(rows')].spec = job.spec
      <4>1. Len(rows) \in Nat /\ DOMAIN rows = 1..Len(rows) /\ Len(rows) \in DOMAIN rows
        BY <1>a, <2>2, LenProperties
      <4>2. SUFFICES ASSUME Current # Len(rows) PROVE FALSE
        BY <2>2, <2>3, <3>1, <4>1
      <4>3. rows[Len(rows)].status = "failed"
        <5>1. rows[Current].status = "running"
          BY <1>a, <2>2, CurrentIs, NewestIsIn
        <5> QED BY <1>b, <2>2, <3>1, <4>1, <4>2, <5>1 DEF NoneAfter
      <4> QED BY <2>3, <3>1, <3>3, <4>1, <4>2, <4>3 DEF Newly
    <3>4. RemovedIsGone'
      BY <2>1, <2>2, <3>1, <3>3 DEF RemovedIsGone
    <3>5. FlaggedOrServed'
      BY <3>2 DEF FlaggedOrServed
    <3> QED BY <2>4, <3>2, <3>4, <3>5 DEF WInv, NoneAfter
  <2> QED BY <2>5, <2>6
<1> QED BY <1>1, <1>2, <1>3, <1>4, <1>5 DEF Remove

LEMMA RestartKeeps ==
  ASSUME TypeOK, WInv, Restart
  PROVE  WInv'
<1>1. /\ rows' = rows /\ proj' = proj /\ surf' = surf /\ pc' = "idle" /\ routes' = InitialRoutes
      /\ sure' => sure /\ pc = "idle" /\ Current # 0 /\ rows[Current].spec.kind = "surface"
      /\ Current' = Current
  BY CurrentIs DEF Restart, Done
<1>2. SpecsAreSubmitted' /\ Placed' /\ Leaving' /\ (sure' => NoneAfter(rows'))
  <2>1. asked' = <<>>
    BY DEF Restart
  <2> QED BY <1>1, <2>1 DEF WInv, SpecsAreSubmitted, Placed, Leaving, Composed
<1>3. CASE ~sure'
  BY <1>2, <1>3 DEF WInv, FlaggedOrServed, RemovedIsGone
<1>4. CASE sure'
  <2>1. Current \in DOMAIN rows /\ rows[Current].spec.dom \in Domains
    BY <1>1, <1>4, TypeParts, CurrentIsRow DEF Parts, Row, AppSpec
  <2>2. routes'[rows[Current].spec.dom] = Surface(Current)
    BY <1>1, <1>4, <2>1 DEF InitialRoutes
  <2>3. NoClash /\ Newly # "failed" => Serves(Current)
    BY <1>1, <1>4 DEF WInv, FlaggedOrServed
  <2>4. NoClash /\ Newly # "failed" => Serves(Current)'
    BY <1>1, <1>4, <2>2, <2>3 DEF Serves
  <2> QED BY <1>1, <1>2, <1>4, <2>4 DEF WInv, FlaggedOrServed, RemovedIsGone, Newly, NoneAfter
<1> QED BY <1>3, <1>4

LEMMA WStep == TypeOK /\ WInv /\ [Next]_vars => WInv'
BY RequestsKeep, ApplyComposeKeeps, EnsureBackingKeeps, SwapKeeps, RemoveKeeps, RestartKeeps DEF Next

LEMMA WInit == Init => WInv
BY DEF Init, WInv, SpecsAreSubmitted, Placed, Leaving, NoneAfter, FlaggedOrServed, RemovedIsGone,
   Composed, Current, Newest

\* At rest the store does not lie: unless something was lost since the last deploy,
\* or a newer row tells of an attempt that failed, what the running row stands for is
\* there and routed, whatever fails, and whichever kinds the app's deploys are of.
THEOREM TableIsTrue ==
  ASSUME NoClash
  PROVE  Spec => []FlaggedOrServed
<1>1. WInv => FlaggedOrServed
  BY DEF WInv
<1> QED BY <1>1, WInit, WStep, TypeCorrect, PTL DEF Spec

\* A removal without an error takes what the row it removes says: the route of its
\* domain, the services it declares and, of an image app, every surface.
THEOREM RemovalTakesWhatItsRowSays == Spec => []RemovedIsGone
<1>1. WInv => RemovedIsGone
  BY DEF WInv
<1> QED BY <1>1, WInit, WStep, TypeCorrect, PTL DEF Spec
=============================================================================
