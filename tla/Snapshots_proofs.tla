-------------------------- MODULE Snapshots_proofs --------------------------
(***************************************************************************)
(* Theorems about Snapshots, for any specs, nodes, commits and files: its  *)
(* types, and what the rows' copies of the spec keep.                      *)
(***************************************************************************)
EXTENDS Snapshots, SequenceTheorems, WellFoundedInduction, TLAPS

(***************************************************************************)
(* The inductive invariant, row by row.  Beside the properties, what makes *)
(* them inductive: a surface has no compose content and has been placed.   *)
(***************************************************************************)
KeepsProvenance(row) ==
  row.spec.file = None /\ ~row.old =>
    /\ row.sched <=> row.ask.node = AnyNode
    /\ ~row.sched => row.spec.node = row.ask.node

CanRunAgain(row) == HasSnapshot(row) =>
  /\ Redeployable(Pinned(row))
  /\ row.spec.file # None => row.content # None

IsPlaced(row) ==
  row.spec.file = None =>
    /\ row.content = None
    /\ ~row.old => row.spec.node # AnyNode

Restores(row, table) ==
  row.of # 0 /\ ~row.old =>
    LET was == table[row.of] IN
    /\ row.image = was.image /\ row.content = was.content
    /\ row.spec.reps = was.spec.reps /\ row.spec.node = was.spec.node

Sound(row) == KeepsProvenance(row) /\ CanRunAgain(row) /\ IsPlaced(row)

IInv ==
  /\ TypeOK
  /\ \A i \in Ran : Sound(rows[i]) /\ Restores(rows[i], rows)

\* What a deploy may put into the table.
Deployable(row) ==
  /\ row \in Row /\ row.status = "running" /\ row.of <= Len(rows)
  /\ Sound(row) /\ Restores(row, rows)

-----------------------------------------------------------------------------
(* The table *)

LEMMA GreatestExists ==
  ASSUME NEW n \in Nat, NEW T, T \subseteq 1..n, T # {}
  PROVE  \E i \in T : \A j \in T : j <= i
<1> DEFINE D == {n - i : i \in T}
           R == OpToRel(<, Nat)
<1>1. D \subseteq Nat /\ D # {}
  <2>1. \A i \in T : n - i \in Nat
    OBVIOUS
  <2>2. \E i \in T : n - i \in D
    OBVIOUS
  <2> QED BY <2>1, <2>2
<1>2. IsWellFoundedOn(R, Nat)
  BY NatLessThanWellFounded
<1>3. \A y, x \in Nat : y < x => <<y, x>> \in R
  BY DEF OpToRel
<1> HIDE DEF R
<1>4. PICK x \in D : \A y \in D : ~ (<<y, x>> \in R)
  BY <1>1, <1>2, WFMin
<1>5. PICK i \in T : x = n - i
  OBVIOUS
<1>6. ASSUME NEW j \in T PROVE j <= i
  <2>1. n - j \in D
    OBVIOUS
  <2>2. ~ (n - j < n - i)
    BY <2>1, <1>1, <1>3, <1>4, <1>5
  <2> QED BY <2>2
<1> QED BY <1>6

\* The newest row of a status, if there is one.
LEMMA NewestIsRow ==
  ASSUME rows \in Seq(Row), NEW st
  PROVE  Newest(st) # 0 => /\ Newest(st) \in DOMAIN rows /\ rows[Newest(st)] \in Row
                          /\ rows[Newest(st)].status = st
<1> DEFINE ids == {i \in DOMAIN rows : rows[i].status = st}
<1>1. Len(rows) \in Nat /\ ids \subseteq 1..Len(rows)
  BY LenProperties
<1>2. CASE ids = {}
  BY <1>2 DEF Newest
<1>3. CASE ids # {}
  <2>1. \E i \in ids : \A j \in ids : j <= i
    BY <1>1, <1>3, GreatestExists
  <2>2. Newest(st) \in ids
    BY <2>1, <1>3 DEF Newest
  <2> QED BY <2>2, <1>1
<1> QED BY <1>2, <1>3

\* But for its status a row stays what it is: the table only grows.
Grown ==
  /\ rows' \in Seq(Row) /\ DOMAIN rows \subseteq DOMAIN rows'
  /\ \A i \in DOMAIN rows :
       /\ rows'[i] = rows[i] \/ rows'[i] = [rows[i] EXCEPT !.status = "retired"]
       /\ i \in Ran' => i \in Ran

LEMMA RowStays ==
  ASSUME IInv, Grown, NEW i \in DOMAIN rows
  PROVE  /\ rows'[i].of < i
         /\ i \in Ran' => Sound(rows'[i]) /\ Restores(rows'[i], rows')
<1>1. rows \in Seq(Row) /\ rows[i] \in Row /\ rows[i].of < i /\ i \in 1..Len(rows) /\ Len(rows) \in Nat
  BY LenProperties DEF IInv, TypeOK
<1>2. ASSUME NEW j \in DOMAIN rows
      PROVE  /\ rows'[j].spec = rows[j].spec /\ rows'[j].image = rows[j].image
             /\ rows'[j].content = rows[j].content /\ rows'[j].sched = rows[j].sched
             /\ rows'[j].ask = rows[j].ask /\ rows'[j].of = rows[j].of /\ rows'[j].old = rows[j].old
  <2>1. rows[j] \in Row
    BY <1>1
  <2> QED BY <2>1 DEF Grown, Row
<1>3. rows'[i].of < i
  BY <1>1, <1>2
<1>4. ASSUME i \in Ran' PROVE Sound(rows'[i]) /\ Restores(rows'[i], rows')
  <2>1. Sound(rows[i]) /\ Restores(rows[i], rows)
    BY <1>4 DEF Grown, IInv
  <2>2. Sound(rows'[i])
    BY <2>1, <1>2 DEF Sound, KeepsProvenance, CanRunAgain, HasSnapshot, IsPlaced, Pinned
  <2>3. rows[i].of # 0 => rows[i].of \in DOMAIN rows
    BY <1>1 DEF Row
  <2>4. Restores(rows'[i], rows')
    BY <2>1, <2>3, <1>2 DEF Restores
  <2> QED BY <2>2, <2>4
<1> QED BY <1>3, <1>4

\* What is added to the table is all there is to look at.
LEMMA GrowingKeeps ==
  ASSUME IInv, Grown, UNCHANGED <<head, disk>>,
         \A i \in DOMAIN rows' \ DOMAIN rows :
           rows'[i].of < i /\ (i \in Ran' => Sound(rows'[i]) /\ Restores(rows'[i], rows'))
  PROVE  IInv'
<1>1. \A i \in DOMAIN rows' : rows'[i].of < i /\ (i \in Ran' => Sound(rows'[i]) /\ Restores(rows'[i], rows'))
  BY RowStays DEF Grown
<1>2. TypeOK'
  BY <1>1 DEF Grown, IInv, TypeOK
<1>3. \A i \in Ran' : Sound(rows'[i]) /\ Restores(rows'[i], rows')
  BY <1>1 DEF Ran
<1> QED BY <1>2, <1>3 DEF IInv

\* A row is added to a table that differs from this one by a retired row at most.
LEMMA AppendKeeps ==
  ASSUME IInv, UNCHANGED <<head, disk>>,
         NEW row \in Row, row.of <= Len(rows),
         row.status # "failed" => Sound(row) /\ Restores(row, rows),
         NEW table \in Seq(Row), Len(table) = Len(rows),
         \A i \in DOMAIN rows : \/ table[i] = rows[i]
                               \/ /\ table[i] = [rows[i] EXCEPT !.status = "retired"]
                                  /\ rows[i].status = "running",
         rows' = Append(table, row)
  PROVE  IInv'
<1> DEFINE n == Len(rows) + 1
<1>1. rows \in Seq(Row) /\ Len(rows) \in Nat /\ DOMAIN rows = 1..Len(rows)
  BY LenProperties DEF IInv, TypeOK
<1>2. /\ rows' \in Seq(Row) /\ DOMAIN rows' = 1..n /\ rows'[n] = row
      /\ \A i \in DOMAIN rows : rows'[i] = table[i]
  BY <1>1, AppendProperties, LenProperties
<1>3. Grown
  <2>1. ASSUME NEW i \in DOMAIN rows, i \in Ran' PROVE i \in Ran
    <3>1. rows'[i].status # "failed" /\ rows'[i] = table[i]
      BY <1>2, <2>1 DEF Ran
    <3>2. CASE table[i] = rows[i]
      BY <3>1, <3>2 DEF Ran
    <3>3. CASE rows[i].status = "running"
      BY <3>3 DEF Ran
    <3> QED BY <3>2, <3>3
  <2> QED BY <1>1, <1>2, <2>1 DEF Grown
<1>4. ASSUME NEW i \in DOMAIN rows' \ DOMAIN rows
      PROVE  rows'[i].of < i /\ (i \in Ran' => Sound(rows'[i]) /\ Restores(rows'[i], rows'))
  <2>1. i = n /\ rows'[i] = row
    BY <1>1, <1>2
  <2>2. row.of \in Nat
    BY DEF Row
  <2>3. rows'[i].of < i
    BY <1>1, <2>1, <2>2
  <2>4. ASSUME i \in Ran' PROVE Sound(row) /\ Restores(row, rows')
    <3>1. Sound(row) /\ Restores(row, rows)
      BY <2>1, <2>4 DEF Ran
    <3>2. ASSUME row.of # 0
          PROVE  LET was == rows[row.of]
                     now == rows'[row.of] IN
                 /\ now.image = was.image /\ now.content = was.content /\ now.spec = was.spec
      <4>1. row.of \in DOMAIN rows
        BY <1>1, <2>2, <3>2
      <4>2. rows[row.of] \in Row
        BY <1>1, <4>1
      <4>3. rows'[row.of] = rows[row.of] \/ rows'[row.of] = [rows[row.of] EXCEPT !.status = "retired"]
        BY <1>2, <4>1
      <4>4. CASE rows'[row.of] = [rows[row.of] EXCEPT !.status = "retired"]
        BY <4>2, <4>4 DEF Row
      <4> QED BY <4>3, <4>4
    <3> QED BY <3>1, <3>2 DEF Restores
  <2> QED BY <2>1, <2>3, <2>4
<1> QED BY <1>3, <1>4, GrowingKeeps

LEMMA FailedKeeps ==
  ASSUME IInv, UNCHANGED <<head, disk>>, NEW row \in Row, row.of <= Len(rows),
         rows' = Append(rows, [row EXCEPT !.status = "failed"])
  PROVE  IInv'
<1>1. [row EXCEPT !.status = "failed"] \in Row
  BY DEF Row
<1>2. rows \in Seq(Row)
  BY DEF IInv, TypeOK
<1>3. [row EXCEPT !.status = "failed"].of = row.of /\ [row EXCEPT !.status = "failed"].status = "failed"
  BY DEF Row
<1> QED BY <1>1, <1>2, <1>3, AppendKeeps

LEMMA DeployKeeps ==
  ASSUME IInv, UNCHANGED <<head, disk>>, NEW row, Deployable(row), Deploy(row)
  PROVE  IInv'
<1>1. rows \in Seq(Row) /\ Len(rows) \in Nat /\ DOMAIN rows = 1..Len(rows)
  BY LenProperties DEF IInv, TypeOK
<1>2. row \in Row /\ row.of <= Len(rows) /\ Sound(row) /\ Restores(row, rows)
  BY DEF Deployable
<1>3. CASE Replace(row)
  <2> DEFINE table == [i \in DOMAIN rows |->
                         IF i = Current THEN [rows[i] EXCEPT !.status = "retired"] ELSE rows[i]]
  <2>1. ASSUME NEW i \in DOMAIN rows
        PROVE  /\ table[i] \in Row
               /\ \/ table[i] = rows[i]
                  \/ /\ table[i] = [rows[i] EXCEPT !.status = "retired"]
                     /\ rows[i].status = "running"
    <3>0. rows[i] \in Row
      BY <1>1
    <3>1. rows[i] \in Row /\ [rows[i] EXCEPT !.status = "retired"] \in Row
      BY <3>0 DEF Row
    <3>2. i # 0
      BY <1>1
    <3> QED BY <1>1, <3>1, <3>2, NewestIsRow DEF Current
  <2>2. table \in Seq(Row) /\ Len(table) = Len(rows)
    <3>1. table \in [1..Len(rows) -> Row]
      BY <1>1, <2>1
    <3> QED BY <1>1, <3>1, SeqDef, LenProperties
  <2>3. rows' = Append(table, row)
    BY <1>3 DEF Replace
  <2> HIDE DEF table
  <2> QED BY <1>2, <2>1, <2>2, <2>3, AppendKeeps
<1>4. CASE rows' = Append(rows, [row EXCEPT !.status = "failed"])
  BY <1>2, <1>4, FailedKeeps
<1> QED BY <1>3, <1>4 DEF Deploy

-----------------------------------------------------------------------------
(* What is deployed *)

Source == [ask: Spec0, of: Nat, old: BOOLEAN]

\* A deploy of s on behalf of src, whose placement says what src says.
Faithful(s, sched, src) ==
  ~src.old => /\ s.node # AnyNode
              /\ sched <=> src.ask.node = AnyNode
              /\ ~sched => s.node = src.ask.node

LEMMA NewIsDeployable ==
  ASSUME NEW s \in Spec0, NEW image \in Image \cup {None}, NEW content \in Contents \cup {None},
         NEW sched \in BOOLEAN, NEW src \in Source, src.of <= Len(rows),
         Redeployable([s EXCEPT !.image = image]),
         s.file = None => content = None /\ Faithful(s, sched, src),
         s.file # None => content # None,
         Restores(New(s, image, content, sched, src), rows)
  PROVE  Deployable(New(s, image, content, sched, src))
<1> DEFINE row == New(s, image, content, sched, src)
<1>1. /\ row.spec = s /\ row.image = image /\ row.content = content /\ row.sched = sched
      /\ row.ask = src.ask /\ row.of = src.of /\ row.old = src.old /\ row.status = "running"
  BY DEF New
<1>2. row \in Row
  BY DEF New, Row, Source
<1>3. Sound(row)
  BY <1>1 DEF Sound, KeepsProvenance, CanRunAgain, IsPlaced, Pinned, Faithful
<1> QED BY <1>1, <1>2, <1>3 DEF Deployable

\* What is valid is valid on any node, unless it is a compose app; of a git app,
\* with any image it has been built into.
LEMMA PlacedIsValid ==
  ASSUME NEW s \in Spec0, NEW n \in Nodes \cup {AnyNode}, s.file = None, Redeployable(s)
  PROVE  /\ On(s, n) \in Spec0 /\ On(s, n).node = n /\ On(s, n).file = None
         /\ On(s, n).image = s.image /\ On(s, n).reps = s.reps
         /\ Redeployable([On(s, n) EXCEPT !.image = s.image])
<1>1. On(s, n) \in Spec0
  BY DEF On, Spec0
<1>2. /\ On(s, n).node = n /\ On(s, n).file = None
      /\ On(s, n).image = s.image /\ On(s, n).reps = s.reps
  BY DEF On, Spec0
<1>3. Redeployable([On(s, n) EXCEPT !.image = s.image])
  BY DEF On, Spec0, Redeployable, Unpinned, Valid, ValidGit, ValidCompose, ValidImage, ValidReplicas
<1> QED BY <1>1, <1>2, <1>3

LEMMA BuiltIsValid ==
  ASSUME NEW s \in Spec0, NEW n \in Nodes \cup {AnyNode}, s.git, Valid(s), NEW image \in Image
  PROVE  /\ On(s, n) \in Spec0 /\ On(s, n).node = n /\ On(s, n).file = None
         /\ Redeployable([On(s, n) EXCEPT !.image = image])
<1>1. On(s, n) \in Spec0 /\ On(s, n).node = n /\ s.file = None /\ On(s, n).file = None
  BY DEF On, Spec0, Valid, ValidGit, ValidCompose, ValidImage
<1>2. Redeployable([On(s, n) EXCEPT !.image = image])
  BY NamesAssumption
     DEF On, Spec0, Redeployable, Unpinned, Valid, ValidGit, ValidCompose, ValidImage, ValidReplicas
<1> QED BY <1>1, <1>2

\* A placement the scheduler has made, or the one the spec names.
LEMMA ApplyImageKeeps ==
  ASSUME IInv, UNCHANGED <<head, disk>>, NEW s \in Spec0, s.file = None, ~s.git, Valid(s),
         NEW sched \in BOOLEAN, NEW src \in Source, src.of <= Len(rows),
         \A n \in Placements(s) : Faithful(On(s, n), sched, src),
         \A n \in Placements(s) : Restores(New(On(s, n), s.image, None, sched, src), rows),
         ApplyImage(s, sched, src)
  PROVE  IInv'
<1>1. PICK n \in Placements(s) : Deploy(New(On(s, n), s.image, None, sched, src))
  BY DEF ApplyImage
<1>2. n \in Nodes \cup {AnyNode} /\ s.image \in Image \cup {None}
  BY DEF Placements, Spec0
<1>3. Redeployable(s)
  BY DEF Redeployable
<1>4. /\ On(s, n) \in Spec0 /\ On(s, n).file = None
      /\ Redeployable([On(s, n) EXCEPT !.image = s.image])
  BY <1>2, <1>3, PlacedIsValid
<1>5. Faithful(On(s, n), sched, src) /\ Restores(New(On(s, n), s.image, None, sched, src), rows)
  BY <1>1
<1>6. None \in Contents \cup {None}
  OBVIOUS
<1>7. Deployable(New(On(s, n), s.image, None, sched, src))
  BY <1>2, <1>4, <1>5, <1>6, NewIsDeployable
<1> QED BY <1>1, <1>7, DeployKeeps

\* A spec asks for what the user has asked for.
SameAsk(s, src) ==
  ~src.old => /\ s.node = AnyNode <=> src.ask.node = AnyNode
              /\ s.node # AnyNode => s.node = src.ask.node

LEMMA ApplyKeeps ==
  ASSUME IInv, UNCHANGED <<head, disk>>, head \in Commits,
         NEW s \in Spec0, NEW text \in Contents \cup {None},
         NEW src \in Source, src.of <= Len(rows),
         s.file = None => SameAsk(s, src) /\ (src.of = 0 \/ src.old),
         \A sched \in BOOLEAN : Restores(New(s, s.image, text, sched, src), rows) \/ s.file = None,
         Apply(s, text, src)
  PROVE  IInv'
<1>1. \A row : row.of = src.of /\ row.old = src.old /\ (src.of = 0 \/ src.old) => Restores(row, rows)
  BY DEF Restores
<1>2. \A t, image, content, sched :
        LET row == New(t, image, content, sched, src) IN row.of = src.of /\ row.old = src.old
  BY DEF New
<1>3. ASSUME s.file = None, NEW n \in Placements(s)
      PROVE  Faithful(On(s, n), s.node = AnyNode, src) /\ n \in Nodes \cup {AnyNode}
  <2>1. On(s, n).node = n
    BY DEF On, Spec0
  <2> QED BY <1>3, <2>1, NamesAssumption DEF Faithful, SameAsk, Placements, Spec0
<1>4. CASE s.git /\ ApplyGit(s, src)
  <2>1. PICK n \in Placements(s) : Deploy(New(On(s, n), [commit |-> head], None, s.node = AnyNode, src))
    BY <1>4 DEF ApplyGit
  <2>2. Valid(s) /\ s.file = None
    BY <1>4 DEF Apply, Valid, ValidGit, ValidCompose, ValidImage
  <2>3. [commit |-> head] \in Image
    BY DEF Image
  <2> DEFINE row == New(On(s, n), [commit |-> head], None, s.node = AnyNode, src)
  <2>4. Restores(row, rows)
    BY <1>1, <1>2, <2>2
  <2>5. Deployable(row)
    BY <1>3, <1>4, <2>2, <2>3, <2>4, BuiltIsValid, NewIsDeployable
  <2> QED BY <2>1, <2>5, DeployKeeps
<1>5. CASE ~s.git /\ s.file # None /\ ApplyCompose(s, text, src)
  <2>1. Valid(s) /\ s.image = None
    BY <1>5 DEF Apply, Valid, ValidGit, ValidCompose, ValidImage
  <2>2. s.image \in Image \cup {None}
    BY <2>1
  <2>3. New(s, s.image, text, FALSE, src) \in Row /\ New(s, s.image, None, FALSE, src) \in Row
    BY <2>2 DEF New, Row, Source
  <2>4. CASE text = None
    BY <1>2, <1>5, <2>3, <2>4, FailedKeeps DEF ApplyCompose
  <2>5. CASE text # None
    <3>1. [s EXCEPT !.image = s.image] = s /\ Redeployable(s)
      BY <1>5, <2>1 DEF Redeployable, Spec0
    <3>2. Deployable(New(s, s.image, text, FALSE, src))
      BY <1>5, <2>2, <2>5, <3>1, NewIsDeployable
    <3> QED BY <1>5, <2>5, <3>2, DeployKeeps DEF ApplyCompose
  <2> QED BY <2>4, <2>5
<1>6. CASE ~s.git /\ s.file = None /\ ApplyImage(s, s.node = AnyNode, src)
  <2>1. Valid(s)
    BY DEF Apply
  <2>2. \A n \in Placements(s) : Restores(New(On(s, n), s.image, None, s.node = AnyNode, src), rows)
    BY <1>1, <1>2, <1>6
  <2> QED BY <1>3, <1>6, <2>1, <2>2, ApplyImageKeeps
<1> QED BY <1>4, <1>5, <1>6 DEF Apply

\* A row's surface again, as its row says.
LEMMA RedeployKeeps ==
  ASSUME IInv, UNCHANGED <<head, disk>>, NEW s \in Spec0, s.file = None,
         NEW sched \in BOOLEAN, NEW src \in Source, src.of <= Len(rows),
         Faithful(s, sched, src),
         Restores(New(s, s.image, None, sched, src), rows),
         Redeploy(s, sched, src)
  PROVE  IInv'
<1>1. Redeployable(s)
  BY DEF Redeploy
<1>2. CASE s.git /\ Deploy(New(s, s.image, None, sched, src))
  <2>1. s.image \in Image \cup {None} /\ [s EXCEPT !.image = s.image] = s
    BY DEF Spec0
  <2>2. Deployable(New(s, s.image, None, sched, src))
    BY <1>1, <2>1, NewIsDeployable
  <2> QED BY <1>2, <2>2, DeployKeeps
<1>3. CASE ~s.git /\ ApplyImage(s, sched, src)
  <2>1. Valid(s)
    BY <1>1, <1>3 DEF Redeployable
  <2>2. ASSUME NEW n \in Placements(s)
        PROVE  /\ Faithful(On(s, n), sched, src)
               /\ Restores(New(On(s, n), s.image, None, sched, src), rows)
    <3>1. CASE s.node # AnyNode
      <4>1. On(s, n) = s
        BY <3>1 DEF Placements, On, Spec0
      <4> QED BY <4>1
    <3>2. CASE s.node = AnyNode
      <4>1. src.old
        BY <3>2 DEF Faithful
      <4> QED BY <4>1 DEF Faithful, Restores, New
    <3> QED BY <3>1, <3>2
  <2> QED BY <1>3, <2>1, <2>2, ApplyImageKeeps
<1> QED BY <1>2, <1>3 DEF Redeploy

-----------------------------------------------------------------------------
(* The operations *)

LEMMA NewestIsSound ==
  ASSUME IInv, NEW st \in {"running", "retired"}, Newest(st) # 0
  PROVE  /\ Newest(st) \in DOMAIN rows /\ Newest(st) \in Nat /\ Newest(st) <= Len(rows)
         /\ rows[Newest(st)] \in Row /\ Sound(rows[Newest(st)])
<1>1. rows \in Seq(Row) /\ Len(rows) \in Nat /\ DOMAIN rows = 1..Len(rows)
  BY LenProperties DEF IInv, TypeOK
<1>2. /\ Newest(st) \in DOMAIN rows /\ rows[Newest(st)] \in Row
      /\ rows[Newest(st)].status = st
  BY <1>1, NewestIsRow
<1>3. Newest(st) \in Ran
  BY <1>2 DEF Ran
<1> QED BY <1>1, <1>2, <1>3 DEF IInv

LEMMA PinnedIsSpec ==
  ASSUME NEW row \in Row
  PROVE  /\ Pinned(row) \in Spec0 /\ Pinned(row).image = row.image
         /\ Pinned(row).file = row.spec.file /\ Pinned(row).node = row.spec.node
         /\ Pinned(row).reps = row.spec.reps
BY DEF Pinned, Row, Spec0

LEMMA TextIsText ==
  ASSUME TypeOK, NEW path
  PROVE  TextAt(path) \in Contents \cup {None}
BY DEF TextAt, TypeOK

LEMMA InitIsSound == Init => IInv
<1> SUFFICES ASSUME Init PROVE IInv
  OBVIOUS
<1>1. CASE rows = <<>>
  BY <1>1 DEF Init, IInv, TypeOK, Ran
<1>2. ASSUME NEW row, row \in Row, row.of = 0, Sound(row), rows = <<row>> PROVE IInv
  <2>1. Restores(row, rows)
    BY <1>2 DEF Restores
  <2>2. rows \in Seq(Row) /\ DOMAIN rows = {1} /\ rows[1] = row
    BY <1>2
  <2> QED BY <1>2, <2>1, <2>2 DEF Init, IInv, TypeOK, Ran
<1>3. ASSUME NEW s \in Spec0, s.file = None, NEW image \in Image,
             HasSnapshot(LegacyRow(s, image)) => Redeployable(Pinned(LegacyRow(s, image)))
      PROVE  LET row == LegacyRow(s, image) IN row \in Row /\ row.of = 0 /\ Sound(row)
  BY <1>3 DEF LegacyRow, Row, Sound, KeepsProvenance, CanRunAgain, IsPlaced
<1>4. ASSUME NEW s \in Legacy, rows = <<LegacyRow(s, IF s.git THEN [commit |-> head] ELSE s.image)>>
      PROVE  IInv
  <2> DEFINE image == IF s.git THEN [commit |-> head] ELSE s.image
  <2>1. s \in Spec0 /\ Valid(s) /\ s.file = None
    BY LegacyAssumption
  <2>2. image \in Image
    BY <2>1, NamesAssumption DEF Image, Spec0, Valid, ValidGit, ValidCompose, ValidImage, Init
  <2>3. Redeployable(Pinned(LegacyRow(s, image)))
    BY <2>1, NamesAssumption
       DEF LegacyRow, Pinned, Spec0, Image, Redeployable, Unpinned, Valid, ValidGit, ValidCompose,
           ValidImage, ValidReplicas, Init
  <2> HIDE DEF image
  <2> QED BY <1>2, <1>3, <1>4, <2>1, <2>2, <2>3 DEF image
<1>5. ASSUME NEW r \in Refs, rows = <<LegacyRow(NoSpec, [ref |-> r])>> PROVE IInv
  <2>1. NoSpec \in Spec0 /\ NoSpec.file = None
    BY DEF NoSpec, Spec0
  <2>2. ~HasSnapshot(LegacyRow(NoSpec, [ref |-> r])) /\ [ref |-> r] \in Image
    BY DEF HasSnapshot, LegacyRow, Image
  <2> QED BY <1>2, <1>3, <1>5, <2>1, <2>2
<1> QED BY <1>1, <1>4, <1>5 DEF Init, LegacyRows

LEMMA HandleApplyKeeps == IInv /\ HandleApply => IInv'
<1> SUFFICES ASSUME IInv, HandleApply PROVE IInv'
  OBVIOUS
<1>1. PICK text \in Texts :
        LET s == Parse(text) IN Apply(s, TextAt(s.file), [ask |-> s, of |-> 0, old |-> FALSE])
  BY DEF HandleApply
<1> DEFINE s == Parse(text)
           src == [ask |-> s, of |-> 0, old |-> FALSE]
<1>2. s \in Spec0 /\ src \in Source /\ src.of = 0 /\ src.ask = s
  BY SpecsAssumption DEF Parse, Spec0, Source
<1>3. SameAsk(s, src) /\ src.of <= Len(rows)
  BY <1>2, LenProperties DEF SameAsk, IInv, TypeOK
<1>4. \A sched : Restores(New(s, s.image, TextAt(s.file), sched, src), rows)
  BY <1>2 DEF Restores, New
<1>5. TextAt(s.file) \in Contents \cup {None} /\ head \in Commits
  BY TextIsText DEF IInv, TypeOK
<1> HIDE DEF s, src
<1>6. Apply(s, TextAt(s.file), src)
  BY <1>1 DEF s, src
<1> QED BY <1>2, <1>3, <1>4, <1>5, <1>6, ApplyKeeps DEF HandleApply

LEMMA HandleRollbackKeeps == IInv /\ HandleRollback => IInv'
<1> SUFFICES ASSUME IInv, HandleRollback PROVE IInv'
  OBVIOUS
<1> DEFINE row == rows[Previous]
           src == [ask |-> row.ask, of |-> Previous, old |-> row.old]
<1>1. /\ Previous \in Nat /\ Previous <= Len(rows)
      /\ row \in Row /\ Sound(row)
  BY NewestIsSound DEF Previous, HandleRollback, Rollback
<1>2. /\ src \in Source /\ src.of = Previous /\ src.ask = row.ask /\ src.old = row.old
      /\ row.spec \in Spec0 /\ row.sched \in BOOLEAN /\ row.content \in Contents \cup {None}
  BY <1>1 DEF Row, Source
<1>3. CASE row.spec.file = None
  <2>1. Redeploy(Pinned(row), row.sched, src)
    BY <1>3 DEF HandleRollback, Rollback
  <2>2. Faithful(Pinned(row), row.sched, src)
    BY <1>1, <1>2, <1>3, PinnedIsSpec DEF Faithful, Sound, KeepsProvenance, IsPlaced
  <2>3. Restores(New(Pinned(row), Pinned(row).image, None, row.sched, src), rows)
    BY <1>1, <1>2, <1>3, PinnedIsSpec DEF Restores, New, Sound, IsPlaced
  <2>4. Pinned(row) \in Spec0 /\ Pinned(row).file = None
    BY <1>1, <1>3, PinnedIsSpec
  <2> QED BY <1>1, <1>2, <2>1, <2>2, <2>3, <2>4, RedeployKeeps DEF HandleRollback
<1>4. CASE row.spec.file # None
  <2> DEFINE s == [Pinned(row) EXCEPT !.file = TempFile]
  <2>1. /\ s \in Spec0 /\ s.file # None /\ s.image = row.image
        /\ s.reps = row.spec.reps /\ s.node = row.spec.node
    BY <1>1, PinnedIsSpec, NamesAssumption DEF Spec0, Path
  <2>2. Apply(s, row.content, src)
    BY <1>4 DEF HandleRollback, Rollback, RollbackCompose
  <2>3. \A sched : Restores(New(s, s.image, row.content, sched, src), rows)
    BY <1>2, <2>1 DEF Restores, New
  <2>4. head \in Commits
    BY DEF IInv, TypeOK
  <2> HIDE DEF s, src
  <2> QED BY <1>1, <1>2, <2>1, <2>2, <2>3, <2>4, ApplyKeeps DEF HandleRollback
<1> QED BY <1>3, <1>4

LEMMA HandleScaleKeeps == IInv /\ HandleScale => IInv'
<1> SUFFICES ASSUME IInv, HandleScale PROVE IInv'
  OBVIOUS
<1> DEFINE row == rows[Current]
           src == Src(row)
<1>1. row \in Row /\ Sound(row) /\ 0 <= Len(rows)
  BY NewestIsSound DEF Current, HandleScale
<1>2. /\ src \in Source /\ src.of = 0 /\ src.ask = row.ask /\ src.old = row.old
      /\ row.spec \in Spec0 /\ row.sched \in BOOLEAN
  BY <1>1 DEF Row, Source, Src
<1>3. PICK k \in Counts : LET s == Scaled(row, k) IN Apply(s, TextAt(s.file), src)
  BY DEF HandleScale
<1> DEFINE s == Scaled(row, k)
<1>4. /\ s \in Spec0 /\ s.file = row.spec.file
      /\ s.node = IF row.sched THEN AnyNode ELSE row.spec.node
  BY <1>2, SpecsAssumption DEF Scaled, Spec0
<1>5. s.file = None => SameAsk(s, src)
  BY <1>1, <1>2, <1>4 DEF SameAsk, Sound, KeepsProvenance, IsPlaced
<1>6. \A sched : Restores(New(s, s.image, TextAt(s.file), sched, src), rows)
  BY <1>2 DEF Restores, New
<1>7. TextAt(s.file) \in Contents \cup {None} /\ head \in Commits
  BY TextIsText DEF IInv, TypeOK
<1>8. Apply(s, TextAt(s.file), src)
  BY <1>3
<1> HIDE DEF s, src
<1> QED BY <1>1, <1>2, <1>4, <1>5, <1>6, <1>7, <1>8, ApplyKeeps DEF HandleScale

\* A deploy that is no rollback has nothing to restore.
LEMMA SrcRestoresNothing ==
  ASSUME NEW row \in Row, NEW s, NEW sched
  PROVE  /\ Src(row) \in Source /\ Src(row).of = 0
         /\ Src(row).ask = row.ask /\ Src(row).old = row.old
         /\ Restores(New(s, s.image, None, sched, Src(row)), rows)
BY DEF Row, Source, Src, Restores, New

LEMMA RescheduleKeeps == IInv /\ Reschedule => IInv'
<1> SUFFICES ASSUME IInv, Reschedule PROVE IInv'
  OBVIOUS
<1> DEFINE row == rows[Current]
<1>1. row \in Row /\ Sound(row) /\ 0 <= Len(rows)
  BY NewestIsSound DEF Current, Reschedule
<1>2. PICK n \in Nodes : Redeploy(On(Pinned(row), n), TRUE, Src(row))
  BY DEF Reschedule
<1> DEFINE s == On(Pinned(row), n)
<1>3. s \in Spec0 /\ s.file = None /\ s.node = n
  BY <1>1, PinnedIsSpec DEF On, Spec0, Reschedule
<1>4. Faithful(s, TRUE, Src(row))
  BY <1>1, <1>3, NamesAssumption, SrcRestoresNothing
     DEF Faithful, Sound, KeepsProvenance, Reschedule, On, Pinned
<1> HIDE DEF s
<1>5. /\ Src(row) \in Source /\ Src(row).of <= Len(rows)
      /\ Restores(New(s, s.image, None, TRUE, Src(row)), rows)
  BY <1>1, SrcRestoresNothing
<1>6. Redeploy(s, TRUE, Src(row))
  BY <1>2 DEF s
<1> QED BY <1>3, <1>4, <1>5, <1>6, RedeployKeeps DEF Reschedule

LEMMA HealSurfaceKeeps == IInv /\ HealSurface => IInv'
<1> SUFFICES ASSUME IInv, HealSurface PROVE IInv'
  OBVIOUS
<1> DEFINE row == rows[Current]
           s == Pinned(row)
<1>1. row \in Row /\ Sound(row) /\ 0 <= Len(rows)
  BY NewestIsSound DEF Current, HealSurface
<1>2. s \in Spec0 /\ s.file = None /\ s.node = row.spec.node /\ row.sched \in BOOLEAN
  BY <1>1, PinnedIsSpec DEF HealSurface, Row
<1>3. Faithful(s, row.sched, Src(row))
  BY <1>1, <1>2, SrcRestoresNothing DEF Faithful, Sound, KeepsProvenance, IsPlaced, HealSurface
<1>4. /\ Src(row) \in Source /\ Src(row).of <= Len(rows)
      /\ Restores(New(s, s.image, None, row.sched, Src(row)), rows)
  BY <1>1, SrcRestoresNothing
<1>5. Redeploy(s, row.sched, Src(row))
  BY DEF HealSurface
<1> QED BY <1>2, <1>3, <1>4, <1>5, RedeployKeeps DEF HealSurface

LEMMA HandleDeleteKeeps == IInv /\ HandleDelete => IInv'
<1> SUFFICES ASSUME IInv, HandleDelete PROVE IInv'
  OBVIOUS
<1>1. rows \in Seq(Row) /\ Len(rows) \in Nat /\ DOMAIN rows = 1..Len(rows)
  BY LenProperties DEF IInv, TypeOK
<1>2. Current \in DOMAIN rows /\ rows[Current] \in Row /\ rows[Current].status = "running"
  BY <1>1, NewestIsRow DEF Current, HandleDelete
<1>3. [rows[Current] EXCEPT !.status = "retired"] \in Row
  BY <1>2 DEF Row
<1>4. rows' = [rows EXCEPT ![Current] = [rows[Current] EXCEPT !.status = "retired"]]
  BY <1>1, <1>2 DEF HandleDelete
<1>5. rows' \in Seq(Row) /\ DOMAIN rows' = DOMAIN rows
  BY <1>1, <1>2, <1>3, <1>4, ExceptSeq
<1>6. Grown
  BY <1>1, <1>2, <1>4, <1>5 DEF Grown, Ran
<1> QED BY <1>5, <1>6, GrowingKeeps DEF HandleDelete

LEMMA StepKeeps == IInv /\ [Next]_vars => IInv'
<1>1. ASSUME IInv, Edit PROVE IInv'
  BY <1>1 DEF Edit, IInv, TypeOK, Ran
<1>2. ASSUME IInv, UNCHANGED vars PROVE IInv'
  BY <1>2 DEF vars, IInv, TypeOK, Ran
<1> QED BY <1>1, <1>2, HandleApplyKeeps, HandleRollbackKeeps, HandleScaleKeeps, RescheduleKeeps,
           HealSurfaceKeeps, HandleDeleteKeeps DEF Next

-----------------------------------------------------------------------------
LEMMA AlwaysSound == Spec => []IInv
BY InitIsSound, StepKeeps, PTL DEF Spec

(***************************************************************************)
(* The variables have their types: a row goes back to an earlier one, if   *)
(* to any (Snapshots models the deployments table and its spec column).    *)
(***************************************************************************)
THEOREM TypeCorrect == Spec => []TypeOK
<1>1. IInv => TypeOK
  BY DEF IInv
<1> QED BY <1>1, AlwaysSound, PTL

(***************************************************************************)
(* Rollbacks, scales, moves and heals keep what the scheduler may move     *)
(* apart from what the user has pinned (the Scheduled column).             *)
(***************************************************************************)
THEOREM ProvenanceSurvives == Spec => []ProvenanceKept
<1>1. IInv => ProvenanceKept
  BY DEF IInv, ProvenanceKept, Sound, KeepsProvenance
<1> QED BY <1>1, AlwaysSound, PTL

(***************************************************************************)
(* The copy of a spec that a row which has run carries, if it carries one, *)
(* passes the validation of rollbackGitLocked, rollbackImage and the heals.*)
(***************************************************************************)
THEOREM NothingIsStranded == Spec => []NothingStranded
<1>1. IInv => NothingStranded
  BY DEF IInv, NothingStranded, Sound, CanRunAgain
<1> QED BY <1>1, AlwaysSound, PTL

(***************************************************************************)
(* A rollback runs the image or compose file, the replicas and the         *)
(* placement that the row it goes back to has recorded (Rollback).         *)
(***************************************************************************)
THEOREM RollbacksRestore == Spec => []RollbackRestores
<1>1. IInv => RollbackRestores
  BY DEF IInv, RollbackRestores, Restores
<1> QED BY <1>1, AlwaysSound, PTL
=============================================================================
