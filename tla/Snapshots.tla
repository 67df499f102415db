----------------------------- MODULE Snapshots -----------------------------
(***************************************************************************)
(* What a row of the deployments table remembers of the spec it was made   *)
(* from, and what rollback, scale, evacuation and heal make of that copy   *)
(* later: they all redeploy a row instead of asking for lwd.toml again.    *)
(* The table of one app; a deploy is one step here, which ends well or     *)
(* fails (BlueGreen and Stack take it apart).                              *)
(***************************************************************************)
EXTENDS Integers, Sequences

CONSTANTS
  Nodes,    \* node names, "local" among them
  AnyNode,  \* a spec's Node when it is left unset (Go: "")
  Refs,     \* image references a user may write
  Commits,  \* heads the branch of a git app may have
  Files,    \* paths of compose files
  TempFile, \* the path of a rollback's temporary copy, gone when it returns
  Contents, \* what a compose file may say
  None,
  Texts,    \* the lwd.toml documents users write
  Legacy,   \* specs that older versions have deployed and recorded
  Counts,   \* the replica counts a scale request may ask for
  MaxRows   \* bound: rows of the table

Image == [ref: Refs] \cup [commit: Commits]
Path == Files \cup {TempFile}

(***************************************************************************)
(* The fields of spec.App validation and dispatch look at; names, URLs,    *)
(* refs, paths and sizes are legible or not.  git, build, backing, service *)
(* dom and port say that the field is there.                               *)
(***************************************************************************)
Spec0 == [git: BOOLEAN, build: BOOLEAN, backing: BOOLEAN, service: BOOLEAN,
          dom: BOOLEAN, port: BOOLEAN, legible: BOOLEAN,
          image: Image \cup {None}, file: Path \cup {None},
          node: Nodes \cup {AnyNode}, reps: Int]

\* The column of a row that is older than it: nothing to unmarshal.
NoSpec == [git |-> FALSE, build |-> FALSE, backing |-> FALSE, service |-> FALSE,
           dom |-> FALSE, port |-> FALSE, legible |-> FALSE,
           image |-> None, file |-> None, node |-> AnyNode, reps |-> 0]

ASSUME SpecsAssumption == Texts \subseteq Spec0 /\ Counts \subseteq Int
ASSUME NamesAssumption == /\ AnyNode \notin Nodes /\ None \notin Image /\ None \notin Path
                          /\ None \notin Contents /\ TempFile \notin Files

VARIABLES
  rows,   \* the app's rows of the deployments table
  head,   \* the head of the app's branch, in its repository
  disk    \* what the user's compose files say, None if there is no such file

vars == <<rows, head, disk>>

(***************************************************************************)
(* A row: the Spec, Image, Compose and Scheduled columns, and whether it   *)
(* has a Replicas list (rows of older versions have none).  ask, of and    *)
(* old are history: the user's spec it goes back to, the row a rollback    *)
(* restored (0 if it is no rollback), and whether it goes back to a row of *)
(* an older version.                                                       *)
(***************************************************************************)
Row == [status: {"running", "failed", "retired"}, spec: Spec0, image: Image \cup {None},
        content: Contents \cup {None}, sched: BOOLEAN, listed: BOOLEAN,
        ask: Spec0, of: Nat, old: BOOLEAN]

-----------------------------------------------------------------------------
(* spec.go *)

\* Parse: a replica count that is not given is one.
Parse(text) == IF text.reps = 0 THEN [text EXCEPT !.reps = 1] ELSE text

ValidGit(s) == s.git /\ s.build /\ s.image = None /\ s.file = None /\ s.dom /\ s.port

ValidCompose(s) ==
  /\ ~s.git /\ s.file # None
  /\ s.service /\ s.dom /\ s.port /\ s.image = None /\ ~s.build
  /\ s.node \in {AnyNode, "local"}

ValidImage(s) == ~s.git /\ s.file = None /\ ~s.build /\ s.image # None /\ s.port

\* 0 means unset: Parse makes it 1, an old snapshot may still say it.
ValidReplicas(s) ==
  /\ s.reps \in 0..50
  /\ s.reps > 1 => s.file = None /\ ~s.backing

Valid(s) ==
  /\ s.legible
  /\ ValidGit(s) \/ ValidCompose(s) \/ ValidImage(s)
  /\ ValidReplicas(s)
  /\ s.backing => s.file = None

ASSUME LegacyAssumption ==
  Legacy \subseteq {s \in Spec0 : Valid(s) /\ s.file = None}

-----------------------------------------------------------------------------
(* store.go *)

Newest(status) ==
  LET ids == {i \in DOMAIN rows : rows[i].status = status} IN
  IF ids = {} THEN 0 ELSE CHOOSE i \in ids : \A j \in ids : j <= i

Current == Newest("running")
Previous == Newest("retired")

\* deployReplicaSet and applyCompose, as a whole: the candidate replaces the current
\* deployment, or fails, and is recorded as failed unless it failed very early.
Replace(row) ==
  rows' = Append([i \in DOMAIN rows |->
                    IF i = Current THEN [rows[i] EXCEPT !.status = "retired"] ELSE rows[i]], row)
Deploy(row) ==
  \/ Replace(row)
  \/ rows' = Append(rows, [row EXCEPT !.status = "failed"])

-----------------------------------------------------------------------------
(* reconciler.go *)

\* Without a snapshot a row is neither rolled back to nor scaled, moved or healed.
HasSnapshot(row) == row.spec # NoSpec

\* A deploy on behalf of src: the lineage it carries on.
New(s, image, content, sched, src) ==
  [status |-> "running", spec |-> s, image |-> image, content |-> content,
   sched |-> sched, listed |-> s.file = None, ask |-> src.ask, of |-> src.of, old |-> src.old]

\* resolvePlacement: a pinned app stays where its spec says.
Placements(s) == IF s.node # AnyNode THEN {s.node} ELSE Nodes
On(s, n) == [s EXCEPT !.node = n]
Pinned(row) == [row.spec EXCEPT !.image = row.image]
Unpinned(s) == [s EXCEPT !.image = None]

ApplyImage(s, sched, src) == \E n \in Placements(s) : Deploy(New(On(s, n), s.image, None, sched, src))

\* The image is built from the branch as it is now.
ApplyGit(s, src) ==
  \E n \in Placements(s) :
    Deploy(New(On(s, n), [commit |-> head], None, s.node = AnyNode, src))

\* The compose file is read as it is now; without one the attempt fails.
ApplyCompose(s, text, src) ==
  IF text = None
    THEN rows' = Append(rows, [New(s, s.image, None, FALSE, src) EXCEPT !.status = "failed"])
    ELSE Deploy(New(s, s.image, text, FALSE, src))

Apply(s, text, src) ==
  /\ Valid(s)
  /\ \/ s.git /\ ApplyGit(s, src)
     \/ ~s.git /\ s.file # None /\ ApplyCompose(s, text, src)
     \/ ~s.git /\ s.file = None /\ ApplyImage(s, s.node = AnyNode, src)

TextAt(path) == IF path \in Files THEN disk[path] ELSE None

\* Defect: the snapshot is validated with the image it has been pinned to.
RedeployableDefect(s) == Valid(s) /\ s.image # None

\* rollbackGitLocked, rollbackImage and the heals: a git app's image is that of its
\* last build, which its lwd.toml must not name.
Redeployable(s) ==
  IF s.git THEN Valid(Unpinned(s)) /\ s.image # None ELSE Valid(s)

\* The recorded image runs again, wherever s says.
Redeploy(s, sched, src) ==
  /\ Redeployable(s)
  /\ \/ s.git /\ Deploy(New(s, s.image, None, sched, src))
     \/ ~s.git /\ ApplyImage(s, sched, src)

\* Defect: the file is read where it was.
RollbackComposeDefect(row, src) == Apply(Pinned(row), TextAt(row.spec.file), src)

\* A compose app goes back to what its row says, from a temporary file.
RollbackCompose(row, src) ==
  Apply([Pinned(row) EXCEPT !.file = TempFile], row.content, src)

Rollback ==
  /\ Previous # 0
  /\ LET row == rows[Previous]
         src == [ask |-> row.ask, of |-> Previous, old |-> row.old] IN
     /\ HasSnapshot(row)
     /\ IF row.spec.file = None THEN Redeploy(Pinned(row), row.sched, src)
                                ELSE RollbackCompose(row, src)

-----------------------------------------------------------------------------
(* Requests, and what the reconcile loop does *)

Src(row) == [ask |-> row.ask, of |-> 0, old |-> row.old]

\* POST /apply: of a compose app the file is read where the spec says it is.
HandleApply ==
  /\ Len(rows) < MaxRows
  /\ \E text \in Texts :
       LET s == Parse(text) IN
       Apply(s, TextAt(s.file), [ask |-> s, of |-> 0, old |-> FALSE])
  /\ UNCHANGED <<head, disk>>

HandleRollback == Len(rows) < MaxRows /\ Rollback /\ UNCHANGED <<head, disk>>

\* Defect: the node the scheduler has chosen becomes the spec's.
ScaledDefect(row, k) == [row.spec EXCEPT !.reps = k]

\* handleScale: the snapshot, to be placed again if it has been placed by the scheduler.
Scaled(row, k) ==
  [row.spec EXCEPT !.reps = k, !.node = IF row.sched THEN AnyNode ELSE @]

HandleScale ==
  /\ Current # 0 /\ Len(rows) < MaxRows
  /\ HasSnapshot(rows[Current])
  /\ \E k \in Counts :
       /\ k >= 1
       /\ LET s == Scaled(rows[Current], k) IN
          Apply(s, TextAt(s.file), Src(rows[Current]))
  /\ UNCHANGED <<head, disk>>

\* What nodeFromSpec takes a row to run on.
NodeOf(row) == IF row.spec.node = AnyNode THEN "local" ELSE row.spec.node

\* rescheduleSurfaceLocked: a surface of one replica the scheduler has placed
\* leaves its node, drained or lost.
Reschedule ==
  /\ Current # 0 /\ Len(rows) < MaxRows
  /\ LET row == rows[Current] IN
     /\ row.sched /\ HasSnapshot(row) /\ row.spec.file = None /\ row.spec.reps <= 1
     /\ \E n \in Nodes \ {NodeOf(row)} : Redeploy(On(Pinned(row), n), TRUE, Src(row))
  /\ UNCHANGED <<head, disk>>

\* healSurfaceLocked: a dead surface whose row has no list of replicas.
HealSurface ==
  /\ Current # 0 /\ Len(rows) < MaxRows
  /\ LET row == rows[Current] IN
     /\ ~row.listed /\ HasSnapshot(row) /\ row.spec.file = None
     /\ Redeploy(Pinned(row), row.sched, Src(row))
  /\ UNCHANGED <<head, disk>>

\* DELETE: nothing runs any more, and the row can be rolled back to.
HandleDelete ==
  /\ Current # 0
  /\ rows' = [rows EXCEPT ![Current].status = "retired"]
  /\ UNCHANGED <<head, disk>>

\* The user commits, or writes or deletes a compose file.
Edit ==
  /\ \/ head' \in Commits /\ UNCHANGED disk
     \/ disk' \in [Files -> Contents \cup {None}] /\ UNCHANGED head
  /\ UNCHANGED rows

\* What the migrations make of the row an older version has left: it lists no
\* replicas, is not taken for scheduled, and may have no snapshot.
LegacyRow(s, image) ==
  [status |-> "running", spec |-> s, image |-> image, content |-> None, sched |-> FALSE,
   listed |-> FALSE, ask |-> s, of |-> 0, old |-> TRUE]
LegacyRows ==
  {LegacyRow(s, IF s.git THEN [commit |-> head] ELSE s.image) : s \in Legacy}
    \cup {LegacyRow(NoSpec, [ref |-> r]) : r \in Refs}

Init ==
  /\ head \in Commits
  /\ rows = <<>> \/ \E row \in LegacyRows : rows = <<row>>
  /\ disk \in [Files -> Contents \cup {None}]

Next == HandleApply \/ HandleRollback \/ HandleScale \/ Reschedule \/ HealSurface
        \/ HandleDelete \/ Edit

Spec == Init /\ [][Next]_vars

-----------------------------------------------------------------------------
(* Properties *)

TypeOK ==
  /\ rows \in Seq(Row)
  /\ head \in Commits
  /\ disk \in [Files -> Contents \cup {None}]
  /\ \A i \in DOMAIN rows : rows[i].of < i

\* Rows that have run.
Ran == {i \in DOMAIN rows : rows[i].status # "failed"}

(***************************************************************************)
(* A surface the user has left to the scheduler is known as such and may   *)
(* be moved, one the user has pinned stays where it has been pinned and is *)
(* never taken for one that may be moved, however often it is rolled back, *)
(* scaled and moved on the way (Scheduled, whose loss ends failover).      *)
(***************************************************************************)
ProvenanceKept ==
  \A i \in Ran :
    LET row == rows[i] IN
    row.spec.file = None /\ ~row.old =>
      /\ row.sched <=> row.ask.node = AnyNode
      /\ ~row.sched => row.spec.node = row.ask.node

(***************************************************************************)
(* Whatever has run and left a snapshot can run again: neither the image a *)
(* rollback has pinned a git app to, nor a compose file that is gone keeps *)
(* a row from being rolled back to, moved off a lost node or healed.  (The *)
(* row that was in the store before the spec column has none, and is       *)
(* refused all three: HasSnapshot.)                                        *)
(***************************************************************************)
NothingStranded ==
  \A i \in {j \in Ran : HasSnapshot(rows[j])} :
    /\ Redeployable(Pinned(rows[i]))
    /\ rows[i].spec.file # None => rows[i].content # None

(***************************************************************************)
(* A rollback brings back what ran: the image or the compose file, the     *)
(* number of replicas and the placement of the row it restores, whatever   *)
(* has become of the branch, the file and the table since.                 *)
(***************************************************************************)
RollbackRestores ==
  \A i \in Ran :
    rows[i].of # 0 /\ ~rows[i].old =>
      LET row == rows[rows[i].of] IN
      /\ rows[i].image = row.image /\ rows[i].content = row.content
      /\ rows[i].spec.reps = row.spec.reps /\ rows[i].spec.node = row.spec.node
=============================================================================
