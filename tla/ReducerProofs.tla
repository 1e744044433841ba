----------------------------- MODULE ReducerProofs -----------------------------
(***************************************************************************)
(* Proofs about the reducer, for any runs, nodes and times: what each step *)
(* does to the runs, their rows and the drives, the types, the shape of the*)
(* state, the rates of throttles and cooldowns, and, for one drive at a    *)
(* time, what a failed map node and a run that succeeded leave behind, and *)
(* that nobody is left behind.                                             *)
(***************************************************************************)
EXTENDS ReducerInvariants, FiniteSetTheorems, TLAPS

-------------------------------------------------------------------------------
(***************************************************************************)
(* How a step writes the record of a run.                                  *)
(***************************************************************************)

LEMMA Typed ==
    ASSUME TypeOK
    PROVE  /\ RunsTyped /\ RowsTyped /\ TriesBounded
           /\ \A e \in Engines : eng[e].run \in Runs /\ eng[e].frame \in Frames /\ eng[e].keep \in BOOLEAN
                                 /\ eng[e].verdict \in {"none"} \cup Terminal /\ eng[e].phase \in Phases
           /\ api.run \in Runs /\ record \in SharedRecords
           /\ \A r \in Runs : run[r] \in RunRecords
  BY DEF TypeOK, RunsTyped, RowsTyped, TriesBounded, DriveRecords, AnswerRecords

LEMMA Written ==
    ASSUME RunsTyped, NEW r \in Runs, NEW y \in RunRecords, run' = [run EXCEPT ![r] = y]
    PROVE  RunsTyped' /\ run'[r] = y /\ Apart(r)
  BY DEF RunsTyped, Apart

LEMMA ApartIsLike ==
    ASSUME NEW r \in Runs, Apart(r)
    PROVE  LikeApart(r)
  BY DEF Apart, LikeApart, Like, Keeps

\* The one-field writes.
LEMMA StatusWritten ==
    ASSUME RunsTyped, NEW r \in Runs, NEW s \in Statuses, run' = [run EXCEPT ![r].status = s]
    PROVE  RunsTyped' /\ Keeps(r, {"status"}) /\ run'[r].status = s /\ Apart(r)
<1> DEFINE y == [run[r] EXCEPT !.status = s]
<1>1. y \in RunRecords /\ y.status = s /\ \A f \in Fields \ {"status"} : y[f] = run[r][f]
  BY DEF RunsTyped, RunRecords, Fields
<1>2. run' = [run EXCEPT ![r] = y]
  OBVIOUS
<1> HIDE DEF y
<1> QED BY <1>1, <1>2, Written DEF Keeps

LEMMA NodeWritten ==
    ASSUME RunsTyped, NEW r \in Runs, NEW n \in NodeStatuses, run' = [run EXCEPT ![r].node = n]
    PROVE  RunsTyped' /\ Keeps(r, {"node"}) /\ run'[r].node = n /\ Apart(r)
<1> DEFINE y == [run[r] EXCEPT !.node = n]
<1>1. y \in RunRecords /\ y.node = n /\ \A f \in Fields \ {"node"} : y[f] = run[r][f]
  BY DEF RunsTyped, RunRecords, Fields
<1>2. run' = [run EXCEPT ![r] = y]
  OBVIOUS
<1> HIDE DEF y
<1> QED BY <1>1, <1>2, Written DEF Keeps

LEMMA BodyWritten ==
    ASSUME RunsTyped, NEW r \in Runs, NEW b \in {"busy", "succeeded", "failed"},
           run' = [run EXCEPT ![r].body = b]
    PROVE  RunsTyped' /\ Keeps(r, {"body"}) /\ run'[r].body = b /\ Apart(r)
<1> DEFINE y == [run[r] EXCEPT !.body = b]
<1>1. y \in RunRecords /\ y.body = b /\ \A f \in Fields \ {"body"} : y[f] = run[r][f]
  BY DEF RunsTyped, RunRecords, Fields
<1>2. run' = [run EXCEPT ![r] = y]
  OBVIOUS
<1> HIDE DEF y
<1> QED BY <1>1, <1>2, Written DEF Keeps

LEMMA SinceWritten ==
    ASSUME RunsTyped, NEW r \in Runs, run' = [run EXCEPT ![r].since = 0]
    PROVE  RunsTyped' /\ Keeps(r, {"since"}) /\ run'[r].since = 0 /\ Apart(r)
<1> DEFINE y == [run[r] EXCEPT !.since = 0]
<1>1. y \in RunRecords /\ y.since = 0 /\ \A f \in Fields \ {"since"} : y[f] = run[r][f]
  BY TimeAssumption DEF RunsTyped, RunRecords, Fields
<1>2. run' = [run EXCEPT ![r] = y]
  OBVIOUS
<1> HIDE DEF y
<1> QED BY <1>1, <1>2, Written DEF Keeps

LEMMA Marked ==
    ASSUME NEW x \in RunRecords
    PROVE  LET m == [x EXCEPT !.hole = TRUE]
           IN m \in RunRecords /\ m.hole /\ \A f \in Fields \ {"hole"} : m[f] = x[f]
  BY DEF RunRecords, Fields

LEMMA HoleEffect ==
    ASSUME RunsTyped, NEW r \in Runs
    PROVE  /\ Hole(r) \in [Runs -> RunRecords]
           /\ \A q \in Runs : \A f \in Fields \ {"hole"} : Hole(r)[q][f] = run[q][f]
           /\ Hole(r)[r].hole /\ Hole(r)[run[r].parent].hole
           /\ \A q \in Runs : run[q].hole => Hole(r)[q].hole
           /\ \A q \in Runs : q # r /\ q # run[r].parent => Hole(r)[q] = run[q]
<1> DEFINE m(x) == [x EXCEPT !.hole = TRUE]
<1> DEFINE p == run[r].parent
<1>1. \A x \in RunRecords : m(x) \in RunRecords /\ m(x).hole /\ \A f \in Fields \ {"hole"} : m(x)[f] = x[f]
  BY Marked
<1>2. p \in Runs /\ \A q \in Runs : run[q] \in RunRecords
  BY DEF RunsTyped, RunRecords
<1>3. Hole(r) = [[run EXCEPT ![r] = m(run[r])] EXCEPT ![p] = m([run EXCEPT ![r] = m(run[r])][p])]
  BY <1>2 DEF Hole, RunsTyped
<1> HIDE DEF m, p
<1>4. CASE p = r
  <2>1. [run EXCEPT ![r] = m(run[r])][p] = m(run[r])
    BY <1>4 DEF RunsTyped
  <2>2. Hole(r) = [[run EXCEPT ![r] = m(run[r])] EXCEPT ![r] = m(m(run[r]))]
    BY <1>3, <1>4, <2>1
  <2>3. /\ Hole(r)[r] = m(m(run[r])) /\ \A q \in Runs : q # r => Hole(r)[q] = run[q]
        /\ DOMAIN Hole(r) = Runs /\ Hole(r) = [q \in Runs |-> Hole(r)[q]]
    BY <2>2 DEF RunsTyped
  <2>4. m(run[r]) \in RunRecords
    BY <1>1, <1>2
  <2>5. /\ m(m(run[r])) \in RunRecords /\ m(m(run[r])).hole
        /\ \A f \in Fields \ {"hole"} : m(m(run[r]))[f] = run[r][f]
    BY <1>1, <1>2, <2>4
  <2> QED BY <1>2, <1>4, <2>3, <2>5 DEF p
<1>5. CASE p # r
  <2>1. [run EXCEPT ![r] = m(run[r])][p] = run[p]
    BY <1>2, <1>5 DEF RunsTyped
  <2>2. Hole(r) = [[run EXCEPT ![r] = m(run[r])] EXCEPT ![p] = m(run[p])]
    BY <1>3, <2>1
  <2>3. /\ Hole(r)[r] = m(run[r]) /\ Hole(r)[p] = m(run[p])
        /\ \A q \in Runs : q # r /\ q # p => Hole(r)[q] = run[q]
        /\ DOMAIN Hole(r) = Runs /\ Hole(r) = [q \in Runs |-> Hole(r)[q]]
    BY <1>2, <1>5, <2>2 DEF RunsTyped
  <2>4. \A q \in {r, p} : /\ m(run[q]) \in RunRecords /\ m(run[q]).hole
                          /\ \A f \in Fields \ {"hole"} : m(run[q])[f] = run[q][f]
    BY <1>1, <1>2
  <2>5. \A q \in Runs : Hole(r)[q] \in RunRecords
    BY <1>2, <2>3, <2>4
  <2> QED BY <1>2, <1>5, <2>3, <2>4, <2>5 DEF p
<1> QED BY <1>4, <1>5

LEMMA HoleWritten ==
    ASSUME RunsTyped, NEW r \in Runs, run' = Hole(r)
    PROVE  RunsTyped' /\ Like(r) /\ LikeApart(r) /\ Holed(r)
<1>1. RunsTyped'
  BY HoleEffect DEF RunsTyped
<1> QED BY <1>1, HoleEffect DEF Like, Keeps, LikeApart, Holed

\* A status that is written with the hole: the run fails, or is canceled.
LEMMA StatusHoled ==
    ASSUME RunsTyped, NEW r \in Runs, NEW s \in Statuses, run' = [Hole(r) EXCEPT ![r].status = s]
    PROVE  /\ RunsTyped' /\ Keeps(r, {"status", "hole"}) /\ run'[r].status = s
           /\ LikeApart(r) /\ Holed(r)
<1> DEFINE h == Hole(r)
<1> DEFINE y == [h[r] EXCEPT !.status = s]
<1>1. /\ h \in [Runs -> RunRecords]
      /\ \A q \in Runs : \A f \in Fields \ {"hole"} : h[q][f] = run[q][f]
      /\ h[r].hole /\ h[run[r].parent].hole
      /\ \A q \in Runs : run[q].hole => h[q].hole
      /\ \A q \in Runs : q # r /\ q # run[r].parent => h[q] = run[q]
  BY HoleEffect
<1>2. run' = [h EXCEPT ![r] = y]
  BY <1>1
<1>3. y \in RunRecords /\ y.status = s /\ \A f \in Fields \ {"status"} : y[f] = h[r][f]
  BY <1>1 DEF RunRecords, Fields
<1> HIDE DEF h, y
<1>4. run' \in [Runs -> RunRecords] /\ run'[r] = y /\ \A q \in Runs : q # r => run'[q] = h[q]
  BY <1>1, <1>2, <1>3
<1>5. y.hole /\ run[r].parent \in Runs
  BY <1>3, <1>1 DEF Fields, RunsTyped, RunRecords
<1>6. Keeps(r, {"status", "hole"})
  BY <1>1, <1>3, <1>4 DEF Keeps
<1>8. Holed(r)
  BY <1>1, <1>4, <1>5 DEF Holed
<1>7. LikeApart(r)
  BY <1>1, <1>4 DEF Like, Keeps, LikeApart
<1> QED BY <1>3, <1>4, <1>6, <1>7, <1>8 DEF RunsTyped

\* The node run of a visit is created, parked, linked or answered; a run ends or is skipped.
LEMMA NodeCreated ==
    ASSUME TypeOK, NEW e \in Engines, NEW next, create_workflow_node_run(e, next), NEW r, r = eng[e].run
    PROVE  /\ RunsTyped' /\ Keeps(r, {"node", "tries", "age"}) /\ Apart(r)
           /\ run'[r].node = "queued" /\ run'[r].tries = 0 /\ run'[r].age = 0
<1>0. RunsTyped /\ r \in Runs /\ run[r] \in RunRecords /\ "queued" \in NodeStatuses /\ 0 \in 0..Timeout
  BY Typed, TimeAssumption DEF RunsTyped, NodeStatuses, Statuses, Terminal, NoFrame, Frames, RunRecords
<1> DEFINE y == [run[r] EXCEPT !.node = "queued", !.tries = 0, !.age = 0]
<1>1. /\ y \in RunRecords /\ y.node = "queued" /\ y.tries = 0 /\ y.age = 0
      /\ \A f \in Fields \ {"node", "tries", "age"} : y[f] = run[r][f]
  BY <1>0 DEF RunRecords, Fields
<1>2. run' = [run EXCEPT ![r] = y]
  BY <1>0 DEF RunsTyped, create_workflow_node_run
<1> HIDE DEF y
<1>3. RunsTyped' /\ run'[r] = y /\ Apart(r)
  <2>1. RunsTyped /\ r \in Runs /\ y \in RunRecords
    BY <1>0, <1>1
  <2> QED BY <1>2, <2>1, Written
<1> QED BY <1>1, <1>3 DEF Keeps

LEMMA AwaitCreated ==
    ASSUME TypeOK, NEW e \in Engines, CreateWaiting(e),
           def.kind = "await_run", satisfaction_met, NEW r, r = eng[e].run
    PROVE  /\ RunsTyped' /\ Keeps(r, {"node", "age"}) /\ Apart(r)
           /\ run'[r].node = "queued" /\ run'[r].age = 0
<1>0. RunsTyped /\ r \in Runs /\ run[r] \in RunRecords /\ "queued" \in NodeStatuses /\ 0 \in 0..Timeout
  BY Typed, TimeAssumption DEF RunsTyped, NodeStatuses, Statuses, Terminal, NoFrame, Frames, RunRecords
<1> DEFINE y == [run[r] EXCEPT !.node = "queued", !.age = 0]
<1>1. /\ y \in RunRecords /\ y.node = "queued" /\ y.age = 0
      /\ \A f \in Fields \ {"node", "age"} : y[f] = run[r][f]
  BY <1>0 DEF RunRecords, Fields
<1>2. run' = [run EXCEPT ![r] = y]
  BY <1>0 DEF RunsTyped, CreateWaiting
<1> HIDE DEF y
<1>3. RunsTyped' /\ run'[r] = y /\ Apart(r)
  <2>1. RunsTyped /\ r \in Runs /\ y \in RunRecords
    BY <1>0, <1>1
  <2> QED BY <1>2, <2>1, Written
<1> QED BY <1>1, <1>3 DEF Keeps

LEMMA SubflowCreated ==
    ASSUME TypeOK, NEW e \in Engines, CreateSubflow(e), NEW r, r = eng[e].run
    PROVE  /\ RunsTyped' /\ Keeps(r, {"node", "tries", "age", "frame"}) /\ Apart(r)
           /\ run'[r].node = "queued" /\ run'[r].tries = 0 /\ run'[r].age = 0
           /\ run'[r].frame = NoFrame
<1>0. RunsTyped /\ r \in Runs /\ run[r] \in RunRecords /\ NoFrame \in Frames /\ "queued" \in NodeStatuses /\ 0 \in 0..Timeout
  BY Typed, TimeAssumption DEF RunsTyped, NodeStatuses, Statuses, Terminal, NoFrame, Frames, RunRecords
<1> DEFINE y == [run[r] EXCEPT !.node = "queued", !.tries = 0, !.age = 0, !.frame = NoFrame]
<1>1. /\ y \in RunRecords /\ y.node = "queued" /\ y.tries = 0 /\ y.age = 0 /\ y.frame = NoFrame
      /\ \A f \in Fields \ {"node", "tries", "age", "frame"} : y[f] = run[r][f]
  BY <1>0 DEF RunRecords, Fields
<1>2. run' = [run EXCEPT ![r] = y]
  BY <1>0 DEF RunsTyped, CreateSubflow
<1> HIDE DEF y
<1>3. RunsTyped' /\ run'[r] = y /\ Apart(r)
  <2>1. RunsTyped /\ r \in Runs /\ y \in RunRecords
    BY <1>0, <1>1
  <2> QED BY <1>2, <2>1, Written
<1> QED BY <1>1, <1>3 DEF Keeps

LEMMA Linked ==
    ASSUME TypeOK, NEW e \in Engines, LinkSubflow(e), NEW r, r = eng[e].run, NEW fr, fr = eng[e].frame
    PROVE  /\ RunsTyped' /\ Keeps(r, {"node", "frame"}) /\ Apart(r)
           /\ run'[r].node = "succeeded" /\ run'[r].frame = fr
<1>0. RunsTyped /\ r \in Runs /\ run[r] \in RunRecords /\ "succeeded" \in NodeStatuses /\ fr \in Frames
  BY Typed, TimeAssumption DEF RunsTyped, NodeStatuses, Statuses, Terminal, NoFrame, Frames, RunRecords
<1> DEFINE y == [run[r] EXCEPT !.node = "succeeded", !.frame = fr]
<1>1. /\ y \in RunRecords /\ y.node = "succeeded" /\ y.frame = fr
      /\ \A f \in Fields \ {"node", "frame"} : y[f] = run[r][f]
  BY <1>0 DEF RunRecords, Fields
<1>2. run' = [run EXCEPT ![r] = y]
  BY <1>0 DEF RunsTyped, LinkSubflow
<1> HIDE DEF y
<1>3. RunsTyped' /\ run'[r] = y /\ Apart(r)
  <2>1. RunsTyped /\ r \in Runs /\ y \in RunRecords
    BY <1>0, <1>1
  <2> QED BY <1>2, <2>1, Written
<1> QED BY <1>1, <1>3 DEF Keeps

LEMMA RunParked ==
    ASSUME TypeOK, NEW e \in Engines, ParkRun(e), NEW r, r = eng[e].run,
           NEW fr, fr = IF def.kind = "map" THEN eng[e].frame ELSE run[r].frame
    PROVE  /\ RunsTyped' /\ Keeps(r, {"status", "frame"}) /\ Apart(r)
           /\ run'[r].status = "waiting" /\ run'[r].frame = fr
<1>0. RunsTyped /\ r \in Runs /\ run[r] \in RunRecords /\ "waiting" \in Statuses /\ fr \in Frames
  BY Typed, TimeAssumption DEF RunsTyped, NodeStatuses, Statuses, Terminal, NoFrame, Frames, RunRecords
<1> DEFINE y == [run[r] EXCEPT !.status = "waiting", !.frame = fr]
<1>1. /\ y \in RunRecords /\ y.status = "waiting" /\ y.frame = fr
      /\ \A f \in Fields \ {"status", "frame"} : y[f] = run[r][f]
  BY <1>0 DEF RunRecords, Fields
<1>2. run' = [run EXCEPT ![r] = y]
  BY <1>0 DEF RunsTyped, ParkRun
<1> HIDE DEF y
<1>3. RunsTyped' /\ run'[r] = y /\ Apart(r)
  <2>1. RunsTyped /\ r \in Runs /\ y \in RunRecords
    BY <1>0, <1>1
  <2> QED BY <1>2, <2>1, Written
<1> QED BY <1>1, <1>3 DEF Keeps

LEMMA RunEnded ==
    ASSUME TypeOK, NEW e \in Engines, FinishRun(e), NEW r, r = eng[e].run,
           NEW s \in Statuses, s = eng[e].verdict,
           NEW b \in BOOLEAN, b = (run[r].passed \/ eng[e].verdict = "succeeded")
    PROVE  /\ RunsTyped' /\ Keeps(r, {"status", "passed"}) /\ Apart(r)
           /\ run'[r].status = s /\ run'[r].passed = b
<1>0. RunsTyped /\ r \in Runs /\ run[r] \in RunRecords
  BY Typed, TimeAssumption DEF RunsTyped, NodeStatuses, Statuses, Terminal, NoFrame, Frames, RunRecords
<1> DEFINE y == [run[r] EXCEPT !.status = s, !.passed = b]
<1>1. /\ y \in RunRecords /\ y.status = s /\ y.passed = b
      /\ \A f \in Fields \ {"status", "passed"} : y[f] = run[r][f]
  BY <1>0 DEF RunRecords, Fields
<1>2. run' = [run EXCEPT ![r] = y]
  BY <1>0 DEF RunsTyped, FinishRun
<1> HIDE DEF y
<1>3. RunsTyped' /\ run'[r] = y /\ Apart(r)
  <2>1. RunsTyped /\ r \in Runs /\ y \in RunRecords
    BY <1>0, <1>1
  <2> QED BY <1>2, <2>1, Written
<1> QED BY <1>1, <1>3 DEF Keeps

LEMMA NodeAnswered ==
    ASSUME TypeOK, AnswerNode, NEW r, r = api.run,
           NEW n \in NodeStatuses, n = api.verdict,
           NEW b \in BOOLEAN, b = (run[r].answered \/ api.verdict = "succeeded")
    PROVE  /\ RunsTyped' /\ Keeps(r, {"node", "answered"}) /\ Apart(r)
           /\ run'[r].node = n /\ run'[r].answered = b
<1>0. RunsTyped /\ r \in Runs /\ run[r] \in RunRecords
  BY Typed, TimeAssumption DEF RunsTyped, NodeStatuses, Statuses, Terminal, NoFrame, Frames, RunRecords
<1> DEFINE y == [run[r] EXCEPT !.node = n, !.answered = b]
<1>1. /\ y \in RunRecords /\ y.node = n /\ y.answered = b
      /\ \A f \in Fields \ {"node", "answered"} : y[f] = run[r][f]
  BY <1>0 DEF RunRecords, Fields
<1>2. run' = [run EXCEPT ![r] = y]
  BY <1>0 DEF RunsTyped, AnswerNode
<1> HIDE DEF y
<1>3. RunsTyped' /\ run'[r] = y /\ Apart(r)
  <2>1. RunsTyped /\ r \in Runs /\ y \in RunRecords
    BY <1>0, <1>1
  <2> QED BY <1>2, <2>1, Written
<1> QED BY <1>1, <1>3 DEF Keeps

LEMMA RunAnswered ==
    ASSUME TypeOK, AnswerRun, NEW r, r = api.run,
           NEW s \in Statuses, s = (IF api.verdict = "succeeded" THEN "running" ELSE "blocked"),
           NEW b \in BOOLEAN, b = (run[r].hole \/ ~Active(r))
    PROVE  /\ RunsTyped' /\ Keeps(r, {"status", "hole"}) /\ Apart(r)
           /\ run'[r].status = s /\ run'[r].hole = b
<1>0. RunsTyped /\ r \in Runs /\ run[r] \in RunRecords
  BY Typed, TimeAssumption DEF RunsTyped, NodeStatuses, Statuses, Terminal, NoFrame, Frames, RunRecords
<1> DEFINE y == [run[r] EXCEPT !.status = s, !.hole = b]
<1>1. /\ y \in RunRecords /\ y.status = s /\ y.hole = b
      /\ \A f \in Fields \ {"status", "hole"} : y[f] = run[r][f]
  BY <1>0 DEF RunRecords, Fields
<1>2. run' = [run EXCEPT ![r] = y]
  BY <1>0 DEF RunsTyped, AnswerRun
<1> HIDE DEF y
<1>3. RunsTyped' /\ run'[r] = y /\ Apart(r)
  <2>1. RunsTyped /\ r \in Runs /\ y \in RunRecords
    BY <1>0, <1>1
  <2> QED BY <1>2, <2>1, Written
<1> QED BY <1>1, <1>3 DEF Keeps

LEMMA ChildSpawned ==
    ASSUME RunsTyped, NEW r \in Runs, NEW c \in Runs, NEW i \in Nat, run' = Spawned(r, c, i)
    PROVE  /\ RunsTyped' /\ Keeps(c, {"status", "parent", "linked", "body", "index", "node"}) /\ Apart(c)
           /\ run'[c].status = "queued" /\ run'[c].parent = r /\ run'[c].linked
           /\ run'[c].body = "todo" /\ run'[c].index = i
           /\ run'[c].node = IF def.kind = "map" THEN "succeeded" ELSE "none"
<1> DEFINE n == IF def.kind = "map" THEN "succeeded" ELSE "none"
<1> DEFINE y == [run[c] EXCEPT !.status = "queued", !.parent = r, !.linked = TRUE,
                               !.body = "todo", !.index = i, !.node = n]
<1>0. run[c] \in RunRecords /\ n \in NodeStatuses /\ "queued" \in Statuses
  BY Typed, TimeAssumption DEF RunsTyped, NodeStatuses, Statuses, Terminal
<1>2. run' = [run EXCEPT ![c] = y]
  BY DEF RunsTyped, Spawned
<1> HIDE DEF n
<1>1. /\ y \in RunRecords /\ y.status = "queued" /\ y.parent = r /\ y.linked
      /\ y.body = "todo" /\ y.index = i /\ y.node = n
      /\ \A f \in Fields \ {"status", "parent", "linked", "body", "index", "node"} : y[f] = run[c][f]
  BY <1>0 DEF RunRecords, Fields
<1> HIDE DEF y
<1> QED BY <1>1, <1>2, Written DEF Keeps, n

\* A body that parks loses the link.
LEMMA LinkLost ==
    ASSUME TypeOK, NEW e \in Engines, StartBody(e), def.body = "parks", NEW r, r = eng[e].run
    PROVE  /\ RunsTyped' /\ Keeps(r, {"body", "linked", "hole"}) /\ LikeApart(r) /\ Holed(r)
           /\ run'[r].body = "busy" /\ ~run'[r].linked
<1> USE Typed
<1> DEFINE h == Hole(r)
<1> DEFINE y == [h[r] EXCEPT !.body = "busy", !.linked = FALSE]
<1>1. /\ h \in [Runs -> RunRecords]
      /\ \A q \in Runs : \A f \in Fields \ {"hole"} : h[q][f] = run[q][f]
      /\ h[r].hole /\ h[run[r].parent].hole
      /\ \A q \in Runs : run[q].hole => h[q].hole
      /\ \A q \in Runs : q # r /\ q # run[r].parent => h[q] = run[q]
  BY HoleEffect
<1>2. run' = [h EXCEPT ![r] = y] /\ r \in Runs
  BY <1>1 DEF StartBody
<1>0. h[r] \in RunRecords
  BY <1>1
<1> HIDE DEF h
<1>3. /\ y \in RunRecords /\ y.body = "busy" /\ ~y.linked
      /\ \A f \in Fields \ {"body", "linked"} : y[f] = h[r][f]
  BY <1>0 DEF RunRecords, Fields
<1> HIDE DEF h, y
<1>4. run' \in [Runs -> RunRecords] /\ run'[r] = y /\ \A q \in Runs : q # r => run'[q] = h[q]
  BY <1>1, <1>2, <1>3
<1>5. y.hole /\ run[r].parent \in Runs
  BY <1>3, <1>1 DEF Fields, RunsTyped, RunRecords
<1>6. Keeps(r, {"body", "linked", "hole"})
  BY <1>1, <1>3, <1>4 DEF Keeps
<1>7. Holed(r)
  BY <1>1, <1>4, <1>5 DEF Holed
<1>8. LikeApart(r)
  BY <1>1, <1>4 DEF Like, Keeps, LikeApart
<1> QED BY <1>3, <1>4, <1>6, <1>7, <1>8 DEF RunsTyped

\* A parked node run: an answer that was overwritten leaves a hole.
LEMMA NodeParked ==
    ASSUME TypeOK, NEW e \in Engines, ParkNode(e), NEW r, r = eng[e].run
    PROVE  /\ RunsTyped' /\ Keeps(r, {"node", "tries", "age", "frame", "hole"}) /\ LikeApart(r)
           /\ run'[r].node = "parked"
           /\ run'[r].tries = IF run[r].tries < def.attempts THEN run[r].tries + 1 ELSE run[r].tries
           /\ run'[r].age = IF def.kind = "map" THEN 0 ELSE run[r].age
           /\ run'[r].frame = IF def.kind = "subflow" THEN eng[e].frame ELSE run[r].frame
           /\ run[r].hole => run'[r].hole
           /\ run[r].node \in {"queued", "parked"} => Apart(r) /\ run'[r].hole = run[r].hole
           /\ run[r].node \notin {"queued", "parked"} => Holed(r)
<1> DEFINE h == IF run[r].node \in {"queued", "parked"} THEN run ELSE Hole(r)
<1> DEFINE t == IF run[r].tries < def.attempts THEN run[r].tries + 1 ELSE run[r].tries
<1> DEFINE a == IF def.kind = "map" THEN 0 ELSE run[r].age
<1> DEFINE fr == IF def.kind = "subflow" THEN eng[e].frame ELSE run[r].frame
<1> DEFINE y == [h[r] EXCEPT !.node = "parked", !.tries = t, !.age = a, !.frame = fr]
<1>0. /\ r \in Runs /\ RunsTyped /\ t \in Nat /\ a \in 0..Timeout /\ fr \in Frames
      /\ "parked" \in NodeStatuses
  BY TimeAssumption DEF TypeOK, DriveRecords, RunsTyped, RunRecords, NodeStatuses
<1>1. /\ h \in [Runs -> RunRecords]
      /\ \A q \in Runs : \A f \in Fields \ {"hole"} : h[q][f] = run[q][f]
      /\ \A q \in Runs : run[q].hole => h[q].hole
      /\ \A q \in Runs : q # r /\ q # run[r].parent => h[q] = run[q]
      /\ run[r].node \notin {"queued", "parked"} => h[r].hole /\ h[run[r].parent].hole
      /\ run[r].node \in {"queued", "parked"} => h = run
  BY <1>0, HoleEffect DEF RunsTyped
<1>2. h[r].tries = run[r].tries /\ h[r].age = run[r].age /\ h[r].frame = run[r].frame
  BY <1>0, <1>1 DEF Fields
<1>3. run' = [h EXCEPT ![r] = y]
  BY <1>0, <1>1, <1>2 DEF ParkNode
<1>4. h[r] \in RunRecords
  BY <1>0, <1>1
<1> HIDE DEF h, t, a, fr
<1>5. /\ y \in RunRecords /\ y.node = "parked" /\ y.tries = t /\ y.age = a /\ y.frame = fr
      /\ \A f \in Fields \ {"node", "tries", "age", "frame"} : y[f] = h[r][f]
  BY <1>0, <1>4 DEF RunRecords, Fields
<1> HIDE DEF y
<1>6. run' \in [Runs -> RunRecords] /\ run'[r] = y /\ \A q \in Runs : q # r => run'[q] = h[q]
  BY <1>0, <1>1, <1>3, <1>5
<1>7. y.hole = h[r].hole /\ run[r].parent \in Runs
  BY <1>5, <1>0 DEF Fields, RunsTyped, RunRecords
<1>8. Keeps(r, {"node", "tries", "age", "frame", "hole"})
  BY <1>0, <1>1, <1>5, <1>6 DEF Keeps
<1>9. LikeApart(r)
  BY <1>1, <1>6 DEF Like, Keeps, LikeApart
<1>10. run[r].node \in {"queued", "parked"} => Apart(r) /\ run'[r].hole = run[r].hole
  BY <1>1, <1>6, <1>7 DEF Apart
<1>11. run[r].node \notin {"queued", "parked"} => Holed(r)
  BY <1>0, <1>1, <1>6, <1>7 DEF Holed
<1>12. run[r].hole => run'[r].hole
  BY <1>0, <1>1, <1>6, <1>7
<1> QED BY <1>5, <1>6, <1>8, <1>9, <1>10, <1>11, <1>12 DEF RunsTyped, t, a, fr

-------------------------------------------------------------------------------
(***************************************************************************)
(* How a step moves a drive and writes the rows of a run.                  *)
(***************************************************************************)

LEMMA MovesTo ==
    ASSUME TypeOK, NEW e \in Engines, NEW p \in Phases, eng' = To(e, p)
    PROVE  Moves(e, p, eng[e].verdict, eng[e].frame) /\ eng'[e].keep = eng[e].keep
  BY DEF TypeOK, To, Moves, DriveRecords

LEMMA MovesToSettle ==
    ASSUME TypeOK, NEW e \in Engines, NEW v \in Terminal, eng' = Settle(e, v)
    PROVE  Moves(e, "settle", v, eng[e].frame)
  BY DEF TypeOK, Settle, Moves, DriveRecords, Phases

LEMMA MovesToDone ==
    ASSUME TypeOK, NEW e \in Engines, NEW k \in BOOLEAN, eng' = Done(e, k)
    PROVE  Moves(e, "done", eng[e].verdict, eng[e].frame) /\ eng'[e].keep = k
  BY DEF TypeOK, Done, Moves, DriveRecords, Phases

LEMMA IdleType == Idle \in DriveRecords /\ NoFrame \in Frames
  BY RunsAssumption DEF Idle, DriveRecords, Phases, NoFrame, Frames

LEMMA Rests ==
    ASSUME TypeOK, NEW e \in Engines, eng' = [eng EXCEPT ![e] = Idle]
    PROVE  /\ eng' \in [Engines -> DriveRecords] /\ eng'[e] = Idle
           /\ \A d \in Engines : d # e => eng'[d] = eng[d]
  BY IdleType DEF TypeOK

LEMMA Enqueued ==
    ASSUME RowsTyped, NEW r \in Runs, NEW delay \in 0..Timeout, rows' = enqueue_ready_node(r, delay)
    PROVE  RowsTyped' /\ RowsApart(r) /\ rows'[r].claimed = {} /\ HasRow(r)'
<1> DEFINE w == [due |-> IF delay = 0 THEN 1 ELSE 0, claimed |-> {},
                 timers |-> rows[r].timers \cup ({delay} \ {0})]
<1>1. rows[r].timers \subseteq 1..Timeout /\ {delay} \ {0} \subseteq 1..Timeout
  BY TimeAssumption DEF RowsTyped, RowRecords
<1>2. w \in RowRecords
  BY <1>1 DEF RowRecords
<1>3. rows' = [rows EXCEPT ![r] = w]
  BY DEF enqueue_ready_node, RowsTyped
<1>4. w.claimed = {} /\ (w.due > 0 \/ w.timers # {})
  OBVIOUS
<1> HIDE DEF w
<1> QED BY <1>2, <1>3, <1>4 DEF RowsTyped, RowsApart, HasRow

LEMMA NoRowsType == NoRows \in RowRecords /\ [NoRows EXCEPT !.due = 1] \in RowRecords
                    /\ [NoRows EXCEPT !.due = 1].due = 1 /\ [NoRows EXCEPT !.due = 1].claimed = {}
                    /\ NoRows.claimed = {} /\ NoRows.due = 0 /\ NoRows.timers = {}
  BY DEF NoRows, RowRecords

LEMMA EmptyRow ==
    ASSUME NEW w \in RowRecords, w.due = 0, w.claimed = {}, w.timers = {}
    PROVE  w = NoRows
  BY DEF NoRows, RowRecords

LEMMA Cleared ==
    ASSUME RowsTyped, NEW r \in Runs, rows' = [rows EXCEPT ![r] = NoRows]
    PROVE  RowsTyped' /\ RowsApart(r) /\ rows'[r] = NoRows
  BY NoRowsType DEF RowsTyped, RowsApart

LEMMA RowStarted ==
    ASSUME RowsTyped, NEW r \in Runs, rows' = [rows EXCEPT ![r] = [NoRows EXCEPT !.due = 1]]
    PROVE  RowsTyped' /\ RowsApart(r) /\ rows'[r].due = 1 /\ rows'[r].claimed = {}
  BY NoRowsType DEF RowsTyped, RowsApart

\* A row that is released or completed, or that lapses.
LEMMA Released ==
    ASSUME RowsTyped, NEW r \in Runs, NEW e \in Engines, NEW g \in BOOLEAN,
           rows' = [rows EXCEPT ![r].claimed = @ \ {e}, ![r].due = IF g /\ @ < 2 THEN @ + 1 ELSE @]
    PROVE  /\ RowsTyped' /\ RowsApart(r) /\ rows'[r].claimed = rows[r].claimed \ {e}
           /\ HasRow(r) \/ g => HasRow(r)'
           /\ rows[r].due = 0 /\ ~g => rows'[r].due = 0
           /\ rows'[r].timers = rows[r].timers
<1> DEFINE n == IF g /\ rows[r].due < 2 THEN rows[r].due + 1 ELSE rows[r].due
<1> DEFINE w == [rows[r] EXCEPT !.claimed = @ \ {e}, !.due = n]
<1>1. rows[r] \in RowRecords /\ n \in 0..2 /\ (g \/ rows[r].due > 0 => n > 0) /\ (rows[r].due = 0 /\ ~g => n = 0)
  BY DEF RowsTyped, RowRecords
<1>2. rows' = [rows EXCEPT ![r] = w]
  BY DEF RowsTyped
<1> HIDE DEF n
<1>3. /\ w \in RowRecords /\ w.claimed = rows[r].claimed \ {e} /\ w.due = n /\ w.timers = rows[r].timers
  BY <1>1 DEF RowRecords
<1> HIDE DEF w
<1>4. rows'[r] = w
  BY <1>2 DEF RowsTyped
<1> QED BY <1>1, <1>2, <1>3, <1>4 DEF RowsTyped, RowsApart, HasRow

-------------------------------------------------------------------------------
(***************************************************************************)
(* Types.                                                                  *)
(***************************************************************************)
LEMMA TriesKept ==
    ASSUME TypeOK, UNCHANGED def, NEW r \in Runs, NEW S, "tries" \notin S, Keeps(r, S), LikeApart(r)
    PROVE  TriesBounded'
  BY DEF TypeOK, TriesBounded, Keeps, LikeApart, Like, Fields

LEMMA DriveTypes ==
    ASSUME TypeOK, UNCHANGED <<def, api, budget>>, RunsTyped', TriesBounded', RowsTyped', ClaimsOnly,
           record' \in SharedRecords,
           NEW e \in Engines, eng[e].phase # "idle",
           NEW p, p # "idle", NEW v, NEW fr, Moves(e, p, v, fr), p \in {"settle", "finish"} => v # "none"
    PROVE  TypeOK'
<1>1. ClaimsAreDriven'
  BY DEF TypeOK, ClaimsAreDriven, ClaimsOnly, Moves, RowsTyped, RowRecords
<1>2. VerdictsAreGiven'
  BY DEF TypeOK, VerdictsAreGiven, Moves
<1> QED BY <1>1, <1>2 DEF TypeOK, RunsTyped, TriesBounded, RowsTyped, Moves

LEMMA RestTypes ==
    ASSUME TypeOK, UNCHANGED <<def, api, record>>, RunsTyped', TriesBounded', RowsTyped', ClaimsOnly,
           budget' \in [answers : 0..MaxAnswers, trouble : 0..def.trouble],
           NEW e \in Engines, \A q \in Runs : e \notin rows'[q].claimed,
           eng' = [eng EXCEPT ![e] = Idle]
    PROVE  TypeOK'
<1>0. /\ eng' \in [Engines -> DriveRecords] /\ eng'[e] = Idle
      /\ \A d \in Engines : d # e => eng'[d] = eng[d]
  BY Rests
<1>1. ClaimsAreDriven'
  BY <1>0 DEF TypeOK, ClaimsAreDriven, ClaimsOnly, RowsTyped, RowRecords
<1>2. VerdictsAreGiven'
  BY <1>0 DEF TypeOK, VerdictsAreGiven, Idle
<1> QED BY <1>0, <1>1, <1>2 DEF TypeOK, RunsTyped, TriesBounded, RowsTyped

LEMMA OtherTypes ==
    ASSUME TypeOK, UNCHANGED <<def, eng>>, RunsTyped', TriesBounded', RowsTyped', ClaimsOnly,
           budget' \in [answers : 0..MaxAnswers, trouble : 0..def.trouble],
           record' \in SharedRecords, api' \in AnswerRecords,
           api'.phase \in {"node", "run"} => api'.verdict # "none"
    PROVE  TypeOK'
<1>1. ClaimsAreDriven'
  BY DEF TypeOK, ClaimsAreDriven, ClaimsOnly, RowsTyped, RowRecords
<1>2. VerdictsAreGiven'
  BY DEF TypeOK, VerdictsAreGiven
<1> QED BY <1>1, <1>2 DEF TypeOK, RunsTyped, TriesBounded, RowsTyped

LEMMA SpendType ==
    ASSUME TypeOK, NEW what \in {"answers", "trouble"},
           Spend(what, IF what = "answers" THEN MaxAnswers ELSE def.trouble)
    PROVE  budget' \in [answers : 0..MaxAnswers, trouble : 0..def.trouble]
<1>1. def.trouble \in Nat
  BY ScenariosAssumption DEF TypeOK, Scenario
<1>2. CASE what = "answers"
  BY <1>2, BoundsAssumption DEF TypeOK, Spend
<1>3. CASE what = "trouble"
  BY <1>1, <1>3, BoundsAssumption DEF TypeOK, Spend
<1> QED BY <1>2, <1>3

-------------------------------------------------------------------------------
(***************************************************************************)
(* What each step does, and that it keeps the types.                       *)
(***************************************************************************)
LEMMA ClaimEffect ==
    ASSUME TypeOK, NEW e \in Engines, NEW r \in Runs, process_ready_node(e, r)
    PROVE  /\ TypeOK' /\ UNCHANGED <<def, api, record, budget>>
           /\ eng[e].phase = "idle" /\ rows[r].due > 0
           /\ eng'[e].phase = "step" /\ eng'[e].run = r /\ eng'[e].frame = NoFrame /\ eng'[e].verdict = "none"
           /\ \A d \in Engines : d # e => eng'[d] = eng[d]
           /\ Keeps(r, {"status"}) /\ Apart(r)
           /\ run'[r].status = IF run[r].status = "queued" THEN "running" ELSE run[r].status
           /\ RowsApart(r) /\ rows'[r].claimed = rows[r].claimed \cup {e}
           /\ rows'[r].timers = rows[r].timers
<1> USE Typed
<1> DEFINE z == [Idle EXCEPT !.phase = "step", !.run = r]
<1>1. z \in DriveRecords /\ z.phase = "step" /\ z.run = r /\ z.frame = NoFrame /\ z.verdict = "none"
  BY IdleType DEF Idle, DriveRecords, Phases
<1>2. eng' = [eng EXCEPT ![e] = z]
  BY DEF process_ready_node
<1> HIDE DEF z
<1>3. eng' \in [Engines -> DriveRecords] /\ eng'[e] = z /\ \A d \in Engines : d # e => eng'[d] = eng[d]
  BY <1>1, <1>2 DEF TypeOK
<1> DEFINE s == IF run[r].status = "queued" THEN "running" ELSE run[r].status
<1>4. s \in Statuses /\ run' = [run EXCEPT ![r].status = s]
  BY DEF process_ready_node, Statuses, RunRecords
<1> HIDE DEF s
<1>5. RunsTyped' /\ Keeps(r, {"status"}) /\ run'[r].status = s /\ Apart(r)
  BY <1>4, StatusWritten
<1> DEFINE n == rows[r].due - 1
<1> DEFINE w == [rows[r] EXCEPT !.due = n, !.claimed = @ \cup {e}]
<1>14. rows[r] \in RowRecords /\ n \in 0..2
  BY DEF process_ready_node, RowsTyped, RowRecords
<1>7. rows' = [rows EXCEPT ![r] = w]
  BY DEF process_ready_node, RowsTyped
<1> HIDE DEF n
<1>6. w \in RowRecords /\ w.claimed = rows[r].claimed \cup {e} /\ w.timers = rows[r].timers
  BY <1>14 DEF RowRecords
<1> HIDE DEF w
<1>8. RowsTyped' /\ rows'[r] = w /\ RowsApart(r)
  BY <1>6, <1>7 DEF RowsTyped, RowsApart
<1>9. UNCHANGED <<def, api, record, budget>> /\ eng[e].phase = "idle" /\ rows[r].due > 0
  BY DEF process_ready_node
<1>10. ClaimsAreDriven'
  BY <1>1, <1>3, <1>6, <1>8, <1>9 DEF TypeOK, ClaimsAreDriven, RowsApart, RowRecords, RowsTyped
<1>11. VerdictsAreGiven'
  BY <1>1, <1>3, <1>9 DEF TypeOK, VerdictsAreGiven
<1>12. TriesBounded'
  BY <1>5, <1>9, TriesKept, ApartIsLike
<1>13. TypeOK'
  BY <1>3, <1>5, <1>8, <1>9, <1>10, <1>11, <1>12 DEF TypeOK, RunsTyped, RowsTyped, TriesBounded
<1> QED BY <1>1, <1>3, <1>5, <1>6, <1>8, <1>9, <1>13 DEF s, z

LEMMA StepStoppedEffect ==
    ASSUME TypeOK, NEW e \in Engines, StepStopped(e), NEW r, r = eng[e].run
    PROVE  /\ TypeOK' /\ UNCHANGED <<def, rows, api, record, budget>>
           /\ r \in Runs /\ eng[e].phase = "step"
           /\ ~Active(r) \/ run[r].status = "paused"
           /\ Moves(e, "hook", eng[e].verdict, eng[e].frame)
           /\ \/ run[r].status = "paused" /\ Like(r) /\ LikeApart(r) /\ Holed(r)
              \/ run[r].status # "paused" /\ run' = run
<1> USE Typed
<1>1. /\ UNCHANGED <<def, rows, api, record, budget>> /\ r \in Runs /\ eng[e].phase = "step"
      /\ ~Active(r) \/ run[r].status = "paused"
  BY DEF StepStopped
<1>2. Moves(e, "hook", eng[e].verdict, eng[e].frame)
  BY MovesTo DEF StepStopped, Phases
<1>3. /\ RunsTyped' /\ TriesBounded'
      /\ \/ run[r].status = "paused" /\ Like(r) /\ LikeApart(r) /\ Holed(r)
         \/ run[r].status # "paused" /\ run' = run
  <2>1. CASE run[r].status = "paused"
    BY <1>1, <2>1, HoleWritten, TriesKept DEF StepStopped, Like
  <2>2. CASE run[r].status # "paused"
    BY <1>1, <2>2 DEF StepStopped, RunsTyped, TriesBounded
  <2> QED BY <2>1, <2>2
<1>4. TypeOK'
  BY <1>1, <1>2, <1>3, DriveTypes DEF RowsTyped, ClaimsOnly
<1> QED BY <1>1, <1>2, <1>3, <1>4

LEMMA ParkNodeEffect ==
    ASSUME TypeOK, NEW e \in Engines, ParkNode(e), NEW r, r = eng[e].run
    PROVE  /\ TypeOK' /\ UNCHANGED <<def, rows, api, record, budget>>
           /\ r \in Runs /\ eng[e].phase = "node"
           /\ Moves(e, "run", eng[e].verdict, eng[e].frame)
<1> USE Typed
<1>1. UNCHANGED <<def, rows, api, record, budget>> /\ r \in Runs /\ eng[e].phase = "node"
  BY DEF ParkNode
<1>2. Moves(e, "run", eng[e].verdict, eng[e].frame)
  BY MovesTo DEF ParkNode, Phases
<1>3. RunsTyped' /\ TriesBounded'
  <2>1. /\ RunsTyped' /\ LikeApart(r)
        /\ run'[r].tries = IF run[r].tries < def.attempts THEN run[r].tries + 1 ELSE run[r].tries
    BY NodeParked
  <2>2. \A q \in Runs : q # r => run'[q].tries = run[q].tries
    BY <2>1 DEF LikeApart, Like, Keeps, Fields
  <2>3. run[r].tries \in Nat /\ def.attempts \in Nat
    BY <1>1, ScenariosAssumption DEF RunRecords, TypeOK, Scenario
  <2> QED BY <1>1, <2>1, <2>2, <2>3 DEF TriesBounded
<1>4. TypeOK'
  BY <1>1, <1>2, <1>3, DriveTypes DEF RowsTyped, ClaimsOnly
<1> QED BY <1>1, <1>2, <1>4

LEMMA ParkRunEffect ==
    ASSUME TypeOK, NEW e \in Engines, ParkRun(e), NEW r, r = eng[e].run
    PROVE  /\ TypeOK' /\ UNCHANGED <<def, rows, api, record, budget>>
           /\ r \in Runs /\ eng[e].phase = "run"
           /\ Moves(e, "poll", eng[e].verdict, eng[e].frame)
           /\ Keeps(r, {"status", "frame"}) /\ Apart(r) /\ run'[r].status = "waiting"
           /\ run'[r].frame = IF def.kind = "map" THEN eng[e].frame ELSE run[r].frame
<1> USE Typed
<1> DEFINE fr == IF def.kind = "map" THEN eng[e].frame ELSE run[r].frame
<1>1. /\ UNCHANGED <<def, rows, api, record, budget>> /\ r \in Runs /\ eng[e].phase = "run"
      /\ fr \in Frames
  BY DEF ParkRun, RunRecords
<1>2. Moves(e, "poll", eng[e].verdict, eng[e].frame)
  BY MovesTo DEF ParkRun, Phases
<1>4. RunsTyped' /\ Keeps(r, {"status", "frame"}) /\ Apart(r) /\ run'[r].status = "waiting" /\ run'[r].frame = fr
  BY RunParked
<1>5. TriesBounded'
  BY <1>1, <1>4, TriesKept, ApartIsLike
<1>6. TypeOK'
  BY <1>1, <1>2, <1>4, <1>5, DriveTypes DEF RowsTyped, ClaimsOnly
<1> QED BY <1>1, <1>2, <1>4, <1>6 DEF fr

\* The steps that only enqueue rows of the run they drive.
LEMMA EnqueueTypes ==
    ASSUME TypeOK, NEW e \in Engines, eng[e].phase # "idle",
           UNCHANGED <<def, run, api, record, budget>>,
           NEW delay \in 0..Timeout, NEW r \in Runs, rows' \in {rows, enqueue_ready_node(r, delay)},
           NEW p \in {"arm", "hook", "done"}, Moves(e, p, eng[e].verdict, eng[e].frame)
    PROVE  /\ TypeOK' /\ RowsApart(r)
           /\ rows' # rows => rows'[r].claimed = {} /\ HasRow(r)'
<1> USE Typed
<1>1. RunsTyped' /\ TriesBounded'
  BY DEF RunsTyped, TriesBounded
<1>2. /\ RowsTyped' /\ ClaimsOnly /\ RowsApart(r)
      /\ rows' # rows => rows'[r].claimed = {} /\ HasRow(r)'
  <2>1. CASE rows' = rows
    BY <2>1 DEF RowsTyped, ClaimsOnly, RowsApart
  <2>2. CASE rows' = enqueue_ready_node(r, delay)
    BY <2>2, Enqueued DEF ClaimsOnly, RowsApart
  <2> QED BY <2>1, <2>2
<1> QED BY <1>1, <1>2, DriveTypes

LEMMA EnqueuePollEffect ==
    ASSUME TypeOK, NEW e \in Engines, EnqueuePoll(e), NEW r, r = eng[e].run
    PROVE  /\ TypeOK' /\ UNCHANGED <<def, run, api, record, budget>>
           /\ r \in Runs /\ eng[e].phase = "poll"
           /\ Moves(e, "arm", eng[e].verdict, eng[e].frame) /\ RowsApart(r)
           /\ PollAfter = 0 => rows' = rows
           /\ PollAfter # 0 => rows'[r].claimed = {} /\ HasRow(r)'
<1> USE Typed
<1>1. UNCHANGED <<def, run, api, record, budget>> /\ r \in Runs /\ eng[e].phase = "poll"
  BY DEF EnqueuePoll
<1>2. Moves(e, "arm", eng[e].verdict, eng[e].frame)
  BY MovesTo DEF EnqueuePoll, Phases
<1>3. PollAfter \in 0..Timeout
  BY TimeAssumption DEF PollAfter
<1>4. PollAfter = 0 => rows' = rows
  BY DEF EnqueuePoll
<1>5. PollAfter # 0 => rows' = enqueue_ready_node(r, PollAfter)
  BY DEF EnqueuePoll
<1>6. TypeOK' /\ RowsApart(r)
  BY <1>1, <1>2, <1>3, <1>4, <1>5, EnqueueTypes
<1>7. PollAfter # 0 => rows'[r].claimed = {} /\ HasRow(r)'
  BY <1>1, <1>3, <1>5, Enqueued
<1> QED BY <1>1, <1>2, <1>4, <1>6, <1>7

LEMMA ArmEffect ==
    ASSUME TypeOK, NEW e \in Engines, arm_node_timeout(e), NEW r, r = eng[e].run
    PROVE  /\ TypeOK' /\ UNCHANGED <<def, run, api, record, budget>>
           /\ r \in Runs /\ eng[e].phase = "arm"
           /\ Moves(e, "hook", eng[e].verdict, eng[e].frame) /\ RowsApart(r)
           /\ ~Arms => rows' = rows
           /\ Arms => rows'[r].claimed = {} /\ HasRow(r)'
<1> USE Typed
<1>1. UNCHANGED <<def, run, api, record, budget>> /\ r \in Runs /\ eng[e].phase = "arm"
  BY DEF arm_node_timeout
<1>2. Moves(e, "hook", eng[e].verdict, eng[e].frame)
  BY MovesTo DEF arm_node_timeout, Phases
<1>3. Timeout \in 0..Timeout
  BY TimeAssumption
<1>4. (~Arms => rows' = rows) /\ (Arms => rows' = enqueue_ready_node(r, Timeout))
  BY DEF arm_node_timeout
<1>6. TypeOK' /\ RowsApart(r)
  BY <1>1, <1>2, <1>3, <1>4, EnqueueTypes
<1>7. Arms => rows'[r].claimed = {} /\ HasRow(r)'
  BY <1>1, <1>3, <1>4, Enqueued
<1> QED BY <1>1, <1>2, <1>4, <1>6, <1>7

LEMMA RepollEffect ==
    ASSUME TypeOK, NEW e \in Engines, EnqueueNextPoll(e), NEW r, r = eng[e].run
    PROVE  /\ TypeOK' /\ UNCHANGED <<def, run, api, record, budget>>
           /\ r \in Runs /\ eng[e].phase = "repoll"
           /\ Moves(e, "done", eng[e].verdict, eng[e].frame) /\ eng'[e].keep
           /\ RowsApart(r) /\ rows'[r].claimed = {} /\ HasRow(r)'
<1> USE Typed
<1> DEFINE delay == IF def.kind = "debounce" THEN Timeout - run[r].age ELSE Poll
<1>1. UNCHANGED <<def, run, api, record, budget>> /\ r \in Runs /\ eng[e].phase = "repoll"
  BY DEF EnqueueNextPoll
<1>2. Moves(e, "done", eng[e].verdict, eng[e].frame) /\ eng'[e].keep
  BY MovesToDone DEF EnqueueNextPoll
<1>3. delay \in 0..Timeout /\ rows' = enqueue_ready_node(r, delay)
  BY <1>1, TimeAssumption DEF EnqueueNextPoll, RunRecords
<1> HIDE DEF delay
<1>4. TypeOK'
  BY <1>1, <1>2, <1>3, EnqueueTypes
<1> QED BY <1>1, <1>2, <1>3, <1>4, Enqueued

LEMMA BackoffEffect ==
    ASSUME TypeOK, NEW e \in Engines, schedule_node_retry(e), NEW r, r = eng[e].run
    PROVE  /\ TypeOK' /\ UNCHANGED <<def, run, api, record, budget>>
           /\ r \in Runs /\ eng[e].phase = "backoff"
           /\ Moves(e, "hook", eng[e].verdict, eng[e].frame)
           /\ RowsApart(r) /\ rows'[r].claimed = {} /\ HasRow(r)'
<1> USE Typed
<1>1. UNCHANGED <<def, run, api, record, budget>> /\ r \in Runs /\ eng[e].phase = "backoff"
  BY DEF schedule_node_retry
<1>2. Moves(e, "hook", eng[e].verdict, eng[e].frame)
  BY MovesTo DEF schedule_node_retry, Phases
<1>3. Poll \in 0..Timeout /\ rows' = enqueue_ready_node(r, Poll)
  BY <1>1, TimeAssumption DEF schedule_node_retry
<1>4. TypeOK'
  BY <1>1, <1>2, <1>3, EnqueueTypes
<1> QED BY <1>1, <1>2, <1>3, <1>4, Enqueued

LEMMA SettleNodeEffect ==
    ASSUME TypeOK, NEW e \in Engines, SettleNode(e), NEW r, r = eng[e].run
    PROVE  /\ TypeOK' /\ UNCHANGED <<def, rows, api, record, budget>>
           /\ r \in Runs /\ eng[e].phase = "settle" /\ eng[e].verdict \in Terminal
           /\ Keeps(r, {"node"}) /\ Apart(r)
           /\ \/ /\ eng[e].verdict \in {"failed", "timed_out"} /\ run'[r].node = "queued"
                 /\ Moves(e, "retry", eng[e].verdict, eng[e].frame)
              \/ /\ run'[r].node = eng[e].verdict
                 /\ Moves(e, "finish", eng[e].verdict, eng[e].frame)
<1> USE Typed
<1> DEFINE n == IF Retryable(e) THEN "queued" ELSE eng[e].verdict
<1>1. /\ UNCHANGED <<def, rows, api, record, budget>> /\ r \in Runs /\ eng[e].phase = "settle"
      /\ eng[e].verdict \in Terminal
  BY DEF SettleNode, TypeOK, VerdictsAreGiven
<1>2. n \in NodeStatuses /\ run' = [run EXCEPT ![r].node = n]
  BY <1>1 DEF SettleNode, NodeStatuses
<1> HIDE DEF n
<1>3. RunsTyped' /\ Keeps(r, {"node"}) /\ run'[r].node = n /\ Apart(r)
  BY <1>1, <1>2, NodeWritten
<1>4. TriesBounded'
  BY <1>1, <1>3, TriesKept, ApartIsLike
<1>5. /\ Retryable(e) => Moves(e, "retry", eng[e].verdict, eng[e].frame)
      /\ ~Retryable(e) => Moves(e, "finish", eng[e].verdict, eng[e].frame)
  BY MovesTo DEF SettleNode, Phases
<1>6. TypeOK'
  BY <1>1, <1>3, <1>4, <1>5, DriveTypes DEF RowsTyped, ClaimsOnly, Terminal
<1> QED BY <1>1, <1>3, <1>5, <1>6 DEF n, Retryable

LEMMA FinishRunEffect ==
    ASSUME TypeOK, NEW e \in Engines, FinishRun(e), NEW r, r = eng[e].run
    PROVE  /\ TypeOK' /\ UNCHANGED <<def, api, record, budget>>
           /\ r \in Runs /\ eng[e].phase = "finish" /\ eng[e].verdict \in Terminal
           /\ Keeps(r, {"status", "passed"}) /\ Apart(r) /\ run'[r].status = eng[e].verdict
           /\ run'[r].passed = (run[r].passed \/ eng[e].verdict = "succeeded")
           /\ RowsApart(r) /\ rows'[r] = NoRows
           /\ Moves(e, "hook", eng[e].verdict, eng[e].frame)
<1> USE Typed
<1> DEFINE b == run[r].passed \/ eng[e].verdict = "succeeded"
<1>1. /\ UNCHANGED <<def, api, record, budget>> /\ r \in Runs /\ eng[e].phase = "finish"
      /\ eng[e].verdict \in Terminal
  BY DEF FinishRun, TypeOK, VerdictsAreGiven
<1>2. eng[e].verdict \in Statuses /\ b \in BOOLEAN
  BY <1>1 DEF Statuses, RunRecords
<1>3. /\ RunsTyped' /\ Keeps(r, {"status", "passed"}) /\ Apart(r)
      /\ run'[r].status = eng[e].verdict /\ run'[r].passed = b
  BY <1>1, <1>2, RunEnded
<1>4. TriesBounded'
  BY <1>1, <1>3, TriesKept, ApartIsLike
<1>5. Moves(e, "hook", eng[e].verdict, eng[e].frame)
  BY MovesTo DEF FinishRun, Phases
<1>6. RowsTyped' /\ RowsApart(r) /\ rows'[r] = NoRows
  BY <1>1, Cleared DEF FinishRun, RowsAfter
<1>7. TypeOK'
  BY <1>1, <1>3, <1>4, <1>5, <1>6, NoRowsType, DriveTypes DEF ClaimsOnly, RowsApart, TypeOK
<1> QED BY <1>1, <1>3, <1>5, <1>6, <1>7 DEF b

LEMMA RetryRunEffect ==
    ASSUME TypeOK, NEW e \in Engines, RetryRun(e), NEW r, r = eng[e].run
    PROVE  /\ TypeOK' /\ UNCHANGED <<def, rows, api, record, budget>>
           /\ r \in Runs /\ eng[e].phase = "retry"
           /\ Keeps(r, {"status"}) /\ Apart(r) /\ run'[r].status = "waiting"
           /\ Moves(e, "backoff", eng[e].verdict, eng[e].frame)
<1> USE Typed
<1>1. UNCHANGED <<def, rows, api, record, budget>> /\ r \in Runs /\ eng[e].phase = "retry"
  BY DEF RetryRun
<1>2. "waiting" \in Statuses /\ run' = [run EXCEPT ![r].status = "waiting"]
  BY DEF RetryRun, Statuses
<1>3. RunsTyped' /\ Keeps(r, {"status"}) /\ run'[r].status = "waiting" /\ Apart(r)
  BY <1>1, <1>2, StatusWritten
<1>4. TriesBounded'
  BY <1>1, <1>3, TriesKept, ApartIsLike
<1>5. Moves(e, "backoff", eng[e].verdict, eng[e].frame)
  BY MovesTo DEF RetryRun, Phases
<1>6. TypeOK'
  BY <1>1, <1>3, <1>4, <1>5, DriveTypes DEF RowsTyped, ClaimsOnly
<1> QED BY <1>1, <1>3, <1>5, <1>6

LEMMA HookEffect ==
    ASSUME TypeOK, NEW e \in Engines, maybe_wake_subflow_parent(e), NEW r, r = eng[e].run
    PROVE  /\ TypeOK' /\ UNCHANGED <<def, run, api, record, budget>>
           /\ r \in Runs /\ run[r].parent \in Runs /\ eng[e].phase = "hook"
           /\ Moves(e, "done", eng[e].verdict, eng[e].frame) /\ ~eng'[e].keep
           /\ \/ /\ run[r].status \in Terminal /\ run[r].linked
                 /\ RowsApart(run[r].parent) /\ rows'[run[r].parent].claimed = {}
                 /\ HasRow(run[r].parent)'
              \/ /\ ~(run[r].status \in Terminal /\ run[r].linked) /\ rows' = rows
<1> USE Typed
<1>1. /\ UNCHANGED <<def, run, api, record, budget>> /\ r \in Runs /\ run[r].parent \in Runs
      /\ eng[e].phase = "hook"
  BY DEF maybe_wake_subflow_parent, RunRecords
<1>2. Moves(e, "done", eng[e].verdict, eng[e].frame) /\ ~eng'[e].keep
  BY MovesToDone DEF maybe_wake_subflow_parent
<1>3. 0 \in 0..Timeout
  BY TimeAssumption
<1>4. CASE run[r].status \in Terminal /\ run[r].linked
  <2>1. rows' = enqueue_ready_node(run[r].parent, 0)
    BY <1>4 DEF maybe_wake_subflow_parent
  <2>2. TypeOK'
    BY <1>1, <1>2, <1>3, <2>1, EnqueueTypes
  <2> QED BY <1>1, <1>2, <1>3, <1>4, <2>1, <2>2, Enqueued
<1>5. CASE ~(run[r].status \in Terminal /\ run[r].linked)
  <2>1. rows' = rows
    BY <1>5 DEF maybe_wake_subflow_parent
  <2>2. TypeOK'
    BY <1>1, <1>2, <1>3, <2>1, EnqueueTypes
  <2> QED BY <1>1, <1>2, <1>5, <2>1, <2>2
<1> QED BY <1>4, <1>5

LEMMA DriveEndsEffect ==
    ASSUME TypeOK, NEW e \in Engines, drive_ready_node(e), NEW r, r = eng[e].run
    PROVE  /\ TypeOK' /\ UNCHANGED <<def, run, api, record, budget>>
           /\ r \in Runs /\ eng[e].phase = "done"
           /\ eng'[e] = Idle /\ \A d \in Engines : d # e => eng'[d] = eng[d]
           /\ RowsApart(r) /\ rows'[r].claimed = rows[r].claimed \ {e}
           /\ HasRow(r) \/ (e \in rows[r].claimed /\ eng[e].keep) => HasRow(r)'
           /\ rows[r] = NoRows => rows'[r] = NoRows
<1> USE Typed
<1> DEFINE g == e \in rows[r].claimed /\ eng[e].keep
<1>1. UNCHANGED <<def, run, api, record, budget>> /\ r \in Runs /\ eng[e].phase = "done"
  BY DEF drive_ready_node
<1>2. /\ g \in BOOLEAN /\ eng' = [eng EXCEPT ![e] = Idle]
      /\ rows' = [rows EXCEPT ![r].claimed = @ \ {e}, ![r].due = IF g /\ @ < 2 THEN @ + 1 ELSE @]
  BY DEF drive_ready_node
<1>3. rows[r] = NoRows => ~g
  BY NoRowsType
<1> HIDE DEF g
<1>4. /\ RowsTyped' /\ RowsApart(r) /\ rows'[r].claimed = rows[r].claimed \ {e}
      /\ HasRow(r) \/ g => HasRow(r)'
      /\ rows[r].due = 0 /\ ~g => rows'[r].due = 0
      /\ rows'[r].timers = rows[r].timers
  BY <1>1, <1>2, Released
<1>5. rows[r] = NoRows => rows'[r] = NoRows
  <2>1. rows'[r] \in RowRecords
    BY <1>1, <1>4 DEF RowsTyped
  <2>2. rows[r] = NoRows => rows'[r].due = 0 /\ rows'[r].claimed = {} /\ rows'[r].timers = {}
    BY <1>3, <1>4, NoRowsType
  <2> QED BY <2>1, <2>2, EmptyRow
<1>6. /\ eng' \in [Engines -> DriveRecords] /\ eng'[e] = Idle
      /\ \A d \in Engines : d # e => eng'[d] = eng[d]
  BY <1>2, Rests
<1>7. ClaimsOnly /\ \A q \in Runs : e \notin rows'[q].claimed
  BY <1>1, <1>4 DEF ClaimsOnly, RowsApart, TypeOK, ClaimsAreDriven
<1>8. RunsTyped' /\ TriesBounded'
  BY <1>1 DEF RunsTyped, TriesBounded
<1>9. TypeOK'
  BY <1>1, <1>2, <1>4, <1>7, <1>8, RestTypes DEF TypeOK
<1> QED BY <1>1, <1>4, <1>5, <1>6, <1>9 DEF g

LEMMA CrashEffect ==
    ASSUME TypeOK, NEW e \in Engines, EngineCrash(e), NEW r, r = eng[e].run
    PROVE  /\ TypeOK' /\ UNCHANGED <<def, api, record>>
           /\ r \in Runs /\ eng[e].phase # "idle"
           /\ eng'[e] = Idle /\ \A d \in Engines : d # e => eng'[d] = eng[d]
           /\ RowsApart(r) /\ rows'[r].claimed = rows[r].claimed \ {e}
           /\ HasRow(r) \/ e \in rows[r].claimed => HasRow(r)'
           /\ rows[r] = NoRows => rows'[r] = NoRows
           /\ \/ Unrepaired(e) /\ Like(r) /\ LikeApart(r) /\ Holed(r)
              \/ ~Unrepaired(e) /\ run' = run
<1> USE Typed
<1> DEFINE g == e \in rows[r].claimed
<1>1. UNCHANGED <<def, api, record>> /\ r \in Runs /\ eng[e].phase # "idle"
  BY DEF EngineCrash
<1>2. /\ g \in BOOLEAN /\ eng' = [eng EXCEPT ![e] = Idle]
      /\ rows' = [rows EXCEPT ![r].claimed = @ \ {e}, ![r].due = IF g /\ @ < 2 THEN @ + 1 ELSE @]
  BY DEF EngineCrash
<1>3. rows[r] = NoRows => ~g
  BY NoRowsType
<1> HIDE DEF g
<1>4. /\ RowsTyped' /\ RowsApart(r) /\ rows'[r].claimed = rows[r].claimed \ {e}
      /\ HasRow(r) \/ g => HasRow(r)'
      /\ rows[r].due = 0 /\ ~g => rows'[r].due = 0
      /\ rows'[r].timers = rows[r].timers
  BY <1>1, <1>2, Released
<1>5. rows[r] = NoRows => rows'[r] = NoRows
  <2>1. rows'[r] \in RowRecords
    BY <1>1, <1>4 DEF RowsTyped
  <2>2. rows[r] = NoRows => rows'[r].due = 0 /\ rows'[r].claimed = {} /\ rows'[r].timers = {}
    BY <1>3, <1>4, NoRowsType
  <2> QED BY <2>1, <2>2, EmptyRow
<1>6. /\ eng' \in [Engines -> DriveRecords] /\ eng'[e] = Idle
      /\ \A d \in Engines : d # e => eng'[d] = eng[d]
  BY <1>2, Rests
<1>7. ClaimsOnly /\ \A q \in Runs : e \notin rows'[q].claimed
  BY <1>1, <1>4 DEF ClaimsOnly, RowsApart, TypeOK, ClaimsAreDriven
<1>8. /\ RunsTyped' /\ TriesBounded'
      /\ \/ Unrepaired(e) /\ Like(r) /\ LikeApart(r) /\ Holed(r)
         \/ ~Unrepaired(e) /\ run' = run
  <2>1. CASE Unrepaired(e)
    BY <1>1, <2>1, HoleWritten, TriesKept DEF EngineCrash, Like
  <2>2. CASE ~Unrepaired(e)
    BY <1>1, <2>2 DEF EngineCrash, RunsTyped, TriesBounded
  <2> QED BY <2>1, <2>2
<1>9. budget' \in [answers : 0..MaxAnswers, trouble : 0..def.trouble]
  BY SpendType DEF EngineCrash
<1>10. TypeOK'
  BY <1>1, <1>2, <1>4, <1>7, <1>8, <1>9, RestTypes
<1> QED BY <1>1, <1>4, <1>5, <1>6, <1>8, <1>10 DEF g

LEMMA FailEffect ==
    ASSUME TypeOK, NEW e \in Engines, fail_driven_ready_node(e), NEW r, r = eng[e].run
    PROVE  /\ TypeOK' /\ UNCHANGED <<def, api, record>>
           /\ r \in Runs /\ eng[e].phase \notin {"idle", "done"}
           /\ eng'[e] = Idle /\ \A d \in Engines : d # e => eng'[d] = eng[d]
           /\ RowsApart(r) /\ rows'[r] = NoRows
           /\ Keeps(r, {"status", "hole"}) /\ run'[r].status = "failed"
           /\ LikeApart(r) /\ Holed(r)
<1> USE Typed
<1>1. /\ UNCHANGED <<def, api, record>> /\ r \in Runs /\ eng[e].phase \notin {"idle", "done"}
      /\ rows' = [rows EXCEPT ![r] = NoRows] /\ eng' = [eng EXCEPT ![e] = Idle]
      /\ run' = [Hole(r) EXCEPT ![r].status = "failed"] /\ "failed" \in Statuses
  BY DEF fail_driven_ready_node, Statuses, Terminal
<1>2. RowsTyped' /\ RowsApart(r) /\ rows'[r] = NoRows
  BY <1>1, Cleared
<1>3. /\ RunsTyped' /\ Keeps(r, {"status", "hole"}) /\ run'[r].status = "failed"
      /\ LikeApart(r) /\ Holed(r)
  BY <1>1, StatusHoled
<1>4. TriesBounded'
  BY <1>1, <1>3, TriesKept
<1>5. ClaimsOnly /\ \A q \in Runs : e \notin rows'[q].claimed
  BY <1>1, <1>2, NoRowsType DEF ClaimsOnly, RowsApart, TypeOK, ClaimsAreDriven
<1>6. budget' \in [answers : 0..MaxAnswers, trouble : 0..def.trouble]
  BY SpendType DEF fail_driven_ready_node
<1>7. TypeOK'
  BY <1>1, <1>2, <1>3, <1>4, <1>5, <1>6, RestTypes
<1> QED BY <1>1, <1>2, <1>3, <1>7, Rests

LEMMA CancelEffect ==
    ASSUME TypeOK, NEW r \in Runs, cancel_workflow_run(r)
    PROVE  /\ TypeOK' /\ UNCHANGED <<def, eng, api, record>>
           /\ Active(r) /\ RowsApart(r) /\ rows'[r] = NoRows
           /\ Keeps(r, {"status", "hole"}) /\ run'[r].status = "canceled"
           /\ LikeApart(r) /\ Holed(r)
<1> USE Typed
<1>1. /\ UNCHANGED <<def, eng, api, record>> /\ Active(r)
      /\ rows' = [rows EXCEPT ![r] = NoRows]
      /\ run' = [Hole(r) EXCEPT ![r].status = "canceled"] /\ "canceled" \in Statuses
  BY DEF cancel_workflow_run, Statuses, Terminal
<1>2. RowsTyped' /\ RowsApart(r) /\ rows'[r] = NoRows
  BY <1>1, Cleared
<1>3. /\ RunsTyped' /\ Keeps(r, {"status", "hole"}) /\ run'[r].status = "canceled"
      /\ LikeApart(r) /\ Holed(r)
  BY <1>1, StatusHoled
<1>4. TriesBounded'
  BY <1>1, <1>3, TriesKept
<1>5. ClaimsOnly
  BY <1>1, <1>2, NoRowsType DEF ClaimsOnly, RowsApart
<1>6. budget' \in [answers : 0..MaxAnswers, trouble : 0..def.trouble]
  BY SpendType DEF cancel_workflow_run
<1>7. TypeOK'
  BY <1>1, <1>2, <1>3, <1>4, <1>5, <1>6, OtherTypes DEF TypeOK, VerdictsAreGiven
<1> QED BY <1>1, <1>2, <1>3, <1>7

LEMMA PauseEffect ==
    ASSUME TypeOK, NEW r \in Runs, pause_workflow_run(r) \/ resume_workflow_run(r)
    PROVE  /\ TypeOK' /\ UNCHANGED <<def, rows, eng, api, record>>
           /\ Active(r) /\ Keeps(r, {"status"}) /\ Apart(r)
           /\ run'[r].status \in {"paused", "running"}
<1> USE Typed
<1>1. UNCHANGED <<def, rows, eng, api, record>> /\ Active(r)
  BY DEF pause_workflow_run, resume_workflow_run, Active, Present, Terminal
<1>2. PICK s \in {"paused", "running"} : run' = [run EXCEPT ![r].status = s]
  BY DEF pause_workflow_run, resume_workflow_run
<1>3. s \in Statuses
  BY DEF Statuses
<1>4. RunsTyped' /\ Keeps(r, {"status"}) /\ run'[r].status = s /\ Apart(r)
  BY <1>2, <1>3, StatusWritten
<1>5. TriesBounded'
  BY <1>1, <1>4, TriesKept, ApartIsLike
<1>6. budget' \in [answers : 0..MaxAnswers, trouble : 0..def.trouble]
  BY SpendType DEF pause_workflow_run, resume_workflow_run, TypeOK
<1>7. TypeOK'
  BY <1>1, <1>4, <1>5, <1>6, OtherTypes DEF TypeOK, VerdictsAreGiven, RowsTyped, ClaimsOnly
<1> QED BY <1>1, <1>4, <1>7

LEMMA AgedRecord ==
    ASSUME NEW x \in RunRecords, NEW a \in 0..Timeout, NEW b \in 0..Timeout
    PROVE  /\ Aged(x, a, b) \in RunRecords /\ Aged(x, a, b).age = a /\ Aged(x, a, b).since = b
           /\ \A f \in Fields \ {"age", "since"} : Aged(x, a, b)[f] = x[f]
  BY DEF RunRecords, Fields, Aged

LEMMA TickEffect ==
    ASSUME TypeOK, Tick
    PROVE  /\ TypeOK' /\ UNCHANGED <<def, eng, api, budget>>
           /\ \A r \in Runs : Present(r) => /\ Keeps(r, {"age", "since"})
                                            /\ run'[r].age = Older(run[r].age)
                                            /\ run'[r].since = Older(run[r].since)
           /\ \A r \in Runs : ~Present(r) => run'[r] = run[r]
           /\ \A r \in Runs : /\ rows'[r].claimed = rows[r].claimed
                              /\ HasRow(r) => HasRow(r)'
                              /\ rows[r] = NoRows => rows'[r] = NoRows
           /\ record'.age = Older(record.age) /\ record'.status = record.status
           /\ record'.used = record.used /\ record'.arrivals = record.arrivals
<1> USE Typed
<1>1. UNCHANGED <<def, eng, api, budget>>
  BY DEF Tick
<1>2. \A n \in 0..Timeout : Older(n) \in 0..Timeout
  BY TimeAssumption DEF Older
<1> DEFINE y(r) == Aged(run[r], Older(run[r].age), Older(run[r].since))
<1>3. \A r \in Runs : Older(run[r].age) \in 0..Timeout /\ Older(run[r].since) \in 0..Timeout
  BY <1>2 DEF RunRecords
<1>6. run' = [r \in Runs |-> IF ~Present(r) THEN run[r] ELSE y(r)]
  BY DEF Tick, Older, Aged
<1>5. \A r \in Runs : /\ y(r) \in RunRecords /\ y(r).age = Older(run[r].age)
                      /\ y(r).since = Older(run[r].since)
                      /\ \A f \in Fields \ {"age", "since"} : y(r)[f] = run[r][f]
  <2> TAKE r \in Runs
  <2> DEFINE a == Older(run[r].age)
  <2> DEFINE b == Older(run[r].since)
  <2>1. run[r] \in RunRecords /\ a \in 0..Timeout /\ b \in 0..Timeout
    BY <1>3
  <2> HIDE DEF a, b
  <2>2. /\ Aged(run[r], a, b) \in RunRecords
        /\ Aged(run[r], a, b).age = a /\ Aged(run[r], a, b).since = b
        /\ \A f \in Fields \ {"age", "since"} : Aged(run[r], a, b)[f] = run[r][f]
    BY <2>1, AgedRecord
  <2> QED BY <2>2 DEF a, b
<1> HIDE DEF y
<1>7. /\ RunsTyped'
      /\ \A r \in Runs : Present(r) => /\ Keeps(r, {"age", "since"})
                                       /\ run'[r].age = Older(run[r].age)
                                       /\ run'[r].since = Older(run[r].since)
      /\ \A r \in Runs : ~Present(r) => run'[r] = run[r]
  BY <1>5, <1>6 DEF RunsTyped, Keeps
<1>8. TriesBounded'
  BY <1>1, <1>7 DEF TriesBounded, Keeps, Fields
<1> DEFINE w(r) == [due |-> IF 1 \in rows[r].timers /\ rows[r].due < 2
                            THEN rows[r].due + 1 ELSE rows[r].due,
                    claimed |-> rows[r].claimed,
                    timers |-> {t - 1 : t \in rows[r].timers \ {1}}]
<1>9. \A r \in Runs : /\ w(r) \in RowRecords /\ w(r).claimed = rows[r].claimed
                      /\ HasRow(r) => w(r).due > 0 \/ w(r).timers # {}
                      /\ rows[r] = NoRows => w(r) = NoRows
  <2> TAKE r \in Runs
  <2>1. /\ rows[r].due \in 0..2 /\ rows[r].claimed \subseteq Engines
        /\ rows[r].timers \subseteq 1..Timeout
    BY DEF RowsTyped, RowRecords
  <2>2. {t - 1 : t \in rows[r].timers \ {1}} \subseteq 1..Timeout
    BY <2>1, TimeAssumption
  <2>3. w(r) \in RowRecords
    BY <2>1, <2>2 DEF RowRecords
  <2>4. HasRow(r) => w(r).due > 0 \/ w(r).timers # {}
    <3>1. CASE 1 \in rows[r].timers
      BY <2>1, <3>1
    <3>2. CASE 1 \notin rows[r].timers
      BY <2>1, <3>2 DEF HasRow
    <3> QED BY <3>1, <3>2
  <2>5. rows[r] = NoRows => w(r).due = 0 /\ w(r).claimed = {} /\ w(r).timers = {}
    BY NoRowsType
  <2>6. rows[r] = NoRows => w(r) = NoRows
    BY <2>3, <2>5, EmptyRow
  <2> QED BY <2>3, <2>4, <2>6
<1>10. rows' = [r \in Runs |-> w(r)]
  BY DEF Tick
<1> HIDE DEF w
<1>11. /\ RowsTyped' /\ ClaimsOnly
       /\ \A r \in Runs : /\ rows'[r].claimed = rows[r].claimed
                          /\ HasRow(r) => HasRow(r)'
                          /\ rows[r] = NoRows => rows'[r] = NoRows
  BY <1>9, <1>10 DEF RowsTyped, ClaimsOnly, HasRow
<1>12. /\ record' \in SharedRecords
       /\ record'.age = Older(record.age) /\ record'.status = record.status
       /\ record'.used = record.used /\ record'.arrivals = record.arrivals
  <2> DEFINE a == Older(record.age)
  <2>1. a \in 0..Timeout /\ record' = [record EXCEPT !.age = a]
    BY <1>2 DEF Tick, Older, SharedRecords
  <2> HIDE DEF a
  <2>2. /\ record' \in SharedRecords
        /\ record'.age = a /\ record'.status = record.status
        /\ record'.used = record.used /\ record'.arrivals = record.arrivals
    BY <2>1 DEF SharedRecords
  <2> QED BY <2>2 DEF a
<1>13. TypeOK'
  BY <1>1, <1>7, <1>8, <1>11, <1>12, OtherTypes DEF TypeOK, VerdictsAreGiven
<1> QED BY <1>1, <1>7, <1>11, <1>12, <1>13

-------------------------------------------------------------------------------
\* A handler that only decides.
LEMMA DecisionTypes ==
    ASSUME TypeOK, NEW e \in Engines, eng[e].phase # "idle",
           UNCHANGED <<def, run, rows, api, record, budget>>,
           NEW p, p # "idle", NEW v, NEW fr, Moves(e, p, v, fr), p \in {"settle", "finish"} => v # "none"
    PROVE  TypeOK'
<1>1. RunsTyped' /\ TriesBounded' /\ RowsTyped' /\ ClaimsOnly /\ record' \in SharedRecords
  BY Typed DEF RunsTyped, TriesBounded, RowsTyped, ClaimsOnly
<1> QED BY <1>1, DriveTypes

LEMMA SoundMoves ==
    ASSUME NEW e \in Engines
    PROVE  /\ \A p \in Phases \ {"idle", "settle", "finish"} : Goes(e, p) => Sound(e)
           /\ \A v \in Terminal : Settles(e, v) => Sound(e)
           /\ Goes(e, "hook") \/ Goes(e, "create") \/ Goes(e, "repoll") \/ Goes(e, "done") => Sound(e)
           /\ Settles(e, "succeeded") \/ Settles(e, "timed_out") \/ Settles(e, "failed") => Sound(e)
<1>1. \A p \in Phases \ {"idle", "settle", "finish"} : Goes(e, p) => Sound(e)
  BY DEF Goes, Sound
<1>2. \A v \in Terminal : Settles(e, v) => Sound(e)
  BY DEF Settles, Sound, Terminal
<1> QED BY <1>1, <1>2 DEF Phases, Terminal

LEMMA StampedEffect ==
    ASSUME TypeOK, NEW e \in Engines, process_signal_node(e) \/ process_approval_node(e),
           NEW r, r = eng[e].run
    PROVE  /\ TypeOK' /\ UNCHANGED <<def, rows, api, record, budget>>
           /\ AtStep(e) /\ r \in Runs /\ def.kind \in {"signal", "approval"}
           /\ \/ /\ run[r].node = "parked" /\ run' = run
                 /\ Settles(e, "timed_out") \/ Goes(e, "hook")
              \/ run[r].node = "succeeded" /\ run' = run /\ Settles(e, "succeeded")
              \/ run[r].node = "none" /\ run' = run /\ Goes(e, "create")
              \/ Like(r) /\ LikeApart(r) /\ Holed(r) /\ Goes(e, "hook")
<1> USE Typed
<1>1. /\ AtStep(e) /\ r \in Runs /\ def.kind \in {"signal", "approval"} /\ Stamped(e)
      /\ UNCHANGED <<def, rows, api, record, budget>>
  BY DEF process_signal_node, process_approval_node, AtNode, AtStep, Stamped
<1>2. \/ /\ run[r].node = "parked" /\ run' = run
         /\ eng' = Settle(e, "timed_out") \/ eng' = To(e, "hook")
      \/ run[r].node = "succeeded" /\ run' = run /\ eng' = Settle(e, "succeeded")
      \/ run[r].node = "none" /\ run' = run /\ eng' = To(e, "create")
      \/ run' = Hole(r) /\ eng' = To(e, "hook")
  BY <1>1 DEF Stamped, Status, Late
<1>3. /\ eng' = Settle(e, "timed_out") => Settles(e, "timed_out")
      /\ eng' = Settle(e, "succeeded") => Settles(e, "succeeded")
      /\ eng' = To(e, "hook") => Goes(e, "hook")
      /\ eng' = To(e, "create") => Goes(e, "create")
  BY MovesTo, MovesToSettle DEF Phases, Terminal, Settles, Goes
<1>4. run' = Hole(r) => RunsTyped' /\ Like(r) /\ LikeApart(r) /\ Holed(r)
  BY <1>1, HoleWritten
<1>5. RunsTyped' /\ TriesBounded'
  <2>1. CASE run' = run
    BY <1>1, <2>1 DEF RunsTyped, TriesBounded
  <2>2. CASE run' = Hole(r)
    BY <1>1, <1>4, <2>2, TriesKept DEF Like
  <2> QED BY <1>2, <2>1, <2>2
<1>6. Sound(e)
  BY <1>2, <1>3, SoundMoves
<1>7. TypeOK'
  BY <1>1, <1>5, <1>6, DriveTypes DEF AtStep, RowsTyped, ClaimsOnly, Sound
<1> QED BY <1>1, <1>2, <1>3, <1>4, <1>7

LEMMA InputEffect ==
    ASSUME TypeOK, NEW e \in Engines, process_input_node(e), NEW r, r = eng[e].run
    PROVE  /\ TypeOK' /\ UNCHANGED <<def, run, rows, api, record, budget>>
           /\ AtStep(e) /\ r \in Runs /\ def.kind = "input"
           /\ \/ run[r].node = "parked" /\ (Settles(e, "timed_out") \/ Goes(e, "hook"))
              \/ run[r].node = "succeeded" /\ Settles(e, "succeeded")
              \/ Goes(e, "create")
<1> USE Typed
<1>1. /\ AtStep(e) /\ r \in Runs /\ def.kind = "input"
      /\ UNCHANGED <<def, run, rows, api, record, budget>>
  BY DEF process_input_node, AtNode, AtStep, Decided
<1>2. \/ run[r].node = "parked" /\ (eng' = Settle(e, "timed_out") \/ eng' = To(e, "hook"))
      \/ run[r].node = "succeeded" /\ eng' = Settle(e, "succeeded")
      \/ eng' = To(e, "create")
  BY DEF process_input_node, Status
<1>3. /\ eng' = Settle(e, "timed_out") => Settles(e, "timed_out")
      /\ eng' = Settle(e, "succeeded") => Settles(e, "succeeded")
      /\ eng' = To(e, "hook") => Goes(e, "hook")
      /\ eng' = To(e, "create") => Goes(e, "create")
  BY MovesTo, MovesToSettle DEF Phases, Terminal, Settles, Goes
<1>4. Sound(e)
  BY <1>2, <1>3, SoundMoves
<1>5. TypeOK'
  BY <1>1, <1>4, DecisionTypes DEF AtStep, Sound
<1> QED BY <1>1, <1>2, <1>3, <1>5

LEMMA WatchedEffect ==
    ASSUME TypeOK, NEW e \in Engines,
           \/ process_wait_node(e) \/ process_debounce_node(e) \/ process_gate_node(e)
           \/ process_await_run_node(e) \/ process_event_source_node(e) \/ process_collect_node(e),
           NEW r, r = eng[e].run
    PROVE  /\ TypeOK' /\ UNCHANGED <<def, run, rows, api, record, budget>>
           /\ AtStep(e) /\ r \in Runs /\ def.kind \in Watchers
           /\ \/ Goes(e, "create")
              \/ Settles(e, "timed_out")
              \/ /\ Settles(e, "succeeded") /\ def.kind # "event_source"
                 /\ def.kind = "collect" => timed_out(r)
                 /\ def.kind \in {"wait", "debounce"} => run[r].age >= Timeout
              \/ Goes(e, "done") /\ eng'[e].keep
              \/ Goes(e, "repoll")
<1> USE Typed
<1>1. /\ AtStep(e) /\ r \in Runs /\ def.kind \in Watchers
      /\ UNCHANGED <<def, run, rows, api, record, budget>>
  BY DEF process_wait_node, process_debounce_node, process_gate_node, process_await_run_node,
         process_event_source_node, process_collect_node, AtNode, AtStep, Decided, Watched, Watchers
<1>2. \/ eng' = To(e, "create") \/ eng' = Settle(e, "timed_out")
      \/ /\ eng' = Settle(e, "succeeded") /\ def.kind # "event_source"
         /\ def.kind = "collect" => timed_out(r)
         /\ def.kind \in {"wait", "debounce"} => run[r].age >= Timeout
      \/ eng' = Done(e, TRUE)
      \/ eng' = To(e, "repoll")
  BY DEF process_wait_node, process_debounce_node, process_gate_node, process_await_run_node,
         process_event_source_node, process_collect_node, AtNode, Watched, Late, Elapsed
<1>3. /\ eng' = Settle(e, "timed_out") => Settles(e, "timed_out")
      /\ eng' = Settle(e, "succeeded") => Settles(e, "succeeded")
      /\ eng' = To(e, "repoll") => Goes(e, "repoll")
      /\ eng' = To(e, "create") => Goes(e, "create")
      /\ eng' = Done(e, TRUE) => Goes(e, "done") /\ eng'[e].keep
  BY MovesTo, MovesToSettle, MovesToDone DEF Phases, Terminal, Settles, Goes
<1>4. Sound(e)
  BY <1>2, <1>3, SoundMoves
<1>5. TypeOK'
  BY <1>1, <1>4, DecisionTypes DEF AtStep, Sound
<1> QED BY <1>1, <1>2, <1>3, <1>5

\* The creation of a node run, whatever the kind.
LEMMA CreateTypes ==
    ASSUME TypeOK, NEW e \in Engines, NEW next \in Phases \ {"idle", "finish"},
           create_workflow_node_run(e, next), next = "settle" => eng[e].verdict # "none",
           NEW r, r = eng[e].run
    PROVE  /\ TypeOK' /\ UNCHANGED <<def, rows, api, record, budget>>
           /\ r \in Runs /\ eng[e].phase = "create" /\ Goes(e, next)
           /\ Keeps(r, {"node", "tries", "age"}) /\ Apart(r)
           /\ run'[r].node = "queued" /\ run'[r].age = 0
<1> USE Typed
<1>1. UNCHANGED <<def, rows, api, record, budget>> /\ r \in Runs /\ eng[e].phase = "create"
  BY DEF create_workflow_node_run
<1>2. Goes(e, next)
  BY MovesTo DEF create_workflow_node_run, Goes
<1>3. /\ RunsTyped' /\ Keeps(r, {"node", "tries", "age"}) /\ Apart(r)
      /\ run'[r].node = "queued" /\ run'[r].tries = 0 /\ run'[r].age = 0
  BY NodeCreated
<1>4. TriesBounded'
  <2>1. def.attempts \in Nat
    BY ScenariosAssumption DEF TypeOK, Scenario
  <2> QED BY <1>1, <1>3, <2>1 DEF TriesBounded, Apart
<1>5. TypeOK'
  BY <1>1, <1>2, <1>3, <1>4, DriveTypes DEF RowsTyped, ClaimsOnly, Goes
<1> QED BY <1>1, <1>2, <1>3, <1>5

LEMMA CreateWaitingEffect ==
    ASSUME TypeOK, NEW e \in Engines, CreateWaiting(e), NEW r, r = eng[e].run
    PROVE  /\ TypeOK' /\ UNCHANGED <<def, rows, api, record, budget>>
           /\ r \in Runs /\ eng[e].phase = "create" /\ def.kind \in Waits
           /\ Keeps(r, {"node", "tries", "age"}) /\ Apart(r) /\ run'[r].node = "queued"
           /\ \/ def.kind \in {"approval", "gate"} /\ Goes(e, "record")
              \/ def.kind \notin {"approval", "gate"} /\ Goes(e, "node")
              \/ def.kind = "await_run" /\ Settles(e, "succeeded")
<1> USE Typed
<1> DEFINE next == IF def.kind \in {"approval", "gate"} THEN "record" ELSE "node"
<1>1. CASE ~(def.kind = "await_run" /\ satisfaction_met)
  <2>1. next \in Phases \ {"idle", "finish"} /\ next # "settle"
    BY DEF Phases
  <2>2. create_workflow_node_run(e, next) /\ def.kind \in Waits
    BY <1>1 DEF CreateWaiting
  <2> QED BY <2>1, <2>2, CreateTypes
<1>2. CASE def.kind = "await_run" /\ satisfaction_met
  <2>1. /\ UNCHANGED <<def, rows, api, record, budget>> /\ r \in Runs /\ eng[e].phase = "create"
        /\ def.kind \in Waits /\ eng' = Settle(e, "succeeded")
    BY <1>2 DEF CreateWaiting
  <2>2. Settles(e, "succeeded")
    BY <2>1, MovesToSettle DEF Settles, Terminal
  <2>3. /\ RunsTyped' /\ Keeps(r, {"node", "age"}) /\ Apart(r)
        /\ run'[r].node = "queued"
    BY <1>2, AwaitCreated
  <2>4. TriesBounded'
    BY <2>1, <2>3, TriesKept, ApartIsLike
  <2>5. TypeOK'
    BY <2>1, <2>2, <2>3, <2>4, DriveTypes DEF RowsTyped, ClaimsOnly, Settles
  <2>6. Keeps(r, {"node", "tries", "age"})
    BY <2>3 DEF Keeps
  <2> QED BY <1>2, <2>1, <2>2, <2>3, <2>5, <2>6
<1> QED BY <1>1, <1>2

LEMMA CreateRecordEffect ==
    ASSUME TypeOK, NEW e \in Engines, CreateRecord(e)
    PROVE  /\ TypeOK' /\ UNCHANGED <<def, run, rows, api, budget>>
           /\ eng[e].run \in Runs /\ eng[e].phase = "record" /\ Goes(e, "node")
<1> USE Typed
<1>1. UNCHANGED <<def, run, rows, api, budget>> /\ eng[e].run \in Runs /\ eng[e].phase = "record"
  BY DEF CreateRecord
<1>2. Goes(e, "node")
  BY MovesTo DEF CreateRecord, Goes, Phases
<1>3. record' \in SharedRecords
  BY DEF CreateRecord, SharedRecords
<1>4. RunsTyped' /\ TriesBounded' /\ RowsTyped' /\ ClaimsOnly
  BY <1>1 DEF RunsTyped, TriesBounded, RowsTyped, ClaimsOnly
<1>5. TypeOK'
  BY <1>1, <1>2, <1>3, <1>4, DriveTypes DEF Goes
<1> QED BY <1>1, <1>2, <1>5

-------------------------------------------------------------------------------

LEMMA AskEffect ==
    ASSUME TypeOK, Asks
    PROVE  /\ TypeOK' /\ UNCHANGED <<def, run, rows, eng, record>>
           /\ api.phase = "idle" /\ api'.phase = "node" /\ api'.run = 0
           /\ def.kind \in Answered
<1> USE Typed
<1>1. PICK V \in {{"succeeded"}, {"succeeded", "blocked"}} : BeginAnswer(0, V)
  BY DEF Asks, deliver_signal, resolve_approval, resolve_workflow_input
<1>2. PICK verdict \in {"succeeded", "blocked"} : api' = [phase |-> "node", run |-> 0, verdict |-> verdict]
  BY <1>1 DEF BeginAnswer
<1>3. /\ UNCHANGED <<def, run, rows, eng, record>> /\ api.phase = "idle"
      /\ api' \in AnswerRecords /\ api'.phase = "node" /\ api'.run = 0 /\ api'.verdict # "none"
  BY <1>1, <1>2, RunsAssumption DEF BeginAnswer, AnswerRecords
<1>4. def.kind \in Answered
  BY DEF Asks, deliver_signal, resolve_approval, resolve_workflow_input, Answered
<1>5. budget' \in [answers : 0..MaxAnswers, trouble : 0..def.trouble]
  BY <1>1, SpendType DEF BeginAnswer
<1>6. RunsTyped' /\ TriesBounded' /\ RowsTyped' /\ ClaimsOnly
  BY <1>3 DEF RunsTyped, TriesBounded, RowsTyped, ClaimsOnly
<1>7. TypeOK'
  BY <1>3, <1>5, <1>6, OtherTypes
<1> QED BY <1>3, <1>4, <1>7

LEMMA AnswerNodeEffect ==
    ASSUME TypeOK, AnswerNode, NEW r, r = api.run
    PROVE  /\ TypeOK' /\ UNCHANGED <<def, rows, eng, record, budget>>
           /\ r \in Runs /\ api.phase = "node" /\ api.verdict \in {"succeeded", "blocked"}
           /\ api'.phase = "run" /\ api'.run = r /\ api'.verdict = api.verdict
           /\ Keeps(r, {"node", "answered"}) /\ Apart(r) /\ run'[r].node = api.verdict
           /\ run[r].answered \/ api.verdict = "succeeded" => run'[r].answered
<1> USE Typed
<1>1. /\ UNCHANGED <<def, rows, eng, record, budget>> /\ r \in Runs /\ api.phase = "node"
      /\ api.verdict \in {"succeeded", "blocked"} /\ api.verdict \in NodeStatuses
  BY DEF AnswerNode, TypeOK, VerdictsAreGiven, AnswerRecords, NodeStatuses, Terminal
<1>2. /\ api' \in AnswerRecords /\ api'.phase = "run" /\ api'.run = r /\ api'.verdict = api.verdict
  BY DEF AnswerNode, TypeOK, AnswerRecords
<1> DEFINE b == run[r].answered \/ api.verdict = "succeeded"
<1>3. b \in BOOLEAN
  OBVIOUS
<1>4. /\ RunsTyped' /\ Keeps(r, {"node", "answered"}) /\ Apart(r)
      /\ run'[r].node = api.verdict /\ run'[r].answered = b
  BY <1>1, <1>3, NodeAnswered
<1>5. TriesBounded'
  BY <1>1, <1>4, TriesKept, ApartIsLike
<1>6. TypeOK'
  BY <1>1, <1>2, <1>4, <1>5, OtherTypes DEF RowsTyped, ClaimsOnly, TypeOK
<1> QED BY <1>1, <1>2, <1>4, <1>6

LEMMA AnswerRunEffect ==
    ASSUME TypeOK, AnswerRun, NEW r, r = api.run
    PROVE  /\ TypeOK' /\ UNCHANGED <<def, rows, eng, record, budget>>
           /\ r \in Runs /\ api.phase = "run"
           /\ \/ /\ api.verdict = "succeeded" /\ run'[r].status = "running"
                 /\ api'.phase = "row" /\ api'.run = r
              \/ /\ api.verdict = "blocked" /\ run'[r].status = "blocked"
                 /\ api' = NoAnswer
           /\ Keeps(r, {"status", "hole"}) /\ Apart(r)
           /\ run'[r].hole = (run[r].hole \/ ~Active(r))
<1> USE Typed
<1> DEFINE s == IF api.verdict = "succeeded" THEN "running" ELSE "blocked"
<1> DEFINE b == run[r].hole \/ ~Active(r)
<1>1. /\ UNCHANGED <<def, rows, eng, record, budget>> /\ r \in Runs /\ api.phase = "run"
      /\ api.verdict \in {"succeeded", "blocked"} /\ s \in Statuses /\ b \in BOOLEAN
  BY DEF AnswerRun, TypeOK, VerdictsAreGiven, AnswerRecords, Statuses
<1>2. NoAnswer \in AnswerRecords /\ NoAnswer.phase = "idle"
  BY RunsAssumption DEF NoAnswer, AnswerRecords
<1>3. /\ api' \in AnswerRecords /\ api'.phase \notin {"node", "run"}
      /\ api.verdict = "succeeded" => api'.phase = "row" /\ api'.run = r
      /\ api.verdict = "blocked" => api' = NoAnswer
  BY <1>1, <1>2 DEF AnswerRun, TypeOK, AnswerRecords
<1>4. /\ RunsTyped' /\ Keeps(r, {"status", "hole"}) /\ Apart(r)
      /\ run'[r].status = s /\ run'[r].hole = b
  BY <1>1, RunAnswered
<1>5. TriesBounded'
  BY <1>1, <1>4, TriesKept, ApartIsLike
<1>6. TypeOK'
  BY <1>1, <1>3, <1>4, <1>5, OtherTypes DEF RowsTyped, ClaimsOnly, TypeOK
<1> QED BY <1>1, <1>3, <1>4, <1>6

LEMMA AnswerRowEffect ==
    ASSUME TypeOK, AnswerRow, NEW r, r = api.run
    PROVE  /\ TypeOK' /\ UNCHANGED <<def, run, eng, record, budget>>
           /\ r \in Runs /\ api.phase = "row" /\ api' = NoAnswer
           /\ RowsApart(r) /\ rows'[r].claimed = {} /\ HasRow(r)'
<1> USE Typed
<1>1. /\ UNCHANGED <<def, run, eng, record, budget>> /\ r \in Runs /\ api.phase = "row" /\ api' = NoAnswer
      /\ rows' = enqueue_ready_node(r, 0) /\ 0 \in 0..Timeout
  BY TimeAssumption DEF AnswerRow
<1>2. NoAnswer \in AnswerRecords /\ NoAnswer.phase = "idle"
  BY RunsAssumption DEF NoAnswer, AnswerRecords
<1>3. RowsTyped' /\ RowsApart(r) /\ rows'[r].claimed = {} /\ HasRow(r)'
  BY <1>1, Enqueued
<1>4. RunsTyped' /\ TriesBounded' /\ ClaimsOnly
  BY <1>1, <1>3 DEF RunsTyped, TriesBounded, ClaimsOnly, RowsApart
<1>5. TypeOK'
  BY <1>1, <1>2, <1>3, <1>4, OtherTypes DEF TypeOK
<1> QED BY <1>1, <1>3, <1>5

LEMMA GateEffect ==
    ASSUME TypeOK, resolve_gate \/ AwaitedEnd
    PROVE  /\ TypeOK' /\ UNCHANGED <<def, run, rows, eng>> /\ def.kind \in {"gate", "await_run"}
           /\ \/ api' = api
              \/ /\ def.kind = "gate" /\ api.phase = "idle"
                 /\ api'.phase = "row" /\ api'.run = 0
<1> USE Typed
<1>1. UNCHANGED <<def, run, rows, eng>> /\ def.kind \in {"gate", "await_run"}
  BY DEF resolve_gate, AwaitedEnd
<1>2. record' \in SharedRecords
  BY DEF resolve_gate, AwaitedEnd, SharedRecords
<1>3. /\ api' \in AnswerRecords /\ (api'.phase \in {"node", "run"} => api'.verdict # "none")
      /\ \/ api' = api
         \/ def.kind = "gate" /\ api.phase = "idle" /\ api'.phase = "row" /\ api'.run = 0
  BY RunsAssumption DEF resolve_gate, AwaitedEnd, TypeOK, AnswerRecords, VerdictsAreGiven
<1>4. budget' \in [answers : 0..MaxAnswers, trouble : 0..def.trouble]
  BY SpendType DEF resolve_gate, AwaitedEnd, TypeOK
<1>5. RunsTyped' /\ TriesBounded' /\ RowsTyped' /\ ClaimsOnly
  BY <1>1 DEF RunsTyped, TriesBounded, RowsTyped, ClaimsOnly
<1>6. TypeOK'
  BY <1>1, <1>2, <1>3, <1>4, <1>5, OtherTypes
<1> QED BY <1>1, <1>3, <1>6

-------------------------------------------------------------------------------
LEMMA LookEffect ==
    ASSUME TypeOK, NEW e \in Engines, process_barrier_node(e) \/ process_throttle_node(e)
    PROVE  /\ TypeOK' /\ UNCHANGED <<def, run, rows, api, record, budget>>
           /\ AtStep(e) /\ def.kind \in {"barrier", "throttle"}
           /\ Settles(e, "timed_out") \/ Goes(e, def.kind)
<1> USE Typed
<1>1. /\ UNCHANGED <<def, run, rows, api, record, budget>>
      /\ AtStep(e) /\ def.kind \in {"barrier", "throttle"}
      /\ eng' = Settle(e, "timed_out") \/ eng' = To(e, def.kind)
  BY DEF process_barrier_node, process_throttle_node, Look, AtNode, AtStep
<1>2. Settles(e, "timed_out") \/ Goes(e, def.kind)
  BY <1>1, MovesTo, MovesToSettle DEF Settles, Goes, Terminal, Phases
<1>3. Sound(e)
  BY <1>1, <1>2, SoundMoves DEF Phases
<1>4. TypeOK'
  BY <1>1, <1>3, DecisionTypes DEF AtStep, Sound
<1> QED BY <1>1, <1>2, <1>4

LEMMA LookedEffect ==
    ASSUME TypeOK, NEW e \in Engines, NEW passes \in BOOLEAN, eng' = Looked(e, passes)
    PROVE  /\ Sound(e)
           /\ \/ run[eng[e].run].node # "parked" /\ passes /\ Creates(e, "succeeded")
              \/ run[eng[e].run].node # "parked" /\ Creates(e, "none")
              \/ run[eng[e].run].node = "parked" /\ passes /\ Settles(e, "succeeded")
              \/ run[eng[e].run].node = "parked" /\ Goes(e, "repoll")
<1> USE Typed
<1>1. CASE run[eng[e].run].node # "parked"
  <2> DEFINE v == IF passes THEN "succeeded" ELSE "none"
  <2>1. eng' = [eng EXCEPT ![e].phase = "create", ![e].verdict = v] /\ v \in {"none"} \cup Terminal
    BY <1>1 DEF Looked, Terminal
  <2> HIDE DEF v
  <2> DEFINE z == [eng[e] EXCEPT !.phase = "create", !.verdict = v]
  <2>4. eng[e] \in DriveRecords /\ eng' = [eng EXCEPT ![e] = z]
    BY <2>1 DEF TypeOK
  <2>5. /\ z \in DriveRecords /\ z.phase = "create" /\ z.verdict = v
        /\ z.frame = eng[e].frame /\ z.run = eng[e].run
    BY <2>1, <2>4 DEF DriveRecords, Phases
  <2> HIDE DEF z
  <2>2. Creates(e, v)
    BY <2>4, <2>5 DEF TypeOK, Creates, Moves
  <2>3. Sound(e)
    BY <2>2 DEF Sound, Creates
  <2> QED BY <1>1, <2>2, <2>3 DEF v
<1>2. CASE run[eng[e].run].node = "parked" /\ passes
  BY <1>2, MovesToSettle, SoundMoves DEF Looked, Settles, Terminal
<1>3. CASE run[eng[e].run].node = "parked" /\ ~passes
  BY <1>3, MovesTo, SoundMoves DEF Looked, Goes, Phases
<1> QED BY <1>1, <1>2, <1>3

LEMMA ArrivalEffect ==
    ASSUME TypeOK, NEW e \in Engines, register_arrival(e), NEW r, r = eng[e].run
    PROVE  /\ TypeOK' /\ UNCHANGED <<def, run, rows, api, budget>>
           /\ r \in Runs /\ eng[e].phase = "barrier"
           /\ record'.arrivals = record.arrivals \cup {r}
           /\ \/ Creates(e, "succeeded") /\ arrivals_complete(record'.arrivals)
              \/ Creates(e, "none")
              \/ Settles(e, "succeeded") /\ arrivals_complete(record'.arrivals)
              \/ Goes(e, "repoll")
<1> USE Typed
<1> DEFINE arrived == record.arrivals \cup {r}
<1> DEFINE passes == arrivals_complete(arrived)
<1>1. /\ UNCHANGED <<def, run, rows, api, budget>> /\ r \in Runs /\ eng[e].phase = "barrier"
      /\ record' = [record EXCEPT !.arrivals = arrived]
      /\ passes \in BOOLEAN /\ eng' = Looked(e, passes) /\ arrived \subseteq Runs
  BY DEF register_arrival, arrivals_complete, SharedRecords
<1>2. record' \in SharedRecords /\ record'.arrivals = arrived
  BY <1>1 DEF SharedRecords
<1> HIDE DEF passes
<1>3. /\ Sound(e)
      /\ \/ Creates(e, "succeeded") /\ passes
         \/ Creates(e, "none")
         \/ Settles(e, "succeeded") /\ passes
         \/ Goes(e, "repoll")
  BY <1>1, LookedEffect
<1>4. RunsTyped' /\ TriesBounded' /\ RowsTyped' /\ ClaimsOnly
  BY <1>1 DEF RunsTyped, TriesBounded, RowsTyped, ClaimsOnly
<1>5. TypeOK'
  BY <1>1, <1>2, <1>3, <1>4, DriveTypes DEF Sound
<1> QED BY <1>1, <1>2, <1>3, <1>5 DEF passes

LEMMA TokenEffect ==
    ASSUME TypeOK, NEW e \in Engines, consume_token(e), NEW r, r = eng[e].run
    PROVE  /\ TypeOK' /\ UNCHANGED <<def, rows, api, budget>>
           /\ r \in Runs /\ eng[e].phase = "throttle" /\ Keeps(r, {"since"}) /\ Apart(r)
           /\ \/ record' = record /\ run' = run
              \/ /\ run'[r].since = 0 /\ record'.status = "open"
                 /\ \/ /\ record.status = "none" \/ record.age >= Window
                       /\ record'.age = 0 /\ record'.used = 1
                    \/ /\ record.status # "none" /\ record.age < Window /\ record.used < MaxPerWindow
                       /\ record'.age = record.age /\ record'.used = record.used + 1
           /\ Creates(e, "succeeded") \/ Creates(e, "none") \/ Settles(e, "succeeded") \/ Goes(e, "repoll")
<1> USE Typed
<1> DEFINE fresh == record.status = "none" \/ record.age >= Window
<1> DEFINE passes == record.status = "none" \/ bucket_has_tokens(record)
<1>1. /\ UNCHANGED <<def, rows, api, budget>> /\ r \in Runs /\ eng[e].phase = "throttle"
      /\ passes \in BOOLEAN /\ eng' = Looked(e, passes)
  BY DEF consume_token, bucket_has_tokens
<1>2. /\ Sound(e)
      /\ Creates(e, "succeeded") \/ Creates(e, "none") \/ Settles(e, "succeeded") \/ Goes(e, "repoll")
  BY <1>1, LookedEffect
<1>3. /\ RunsTyped' /\ Keeps(r, {"since"}) /\ Apart(r)
      /\ passes => run'[r].since = 0
      /\ ~passes => run' = run
  <2>1. CASE passes
    <3>1. run' = [run EXCEPT ![r].since = 0]
      BY <2>1 DEF consume_token
    <3> QED BY <1>1, <2>1, <3>1, SinceWritten
  <2>2. CASE ~passes
    <3>1. run' = run
      BY <2>2 DEF consume_token
    <3> QED BY <2>2, <3>1 DEF RunsTyped, Keeps, Apart
  <2> QED BY <2>1, <2>2
<1>4. /\ record' \in SharedRecords
      /\ ~passes => record' = record
      /\ passes /\ fresh => record'.status = "open" /\ record'.age = 0 /\ record'.used = 1
      /\ passes /\ ~fresh => /\ record.used < MaxPerWindow /\ record.age < Window
                             /\ record'.status = "open" /\ record'.age = record.age
                             /\ record'.used = record.used + 1
  <2> DEFINE a == IF fresh THEN 0 ELSE record.age
  <2> DEFINE u == IF fresh THEN 1 ELSE record.used + 1
  <2>1. ~passes => record' = record
    BY DEF consume_token
  <2>2. passes => record' = [record EXCEPT !.status = "open", !.age = a, !.used = u]
    BY DEF consume_token, SharedRecords
  <2>3. a \in 0..Timeout /\ u \in Nat
    BY TimeAssumption DEF SharedRecords
  <2>4. passes /\ ~fresh => record.used < MaxPerWindow /\ record.age < Window
    BY TimeAssumption DEF bucket_has_tokens, Window, SharedRecords
  <2> HIDE DEF passes, fresh, a, u
  <2>5. passes => record' \in SharedRecords /\ record'.status = "open" /\ record'.age = a /\ record'.used = u
    BY <2>2, <2>3 DEF SharedRecords
  <2> QED BY <2>1, <2>4, <2>5 DEF a, u
<1>5. TriesBounded'
  BY <1>1, <1>3, TriesKept, ApartIsLike
<1>6. TypeOK'
  BY <1>1, <1>2, <1>3, <1>4, <1>5, DriveTypes DEF Sound, RowsTyped, ClaimsOnly
<1> QED BY <1>1, <1>2, <1>3, <1>4, <1>6

LEMMA CreateSharedEffect ==
    ASSUME TypeOK, NEW e \in Engines, CreateShared(e), NEW r, r = eng[e].run
    PROVE  /\ TypeOK' /\ UNCHANGED <<def, rows, api, record, budget>>
           /\ r \in Runs /\ eng[e].phase = "create" /\ def.kind \in {"barrier", "throttle", "cooldown"}
           /\ Keeps(r, {"node", "tries", "age"}) /\ Apart(r) /\ run'[r].node = "queued"
           /\ \/ def.kind = "cooldown" /\ Goes(e, "cooldown")
              \/ def.kind # "cooldown" /\ eng[e].verdict = "succeeded" /\ Goes(e, "settle")
              \/ def.kind # "cooldown" /\ Goes(e, "node")
<1> DEFINE next == IF def.kind = "cooldown" THEN "cooldown"
                   ELSE IF eng[e].verdict = "succeeded" THEN "settle" ELSE "node"
<1>1. /\ next \in Phases \ {"idle", "finish"} /\ (next = "settle" => eng[e].verdict # "none")
      /\ create_workflow_node_run(e, next) /\ def.kind \in {"barrier", "throttle", "cooldown"}
  BY DEF Phases, CreateShared
<1>2. /\ next = "cooldown" => def.kind = "cooldown"
      /\ next = "settle" => def.kind # "cooldown" /\ eng[e].verdict = "succeeded"
      /\ next = "node" => def.kind # "cooldown"
      /\ next \in {"cooldown", "settle", "node"}
  OBVIOUS
<1> HIDE DEF next
<1>3. /\ TypeOK' /\ UNCHANGED <<def, rows, api, record, budget>>
      /\ r \in Runs /\ eng[e].phase = "create" /\ Goes(e, next)
      /\ Keeps(r, {"node", "tries", "age"}) /\ Apart(r) /\ run'[r].node = "queued"
  BY <1>1, CreateTypes
<1> QED BY <1>1, <1>2, <1>3

LEMMA CooldownEffect ==
    ASSUME TypeOK, NEW e \in Engines, process_cooldown_node(e)
    PROVE  /\ TypeOK' /\ UNCHANGED <<def, run, rows, api, record, budget>>
           /\ AtStep(e) /\ def.kind = "cooldown" /\ Goes(e, "create")
<1> USE Typed
<1>1. /\ UNCHANGED <<def, run, rows, api, record, budget>> /\ AtStep(e) /\ def.kind = "cooldown"
      /\ eng' = To(e, "create")
  BY DEF process_cooldown_node, AtNode, AtStep
<1>2. Goes(e, "create") /\ Sound(e)
  BY <1>1, MovesTo, SoundMoves DEF Goes, Phases
<1> QED BY <1>1, <1>2, DecisionTypes DEF AtStep, Sound

LEMMA StampEffect ==
    ASSUME TypeOK, NEW e \in Engines, stamp_cooldown(e), NEW r, r = eng[e].run
    PROVE  /\ TypeOK' /\ UNCHANGED <<def, rows, api, budget>>
           /\ r \in Runs /\ eng[e].phase = "cooldown" /\ Keeps(r, {"since"}) /\ Apart(r)
           /\ \/ /\ record.status = "none" \/ record.age >= Window
                 /\ run'[r].since = 0 /\ record'.status = "open" /\ record'.age = 0
                 /\ Settles(e, "succeeded")
              \/ /\ record.status # "none" /\ record' = record /\ run' = run /\ Goes(e, "skip")
<1> USE Typed
<1>1. UNCHANGED <<def, rows, api, budget>> /\ r \in Runs /\ eng[e].phase = "cooldown"
  BY DEF stamp_cooldown
<1>2. CASE window_elapsed(record)
  <2>1. /\ run' = [run EXCEPT ![r].since = 0] /\ eng' = Settle(e, "succeeded")
        /\ record' = [record EXCEPT !.status = "open", !.age = 0]
        /\ record.status = "none" \/ record.age >= Window
    BY <1>2 DEF stamp_cooldown, window_elapsed
  <2>2. RunsTyped' /\ Keeps(r, {"since"}) /\ run'[r].since = 0 /\ Apart(r)
    BY <1>1, <2>1, SinceWritten
  <2>3. Settles(e, "succeeded") /\ Sound(e)
    BY <2>1, MovesToSettle, SoundMoves DEF Settles, Terminal
  <2>4. record' \in SharedRecords /\ record'.status = "open" /\ record'.age = 0
    <3>1. 0 \in 0..Timeout /\ record \in SharedRecords
      BY TimeAssumption
    <3> QED BY <2>1, <3>1 DEF SharedRecords
  <2>5. TriesBounded'
    BY <1>1, <2>2, TriesKept, ApartIsLike
  <2>6. TypeOK'
    BY <1>1, <2>2, <2>3, <2>4, <2>5, DriveTypes DEF Sound, RowsTyped, ClaimsOnly
  <2> QED BY <1>1, <2>1, <2>2, <2>3, <2>4, <2>6
<1>3. CASE ~window_elapsed(record)
  <2>1. run' = run /\ record' = record /\ eng' = To(e, "skip") /\ record.status # "none"
    BY <1>3 DEF stamp_cooldown, window_elapsed
  <2>2. Goes(e, "skip") /\ Sound(e)
    BY <2>1, MovesTo, SoundMoves DEF Goes, Phases
  <2>3. TypeOK'
    BY <1>1, <2>1, <2>2, DecisionTypes DEF Sound
  <2>4. Keeps(r, {"since"}) /\ Apart(r)
    BY <2>1 DEF Keeps, Apart
  <2> QED BY <1>1, <2>1, <2>2, <2>3, <2>4
<1> QED BY <1>2, <1>3

LEMMA SkipNodeEffect ==
    ASSUME TypeOK, NEW e \in Engines, SkipNode(e), NEW r, r = eng[e].run
    PROVE  /\ TypeOK' /\ UNCHANGED <<def, rows, api, record, budget>>
           /\ r \in Runs /\ eng[e].phase = "skip" /\ Goes(e, "skip_run")
           /\ Keeps(r, {"node"}) /\ Apart(r) /\ run'[r].node = "succeeded"
<1> USE Typed
<1>1. /\ UNCHANGED <<def, rows, api, record, budget>> /\ r \in Runs /\ eng[e].phase = "skip"
      /\ eng' = To(e, "skip_run") /\ run' = [run EXCEPT ![r].node = "succeeded"]
      /\ "succeeded" \in NodeStatuses
  BY DEF SkipNode, NodeStatuses, Terminal
<1>2. Goes(e, "skip_run") /\ Sound(e)
  BY <1>1, MovesTo, SoundMoves DEF Goes, Phases
<1>3. RunsTyped' /\ Keeps(r, {"node"}) /\ run'[r].node = "succeeded" /\ Apart(r)
  BY <1>1, NodeWritten
<1>4. TriesBounded'
  BY <1>1, <1>3, TriesKept, ApartIsLike
<1>5. TypeOK'
  BY <1>1, <1>2, <1>3, <1>4, DriveTypes DEF Sound, RowsTyped, ClaimsOnly
<1> QED BY <1>1, <1>2, <1>3, <1>5

LEMMA SkipRunEffect ==
    ASSUME TypeOK, NEW e \in Engines, SkipRun(e), NEW r, r = eng[e].run
    PROVE  /\ TypeOK' /\ UNCHANGED <<def, api, record, budget>>
           /\ r \in Runs /\ eng[e].phase = "skip_run" /\ Goes(e, "hook")
           /\ Keeps(r, {"status"}) /\ Apart(r) /\ run'[r].status = "succeeded"
           /\ RowsApart(r) /\ rows'[r] = NoRows
<1> USE Typed
<1>1. /\ UNCHANGED <<def, api, record, budget>> /\ r \in Runs /\ eng[e].phase = "skip_run"
      /\ eng' = To(e, "hook") /\ run' = [run EXCEPT ![r].status = "succeeded"]
      /\ rows' = [rows EXCEPT ![r] = NoRows] /\ "succeeded" \in Statuses
  BY DEF SkipRun, RowsAfter, Statuses, Terminal
<1>2. Goes(e, "hook") /\ Sound(e)
  BY <1>1, MovesTo, SoundMoves DEF Goes, Phases
<1>3. RunsTyped' /\ Keeps(r, {"status"}) /\ run'[r].status = "succeeded" /\ Apart(r)
  BY <1>1, StatusWritten
<1>4. TriesBounded'
  BY <1>1, <1>3, TriesKept, ApartIsLike
<1>5. RowsTyped' /\ RowsApart(r) /\ rows'[r] = NoRows
  BY <1>1, Cleared
<1>6. TypeOK'
  BY <1>1, <1>2, <1>3, <1>4, <1>5, NoRowsType, DriveTypes DEF Sound, ClaimsOnly, RowsApart
<1> QED BY <1>1, <1>2, <1>3, <1>5, <1>6

-------------------------------------------------------------------------------
LEMMA StartBodyEffect ==
    ASSUME TypeOK, NEW e \in Engines, StartBody(e), NEW c, c = eng[e].run
    PROVE  /\ TypeOK' /\ UNCHANGED <<def, rows, api, record, budget>>
           /\ AtStep(e) /\ c \in Runs /\ def.kind \in Parents /\ Goes(e, "hook")
           /\ IsChild(c) /\ run'[c].body = "busy"
           /\ \/ def.body = "parks" /\ Keeps(c, {"body", "linked", "hole"}) /\ LikeApart(c) /\ Holed(c)
                 /\ ~run'[c].linked
              \/ def.body # "parks" /\ Keeps(c, {"body"}) /\ Apart(c)
<1> USE Typed
<1>1. /\ UNCHANGED <<def, rows, api, record, budget>> /\ AtStep(e) /\ c \in Runs
      /\ def.kind \in Parents /\ IsChild(c) /\ eng' = To(e, "hook")
  BY DEF StartBody, AtNode, AtStep, Parents
<1>2. Goes(e, "hook") /\ Sound(e)
  BY <1>1, MovesTo, SoundMoves DEF Goes, Phases
<1>3. CASE def.body = "parks"
  <2>1. /\ RunsTyped' /\ Keeps(c, {"body", "linked", "hole"}) /\ LikeApart(c) /\ Holed(c)
        /\ run'[c].body = "busy" /\ ~run'[c].linked
    BY <1>3, LinkLost
  <2>2. TriesBounded'
    BY <1>1, <2>1, TriesKept
  <2>3. TypeOK'
    BY <1>1, <1>2, <2>1, <2>2, DriveTypes DEF Sound, RowsTyped, ClaimsOnly, AtStep
  <2> QED BY <1>1, <1>2, <1>3, <2>1, <2>3
<1>4. CASE def.body # "parks"
  <2>1. run' = [run EXCEPT ![c].body = "busy"]
    BY <1>4 DEF StartBody
  <2>2. RunsTyped' /\ Keeps(c, {"body"}) /\ run'[c].body = "busy" /\ Apart(c)
    BY <1>1, <2>1, BodyWritten
  <2>3. TriesBounded'
    BY <1>1, <2>2, TriesKept, ApartIsLike
  <2>4. TypeOK'
    BY <1>1, <1>2, <2>2, <2>3, DriveTypes DEF Sound, RowsTyped, ClaimsOnly, AtStep
  <2> QED BY <1>1, <1>2, <1>4, <2>2, <2>4
<1> QED BY <1>3, <1>4

LEMMA FinishChildEffect ==
    ASSUME TypeOK, NEW e \in Engines, FinishChild(e), NEW c, c = eng[e].run
    PROVE  /\ TypeOK' /\ UNCHANGED <<def, api, record, budget>>
           /\ AtStep(e) /\ c \in Runs /\ def.kind \in Parents /\ Goes(e, "hook")
           /\ IsChild(c) /\ ~AtOwnNode(c)
           /\ Keeps(c, {"status"}) /\ Apart(c) /\ run'[c].status \in Terminal
           /\ RowsApart(c) /\ rows'[c] = NoRows
<1> USE Typed
<1>1. /\ UNCHANGED <<def, api, record, budget>> /\ AtStep(e) /\ c \in Runs
      /\ def.kind \in Parents /\ IsChild(c) /\ ~AtOwnNode(c) /\ eng' = To(e, "hook")
      /\ run[c].body \in Terminal /\ run' = [run EXCEPT ![c].status = run[c].body]
      /\ rows' = [rows EXCEPT ![c] = NoRows]
  BY DEF FinishChild, AtNode, AtStep, Parents
<1>2. Goes(e, "hook") /\ Sound(e)
  BY <1>1, MovesTo, SoundMoves DEF Goes, Phases
<1>3. RunsTyped' /\ Keeps(c, {"status"}) /\ run'[c].status = run[c].body /\ Apart(c)
  BY <1>1, StatusWritten DEF Statuses
<1>4. RowsTyped' /\ RowsApart(c) /\ rows'[c] = NoRows
  BY <1>1, Cleared
<1>5. TriesBounded'
  BY <1>1, <1>3, TriesKept, ApartIsLike
<1>6. TypeOK'
  BY <1>1, <1>2, <1>3, <1>4, <1>5, NoRowsType, DriveTypes DEF Sound, RowsApart, ClaimsOnly, AtStep
<1> QED BY <1>1, <1>2, <1>3, <1>4, <1>6

LEMMA AwaitBodyEffect ==
    ASSUME TypeOK, NEW e \in Engines, AwaitBody(e)
    PROVE  /\ TypeOK' /\ UNCHANGED <<def, run, rows, api, record, budget>>
           /\ AtStep(e) /\ def.kind \in Parents /\ Goes(e, "hook") /\ run[eng[e].run].body = "busy"
<1> USE Typed
<1>1. /\ UNCHANGED <<def, run, rows, api, record, budget>> /\ AtStep(e) /\ def.kind \in Parents
      /\ eng' = To(e, "hook") /\ run[eng[e].run].body = "busy"
  BY DEF AwaitBody, AtNode, AtStep, Parents
<1>2. Goes(e, "hook") /\ Sound(e)
  BY <1>1, MovesTo, SoundMoves DEF Goes, Phases
<1> QED BY <1>1, <1>2, DecisionTypes DEF AtStep, Sound

LEMMA BodyEndsEffect ==
    ASSUME TypeOK, NEW c \in Runs, BodyEnds(c)
    PROVE  /\ TypeOK' /\ UNCHANGED <<def, eng, api, record, budget>>
           /\ Active(c) /\ IsChild(c) /\ Keeps(c, {"body"}) /\ Apart(c) /\ run'[c].body # "none"
           /\ RowsApart(c) /\ rows'[c].claimed = {} /\ HasRow(c)'
<1> USE Typed
<1>1. /\ UNCHANGED <<def, eng, api, record, budget>> /\ Active(c) /\ IsChild(c)
      /\ rows' = enqueue_ready_node(c, 0) /\ 0 \in 0..Timeout
  BY TimeAssumption DEF BodyEnds, IsChild
<1>2. PICK b \in {"succeeded", "failed"} : run' = [run EXCEPT ![c].body = b]
  BY DEF BodyEnds
<1>3. RunsTyped' /\ Keeps(c, {"body"}) /\ run'[c].body = b /\ Apart(c)
  BY <1>2, BodyWritten
<1>4. RowsTyped' /\ RowsApart(c) /\ rows'[c].claimed = {} /\ HasRow(c)'
  BY <1>1, Enqueued
<1>5. TriesBounded'
  BY <1>1, <1>3, TriesKept, ApartIsLike
<1>6. TypeOK'
  BY <1>1, <1>3, <1>4, <1>5, OtherTypes DEF TypeOK, VerdictsAreGiven, ClaimsOnly, RowsApart
<1> QED BY <1>1, <1>3, <1>4, <1>6

LEMMA MapEffect ==
    ASSUME TypeOK, NEW e \in Engines, process_map_node(e), NEW r, r = eng[e].run
    PROVE  /\ TypeOK' /\ UNCHANGED <<def, run, rows, api, record, budget>>
           /\ AtStep(e) /\ r \in Runs /\ def.kind = "map" /\ AtOwnNode(r)
           /\ \/ run[r].node = "none" /\ Goes(e, "create")
              \/ Settles(e, "timed_out")
              \/ Goes(e, "harvest")
<1> USE Typed
<1>1. /\ UNCHANGED <<def, run, rows, api, record, budget>> /\ AtStep(e) /\ r \in Runs
      /\ def.kind = "map" /\ AtOwnNode(r)
      /\ \/ run[r].node = "none" /\ eng' = To(e, "create")
         \/ eng' = Settle(e, "timed_out")
         \/ eng' = To(e, "harvest")
  BY DEF process_map_node, AtNode, AtStep
<1>2. \/ run[r].node = "none" /\ Goes(e, "create")
      \/ Settles(e, "timed_out")
      \/ Goes(e, "harvest")
  BY <1>1, MovesTo, MovesToSettle DEF Goes, Settles, Phases, Terminal
<1>3. Sound(e)
  BY <1>2, SoundMoves DEF Phases
<1>4. TypeOK'
  BY <1>1, <1>3, DecisionTypes DEF AtStep, Sound
<1> QED BY <1>1, <1>2, <1>4

LEMMA CreateMapEffect ==
    ASSUME TypeOK, NEW e \in Engines, CreateMap(e), NEW r, r = eng[e].run
    PROVE  /\ TypeOK' /\ UNCHANGED <<def, rows, api, record, budget>>
           /\ r \in Runs /\ eng[e].phase = "create" /\ def.kind = "map" /\ Goes(e, "harvest")
           /\ Keeps(r, {"node", "tries", "age"}) /\ Apart(r) /\ run'[r].node = "queued"
<1>1. "harvest" \in Phases \ {"idle", "finish"} /\ create_workflow_node_run(e, "harvest") /\ def.kind = "map"
  BY DEF CreateMap, Phases
<1> QED BY <1>1, CreateTypes

LEMMA HarvestEffect ==
    ASSUME TypeOK, NEW e \in Engines, Harvest(e), NEW r, r = eng[e].run
    PROVE  /\ TypeOK' /\ UNCHANGED <<def, run, rows, api, record, budget>>
           /\ r \in Runs /\ eng[e].phase = "harvest"
           /\ \/ flight_failed(run[r].frame.flight) /\ Goes(e, "cancel")
              \/ /\ ~flight_failed(run[r].frame.flight)
                 /\ Moves(e, "fan", eng[e].verdict, eng'[e].frame) /\ eng'[e].frame \in Frames
                 /\ Harvested(eng'[e].frame, run[r].frame)
<1> USE Typed
<1> DEFINE old == run[r].frame
<1> DEFINE over == {f \in old.flight : run[f[2]].status \in Terminal}
<1> DEFINE fr == [old EXCEPT !.flight = @ \ over, !.done = @ \cup {f[1] : f \in over}]
<1>1. /\ UNCHANGED <<def, run, rows, api, record, budget>> /\ r \in Runs /\ eng[e].phase = "harvest"
      /\ old \in Frames
  BY DEF Harvest, RunRecords
<1>2. CASE flight_failed(old.flight)
  <2>1. eng' = To(e, "cancel")
    BY <1>2 DEF Harvest
  <2>2. Goes(e, "cancel") /\ Sound(e)
    BY <2>1, MovesTo, SoundMoves DEF Goes, Phases
  <2>3. TypeOK'
    BY <1>1, <2>2, DecisionTypes DEF Sound
  <2> QED BY <1>1, <1>2, <2>2, <2>3
<1>3. CASE ~flight_failed(old.flight)
  <2> DEFINE z == [eng[e] EXCEPT !.phase = "fan", !.frame = fr]
  <2>1. eng' = [eng EXCEPT ![e] = z]
    BY <1>3 DEF Harvest, TypeOK
  <2>2. over \subseteq old.flight /\ old.flight \subseteq Nat \X Runs /\ old.done \subseteq Nat
    BY <1>1 DEF Frames
  <2>3. {f[1] : f \in over} \subseteq Nat
    BY <2>2
  <2>4. /\ fr \in Frames /\ fr.next = old.next /\ fr.flight = old.flight \ over
        /\ fr.done = old.done \cup {f[1] : f \in over}
    <3> DEFINE A == old.flight \ over
    <3> DEFINE B == old.done \cup {f[1] : f \in over}
    <3>1. A \in SUBSET (Nat \X Runs) /\ B \in SUBSET Nat /\ old \in Frames /\ 0 \in Nat
      BY <1>1, <2>2, <2>3
    <3>2. fr = [old EXCEPT !.flight = A, !.done = B]
      OBVIOUS
    <3> HIDE DEF old, A, B
    <3>3. /\ [old EXCEPT !.flight = A, !.done = B] \in Frames
          /\ [old EXCEPT !.flight = A, !.done = B].next = old.next
          /\ [old EXCEPT !.flight = A, !.done = B].flight = A
          /\ [old EXCEPT !.flight = A, !.done = B].done = B
      BY <3>1 DEF Frames
    <3> QED BY <3>2, <3>3 DEF A, B
  <2>5. Harvested(fr, old)
    BY <2>4 DEF Harvested
  <2>9. eng[e] \in DriveRecords /\ fr \in Frames
    BY <2>4 DEF TypeOK
  <2> HIDE DEF fr
  <2>6. z \in DriveRecords /\ z.phase = "fan" /\ z.verdict = eng[e].verdict /\ z.frame = fr /\ z.run = eng[e].run
    BY <2>9 DEF DriveRecords, Phases
  <2> HIDE DEF z
  <2>7. Moves(e, "fan", eng[e].verdict, fr) /\ eng'[e].frame = fr
    BY <2>1, <2>6 DEF TypeOK, Moves
  <2>8. TypeOK'
    BY <1>1, <2>7, DecisionTypes
  <2> QED BY <1>1, <1>3, <2>4, <2>5, <2>7, <2>8
<1> QED BY <1>2, <1>3

LEMMA CancelChildrenEffect ==
    ASSUME TypeOK, NEW e \in Engines, cancel_children(e), NEW r, r = eng[e].run
    PROVE  /\ TypeOK' /\ UNCHANGED <<def, api, record, budget>>
           /\ r \in Runs /\ eng[e].phase = "cancel"
           /\ \/ /\ \A f \in run[r].frame.flight : ~Active(f[2])
                 /\ UNCHANGED <<run, rows>> /\ Settles(e, "failed")
              \/ \E c \in Runs :
                 /\ \E f \in run[r].frame.flight : f[2] = c /\ Active(c)
                 /\ UNCHANGED eng /\ Keeps(c, {"status"}) /\ Apart(c) /\ run'[c].status = "canceled"
                 /\ RowsApart(c) /\ rows'[c] = NoRows
<1> USE Typed
<1> DEFINE left == {f[2] : f \in {g \in run[r].frame.flight : Active(g[2])}}
<1>1. /\ UNCHANGED <<def, api, record, budget>> /\ r \in Runs /\ eng[e].phase = "cancel"
      /\ run[r].frame.flight \subseteq Nat \X Runs
  BY DEF cancel_children, RunRecords, Frames
<1>2. CASE left = {} /\ eng' = Settle(e, "failed") /\ UNCHANGED <<run, rows>>
  <2>1. Settles(e, "failed") /\ Sound(e)
    BY <1>2, MovesToSettle, SoundMoves DEF Settles, Terminal
  <2>2. TypeOK'
    BY <1>1, <1>2, <2>1, DecisionTypes DEF Sound
  <2> QED BY <1>1, <1>2, <2>1, <2>2
<1>3. ASSUME NEW c \in left, run' = [run EXCEPT ![c].status = "canceled"],
             rows' = [rows EXCEPT ![c] = NoRows], UNCHANGED eng
      PROVE  /\ TypeOK' /\ c \in Runs
             /\ \E f \in run[r].frame.flight : f[2] = c /\ Active(c)
             /\ UNCHANGED eng /\ Keeps(c, {"status"}) /\ Apart(c) /\ run'[c].status = "canceled"
             /\ RowsApart(c) /\ rows'[c] = NoRows
  <2>1. c \in Runs /\ \E f \in run[r].frame.flight : f[2] = c /\ Active(c)
    BY <1>1, <1>3
  <2>2. RunsTyped' /\ Keeps(c, {"status"}) /\ run'[c].status = "canceled" /\ Apart(c)
    BY <1>3, <2>1, StatusWritten DEF Statuses, Terminal
  <2>3. RowsTyped' /\ RowsApart(c) /\ rows'[c] = NoRows
    BY <1>3, <2>1, Cleared
  <2>4. TriesBounded'
    BY <1>1, <2>1, <2>2, TriesKept, ApartIsLike
  <2>5. TypeOK'
    BY <1>1, <1>3, <2>2, <2>3, <2>4, NoRowsType, OtherTypes DEF TypeOK, VerdictsAreGiven, RowsApart, ClaimsOnly
  <2> QED BY <1>3, <2>1, <2>2, <2>3, <2>5
<1>4. \/ left = {} /\ eng' = Settle(e, "failed") /\ UNCHANGED <<run, rows>>
      \/ \E c \in left : /\ run' = [run EXCEPT ![c].status = "canceled"]
                         /\ rows' = [rows EXCEPT ![c] = NoRows] /\ UNCHANGED eng
  BY DEF cancel_children
<1> HIDE DEF left
<1>5. CASE \E c \in left : /\ run' = [run EXCEPT ![c].status = "canceled"]
                           /\ rows' = [rows EXCEPT ![c] = NoRows] /\ UNCHANGED eng
  <2>1. PICK c \in left : /\ run' = [run EXCEPT ![c].status = "canceled"]
                          /\ rows' = [rows EXCEPT ![c] = NoRows] /\ UNCHANGED eng
    BY <1>5
  <2>2. /\ TypeOK' /\ c \in Runs
        /\ \E f \in run[r].frame.flight : f[2] = c /\ Active(c)
        /\ UNCHANGED eng /\ Keeps(c, {"status"}) /\ Apart(c) /\ run'[c].status = "canceled"
        /\ RowsApart(c) /\ rows'[c] = NoRows
    BY <1>3, <2>1
  <2> QED BY <1>1, <2>2
<1> QED BY <1>2, <1>4, <1>5

LEMMA FreshIsUnused ==
    ASSUME Unused # {}, NEW c, c = Fresh
    PROVE  c \in Runs /\ ~Present(c)
<1>1. Fresh \in Unused
  BY DEF Fresh
<1> QED BY <1>1 DEF Unused

LEMMA SpawnsEffect ==
    ASSUME TypeOK, NEW r \in Runs, NEW i \in Nat, Unused # {}, NEW c, c = Fresh,
           run' = Spawned(r, c, i), rows' = [rows EXCEPT ![c] = [NoRows EXCEPT !.due = 1]],
           UNCHANGED def
    PROVE  Spawns(r, c, i) /\ RunsTyped' /\ RowsTyped' /\ TriesBounded' /\ ClaimsOnly
<1>1. c \in Runs /\ ~Present(c) /\ RunsTyped /\ RowsTyped
  BY FreshIsUnused, Typed
<1>2. /\ RunsTyped' /\ Keeps(c, {"status", "parent", "linked", "body", "index", "node"}) /\ Apart(c)
      /\ run'[c].status = "queued" /\ run'[c].parent = r /\ run'[c].linked
      /\ run'[c].body = "todo" /\ run'[c].index = i /\ run'[c].node \in {"none", "succeeded"}
  BY <1>1, ChildSpawned
<1>3. RowsTyped' /\ RowsApart(c) /\ rows'[c].due = 1 /\ rows'[c].claimed = {}
  BY <1>1, RowStarted
<1>4. TriesBounded'
  BY <1>1, <1>2, TriesKept, ApartIsLike
<1> QED BY <1>1, <1>2, <1>3, <1>4 DEF Spawns, ClaimsOnly, RowsApart

LEMMA FanOutEffect ==
    ASSUME TypeOK, NEW e \in Engines, FanOut(e), NEW r, r = eng[e].run
    PROVE  /\ TypeOK' /\ UNCHANGED <<def, api, record, budget>>
           /\ r \in Runs /\ eng[e].phase = "fan"
           /\ \/ \E c \in Runs :
                 /\ Spawns(r, c, eng[e].frame.next) /\ eng[e].frame.next < def.items
                 /\ Moves(e, "fan", eng[e].verdict, eng'[e].frame)
                 /\ eng'[e].frame.next = eng[e].frame.next + 1
                 /\ eng'[e].frame.done = eng[e].frame.done
                 /\ eng'[e].frame.flight = eng[e].frame.flight \cup {<<eng[e].frame.next, c>>}
              \/ /\ UNCHANGED <<run, rows>>
                 /\ eng[e].frame.flight = {} => eng[e].frame.next >= def.items
                 /\ \/ /\ Settles(e, "succeeded") /\ Cardinality(eng[e].frame.done) >= def.items
                       /\ eng[e].frame.flight = {}
                    \/ /\ Goes(e, "node")
                       /\ ~(Cardinality(eng[e].frame.done) >= def.items /\ eng[e].frame.flight = {})
<1> DEFINE frame == eng[e].frame
<1> DEFINE wants == Cardinality(frame.flight) < def.width /\ frame.next < def.items
<1>1. /\ UNCHANGED <<def, api, record, budget>> /\ r \in Runs /\ eng[e].phase = "fan"
      /\ frame \in Frames /\ eng[e] \in DriveRecords
  BY Typed DEF FanOut, TypeOK
<1>2. CASE ~wants
  <2>1. /\ UNCHANGED <<run, rows>>
        /\ \/ /\ Cardinality(frame.done) >= def.items /\ frame.flight = {}
              /\ eng' = Settle(e, "succeeded")
           \/ /\ ~(Cardinality(frame.done) >= def.items /\ frame.flight = {})
              /\ eng' = To(e, "node")
    BY <1>2 DEF FanOut
  <2>2. /\ Sound(e)
        /\ \/ /\ Cardinality(frame.done) >= def.items /\ frame.flight = {}
              /\ Settles(e, "succeeded")
           \/ /\ ~(Cardinality(frame.done) >= def.items /\ frame.flight = {})
              /\ Goes(e, "node")
    BY <2>1, MovesTo, MovesToSettle, SoundMoves DEF Goes, Settles, Phases, Terminal
  <2>3. TypeOK'
    BY <1>1, <2>1, <2>2, DecisionTypes DEF Sound
  <2>4. frame.flight = {} => frame.next >= def.items
    <3>1. def.items \in Nat /\ def.width \in Nat \ {0} /\ frame.next \in Nat
      BY <1>1, ScenariosAssumption DEF TypeOK, Scenario, Frames
    <3> QED BY <1>2, <3>1, FS_EmptySet
  <2> QED BY <1>1, <2>1, <2>2, <2>3, <2>4
<1>3. CASE wants
  <2> DEFINE c == Fresh
  <2> DEFINE fr == [frame EXCEPT !.next = @ + 1, !.flight = @ \cup {<<frame.next, c>>}]
  <2> DEFINE z == [eng[e] EXCEPT !.frame = fr]
  <2>1. /\ Unused # {} /\ run' = Spawned(r, c, frame.next)
        /\ rows' = [rows EXCEPT ![c] = [NoRows EXCEPT !.due = 1]]
        /\ eng' = [eng EXCEPT ![e] = z]
    BY <1>3 DEF FanOut
  <2>2. frame.next \in Nat /\ frame.flight \in SUBSET (Nat \X Runs)
    BY <1>1 DEF Frames
  <2>3. Spawns(r, c, frame.next) /\ RunsTyped' /\ RowsTyped' /\ TriesBounded' /\ ClaimsOnly
    BY <1>1, <2>1, <2>2, SpawnsEffect
  <2>4. c \in Runs
    BY <2>3 DEF Spawns
  <2> HIDE DEF c, frame
  <2>5. /\ fr \in Frames /\ fr.next = frame.next + 1 /\ fr.done = frame.done
        /\ fr.flight = frame.flight \cup {<<frame.next, c>>}
    <3> DEFINE A == frame.flight \cup {<<frame.next, c>>}
    <3> DEFINE n == frame.next + 1
    <3>1. A \in SUBSET (Nat \X Runs) /\ n \in Nat /\ frame \in Frames
      BY <1>1, <2>2, <2>4
    <3>2. fr = [frame EXCEPT !.next = n, !.flight = A]
      OBVIOUS
    <3> HIDE DEF n, A, fr
    <3> QED BY <3>1, <3>2 DEF Frames, n, A
  <2> HIDE DEF fr
  <2>6. /\ z \in DriveRecords /\ z.phase = "fan" /\ z.verdict = eng[e].verdict /\ z.frame = fr
        /\ z.run = eng[e].run
    BY <1>1, <2>5 DEF DriveRecords
  <2> HIDE DEF z
  <2>7. Moves(e, "fan", eng[e].verdict, fr) /\ eng'[e].frame = fr
    BY <2>1, <2>6 DEF TypeOK, Moves
  <2>8. TypeOK'
    <3>1. record' \in SharedRecords /\ eng[e].phase # "idle"
      BY <1>1 DEF TypeOK
    <3> QED BY <1>1, <2>3, <2>7, <3>1, DriveTypes
  <2> QED BY <1>1, <1>3, <2>3, <2>4, <2>5, <2>7, <2>8 DEF frame
<1> QED BY <1>2, <1>3

-------------------------------------------------------------------------------
LEMMA SubflowEffect ==
    ASSUME TypeOK, NEW e \in Engines, process_subflow_node(e), NEW r, r = eng[e].run
    PROVE  /\ TypeOK' /\ UNCHANGED <<def, run, rows, api, record, budget>>
           /\ AtStep(e) /\ r \in Runs /\ def.kind = "subflow" /\ ~IsChild(r)
           /\ \/ Goes(e, "spawn")
              \/ /\ \E f \in run[r].frame.flight : TRUE
                 /\ \/ def.body = "detached" /\ Settles(e, "succeeded")
                    \/ /\ Settles(e, "succeeded")
                       /\ \A f \in run[r].frame.flight : run[f[2]].status = "succeeded"
                    \/ /\ Settles(e, "failed")
                       /\ \E f \in run[r].frame.flight : run[f[2]].status \in Failed \cup {"blocked"}
                    \/ timed_out(r) /\ Settles(e, "timed_out")
                    \/ /\ Goes(e, "hook") /\ run[r].node # "none" /\ def.body # "detached"
                       /\ ~timed_out(r)
                       /\ \E f \in run[r].frame.flight : run[f[2]].status # "succeeded"
                       /\ \A f \in run[r].frame.flight : run[f[2]].status \notin Failed \cup {"blocked"}
<1> DEFINE children == {f[2] : f \in run[r].frame.flight}
<1>1. /\ UNCHANGED <<def, run, rows, api, record, budget>> /\ AtStep(e) /\ r \in Runs
      /\ def.kind = "subflow" /\ ~IsChild(r)
  BY Typed DEF process_subflow_node, AtNode, AtStep
<1>2. eng' = IF run[r].node = "none" \/ children = {} THEN To(e, "spawn")
             ELSE IF def.body = "detached" THEN Settle(e, "succeeded")
             ELSE IF \A c \in children : run[c].status = "succeeded" THEN Settle(e, "succeeded")
             ELSE IF \E c \in children : run[c].status \in Failed \cup {"blocked"}
             THEN Settle(e, "failed")
             ELSE IF timed_out(r) THEN Settle(e, "timed_out") ELSE To(e, "hook")
  BY DEF process_subflow_node
<1>3. /\ children = {} <=> ~\E f \in run[r].frame.flight : TRUE
      /\ (\A c \in children : run[c].status = "succeeded") <=>
            \A f \in run[r].frame.flight : run[f[2]].status = "succeeded"
      /\ (\E c \in children : run[c].status \in Failed \cup {"blocked"}) <=>
            \E f \in run[r].frame.flight : run[f[2]].status \in Failed \cup {"blocked"}
  OBVIOUS
<1> HIDE DEF children
<1>4. \/ eng' = To(e, "spawn")
      \/ /\ \E f \in run[r].frame.flight : TRUE
         /\ \/ def.body = "detached" /\ eng' = Settle(e, "succeeded")
            \/ /\ eng' = Settle(e, "succeeded")
               /\ \A f \in run[r].frame.flight : run[f[2]].status = "succeeded"
            \/ /\ eng' = Settle(e, "failed")
               /\ \E f \in run[r].frame.flight : run[f[2]].status \in Failed \cup {"blocked"}
            \/ timed_out(r) /\ eng' = Settle(e, "timed_out")
            \/ /\ eng' = To(e, "hook") /\ run[r].node # "none" /\ def.body # "detached"
               /\ ~timed_out(r)
               /\ \E f \in run[r].frame.flight : run[f[2]].status # "succeeded"
               /\ \A f \in run[r].frame.flight : run[f[2]].status \notin Failed \cup {"blocked"}
  BY <1>2, <1>3
<1>5. /\ eng' = To(e, "spawn") => Goes(e, "spawn")
      /\ eng' = To(e, "hook") => Goes(e, "hook")
      /\ eng' = Settle(e, "succeeded") => Settles(e, "succeeded")
      /\ eng' = Settle(e, "failed") => Settles(e, "failed")
      /\ eng' = Settle(e, "timed_out") => Settles(e, "timed_out")
  BY MovesTo, MovesToSettle DEF Goes, Settles, Phases, Terminal
<1>6. Sound(e)
  BY <1>4, <1>5, SoundMoves DEF Phases
<1>7. TypeOK'
  BY <1>1, <1>6, DecisionTypes DEF AtStep, Sound
<1> QED BY <1>1, <1>4, <1>5, <1>7

LEMMA LinkingEffect ==
    ASSUME TypeOK, NEW e \in Engines, NEW c \in Runs, eng' = Linking(e, c)
    PROVE  Links(e, c)
<1> DEFINE fr == [NoFrame EXCEPT !.flight = {<<0, c>>}]
<1> DEFINE z == [eng[e] EXCEPT !.phase = "create", !.frame = fr]
<1>1. eng[e] \in DriveRecords /\ eng' = [eng EXCEPT ![e] = z]
  BY DEF TypeOK, Linking
<1>2. fr \in Frames /\ fr.flight = {<<0, c>>}
  BY DEF NoFrame, Frames
<1> HIDE DEF fr
<1>3. /\ z \in DriveRecords /\ z.phase = "create" /\ z.verdict = eng[e].verdict /\ z.frame = fr
      /\ z.run = eng[e].run
  BY <1>1, <1>2 DEF DriveRecords, Phases
<1> HIDE DEF z
<1> QED BY <1>1, <1>2, <1>3 DEF TypeOK, Moves, Links

LEMMA ReuseRunEffect ==
    ASSUME TypeOK, NEW e \in Engines, ReuseRun(e), NEW r, r = eng[e].run
    PROVE  /\ TypeOK' /\ UNCHANGED <<def, rows, api, record, budget>>
           /\ r \in Runs /\ eng[e].phase = "spawn"
           /\ \E c \in Reusable : Links(e, c)
           /\ Like(r) /\ LikeApart(r) /\ Holed(r)
<1>1. /\ UNCHANGED <<def, rows, api, record, budget>> /\ r \in Runs /\ eng[e].phase = "spawn"
      /\ run' = Hole(r)
  BY Typed DEF ReuseRun
<1>2. PICK c \in Reusable : eng' = Linking(e, c)
  BY DEF ReuseRun
<1>3. c \in Runs
  BY DEF Reusable
<1>4. Links(e, c)
  BY <1>2, <1>3, LinkingEffect
<1>5. RunsTyped' /\ Like(r) /\ LikeApart(r) /\ Holed(r)
  BY <1>1, HoleWritten, Typed
<1>6. TriesBounded'
  BY <1>1, <1>5, TriesKept DEF Like
<1>7. RowsTyped' /\ ClaimsOnly /\ record' \in SharedRecords
  BY <1>1, Typed DEF RowsTyped, ClaimsOnly
<1>8. TypeOK'
  BY <1>1, <1>4, <1>5, <1>6, <1>7, DriveTypes DEF Links
<1> QED BY <1>1, <1>4, <1>5, <1>8

LEMMA CreateSubflowRunEffect ==
    ASSUME TypeOK, NEW e \in Engines, create_subflow_run(e), NEW r, r = eng[e].run
    PROVE  /\ TypeOK' /\ UNCHANGED <<def, api, record, budget>>
           /\ r \in Runs /\ eng[e].phase = "spawn"
           /\ \E c \in Runs : Links(e, c) /\ Spawns(r, c, 0)
<1> DEFINE c == Fresh
<1>1. /\ UNCHANGED <<def, api, record, budget>> /\ r \in Runs /\ eng[e].phase = "spawn" /\ Unused # {}
      /\ eng' = Linking(e, c) /\ run' = Spawned(r, c, 0)
      /\ rows' = [rows EXCEPT ![c] = [NoRows EXCEPT !.due = 1]]
  BY Typed DEF create_subflow_run
<1>2. Spawns(r, c, 0) /\ RunsTyped' /\ RowsTyped' /\ TriesBounded' /\ ClaimsOnly
  BY <1>1, SpawnsEffect
<1>3. c \in Runs
  BY <1>2 DEF Spawns
<1> HIDE DEF c
<1>4. Links(e, c)
  BY <1>1, <1>3, LinkingEffect
<1>5. record' \in SharedRecords
  BY <1>1, Typed
<1>6. TypeOK'
  BY <1>1, <1>2, <1>4, <1>5, DriveTypes DEF Links
<1> QED BY <1>1, <1>2, <1>3, <1>4, <1>6

LEMMA CreateSubflowEffect ==
    ASSUME TypeOK, NEW e \in Engines, CreateSubflow(e), NEW r, r = eng[e].run
    PROVE  /\ TypeOK' /\ UNCHANGED <<def, rows, api, record, budget>>
           /\ r \in Runs /\ eng[e].phase = "create" /\ def.kind = "subflow"
           /\ Keeps(r, {"node", "tries", "age", "frame"}) /\ Apart(r)
           /\ run'[r].node = "queued" /\ run'[r].frame = NoFrame
           /\ \/ def.body = "detached" /\ Goes(e, "link")
              \/ def.body # "detached" /\ Goes(e, "node")
<1>1. /\ UNCHANGED <<def, rows, api, record, budget>> /\ r \in Runs /\ eng[e].phase = "create"
      /\ def.kind = "subflow"
      /\ \/ def.body = "detached" /\ eng' = To(e, "link")
         \/ def.body # "detached" /\ eng' = To(e, "node")
  BY Typed DEF CreateSubflow
<1>2. /\ RunsTyped' /\ Keeps(r, {"node", "tries", "age", "frame"}) /\ Apart(r)
      /\ run'[r].node = "queued" /\ run'[r].tries = 0 /\ run'[r].frame = NoFrame
  BY SubflowCreated
<1>3. /\ Sound(e)
      /\ \/ def.body = "detached" /\ Goes(e, "link")
         \/ def.body # "detached" /\ Goes(e, "node")
  BY <1>1, MovesTo, SoundMoves DEF Goes, Phases
<1>4. TriesBounded'
  <2>1. def.attempts \in Nat
    BY ScenariosAssumption DEF TypeOK, Scenario
  <2> QED BY <1>1, <1>2, <2>1 DEF TriesBounded, TypeOK, Apart
<1>5. RowsTyped' /\ ClaimsOnly /\ record' \in SharedRecords
  BY <1>1, Typed DEF RowsTyped, ClaimsOnly
<1>6. TypeOK'
  BY <1>1, <1>2, <1>3, <1>4, <1>5, DriveTypes DEF Sound
<1> QED BY <1>1, <1>2, <1>3, <1>6

LEMMA LinkSubflowEffect ==
    ASSUME TypeOK, NEW e \in Engines, LinkSubflow(e), NEW r, r = eng[e].run
    PROVE  /\ TypeOK' /\ UNCHANGED <<def, rows, api, record, budget>>
           /\ r \in Runs /\ eng[e].phase = "link" /\ Settles(e, "succeeded")
           /\ Keeps(r, {"node", "frame"}) /\ Apart(r)
           /\ run'[r].node = "succeeded" /\ run'[r].frame = eng[e].frame
<1>1. /\ UNCHANGED <<def, rows, api, record, budget>> /\ r \in Runs /\ eng[e].phase = "link"
      /\ eng' = Settle(e, "succeeded")
  BY Typed DEF LinkSubflow
<1>2. /\ RunsTyped' /\ Keeps(r, {"node", "frame"}) /\ Apart(r)
      /\ run'[r].node = "succeeded" /\ run'[r].frame = eng[e].frame
  BY Linked
<1>3. Sound(e) /\ Settles(e, "succeeded")
  BY <1>1, MovesToSettle, SoundMoves DEF Settles, Terminal
<1>4. TriesBounded'
  BY <1>1, <1>2, TriesKept, ApartIsLike
<1>5. RowsTyped' /\ ClaimsOnly /\ record' \in SharedRecords
  BY <1>1, Typed DEF RowsTyped, ClaimsOnly
<1>6. TypeOK'
  BY <1>1, <1>2, <1>3, <1>4, <1>5, DriveTypes DEF Sound
<1> QED BY <1>1, <1>2, <1>3, <1>6

-------------------------------------------------------------------------------
LEMMA InitTypes == Init => TypeOK
<1> SUFFICES ASSUME Init PROVE TypeOK
  OBVIOUS
<1>1. def \in Scenarios /\ def \in Scenario
  BY ScenariosAssumption DEF Init
<1>2. run \in [Runs -> RunRecords]
  <2> SUFFICES ASSUME NEW r \in Runs PROVE NewRun(def, r) \in RunRecords
    BY DEF Init
  <2>1. NoFrame \in Frames
    BY IdleType
  <2> QED BY <2>1, TimeAssumption DEF NewRun, RunRecords, Statuses, NodeStatuses
<1>3. rows \in [Runs -> RowRecords] /\ \A r \in Runs : rows[r].claimed = {}
  BY NoRowsType DEF Init
<1>4. eng \in [Engines -> DriveRecords] /\ \A e \in Engines : eng[e] = Idle
  BY IdleType DEF Init
<1>5. api \in AnswerRecords /\ api.phase = "idle"
  BY RunsAssumption DEF Init, NoAnswer, AnswerRecords
<1>6. record \in SharedRecords
  BY TimeAssumption DEF Init, SharedRecords
<1>7. budget \in [answers : 0..MaxAnswers, trouble : 0..def.trouble] /\ def.attempts \in Nat
  BY <1>1, BoundsAssumption DEF Init, Scenario
<1>8. \A r \in Runs : run[r].tries <= def.attempts
  <2>1. \A r \in Runs : run[r].tries = 0
    BY DEF Init, NewRun
  <2> QED BY <1>7, <2>1
<1>9. ClaimsAreDriven /\ VerdictsAreGiven
  BY <1>3, <1>4, <1>5 DEF ClaimsAreDriven, VerdictsAreGiven, Idle
<1> QED BY <1>1, <1>2, <1>3, <1>4, <1>5, <1>6, <1>7, <1>8, <1>9 DEF TypeOK

LEMMA CommonTypes ==
    ASSUME TypeOK, NEW e \in Engines, CommonStep(e)
    PROVE  TypeOK' /\ UNCHANGED <<def, record>>
<1>1. CASE \E r \in Runs : process_ready_node(e, r)
  <2>1. PICK r \in Runs : process_ready_node(e, r)
    BY <1>1
  <2>2. TypeOK' /\ UNCHANGED <<def, api, record, budget>>
    BY <2>1, ClaimEffect
  <2> QED BY <2>2
<1>2. CASE StepStopped(e) \/ ParkNode(e) \/ ParkRun(e)
  BY <1>2, StepStoppedEffect, ParkNodeEffect, ParkRunEffect
<1>3. CASE EnqueuePoll(e) \/ arm_node_timeout(e) \/ EnqueueNextPoll(e)
  BY <1>3, EnqueuePollEffect, ArmEffect, RepollEffect
<1>4. CASE SettleNode(e) \/ FinishRun(e) \/ RetryRun(e) \/ schedule_node_retry(e)
  BY <1>4, SettleNodeEffect, FinishRunEffect, RetryRunEffect, BackoffEffect
<1>5. CASE maybe_wake_subflow_parent(e) \/ drive_ready_node(e)
  BY <1>5, HookEffect, DriveEndsEffect
<1> QED BY <1>1, <1>2, <1>3, <1>4, <1>5 DEF CommonStep

LEMMA WaitingTypes ==
    ASSUME TypeOK, NEW e \in Engines, WaitingStep(e)
    PROVE  TypeOK' /\ UNCHANGED def
<1>1. CASE process_signal_node(e) \/ process_approval_node(e) \/ process_input_node(e)
  BY <1>1, StampedEffect, InputEffect
<1>2. CASE \/ process_wait_node(e) \/ process_debounce_node(e) \/ process_gate_node(e)
           \/ process_await_run_node(e) \/ process_event_source_node(e) \/ process_collect_node(e)
  BY <1>2, WatchedEffect
<1>3. CASE CreateWaiting(e) \/ CreateRecord(e)
  BY <1>3, CreateWaitingEffect, CreateRecordEffect
<1> QED BY <1>1, <1>2, <1>3 DEF WaitingStep

LEMMA SharedTypes ==
    ASSUME TypeOK, NEW e \in Engines, SharedStep(e)
    PROVE  TypeOK' /\ UNCHANGED def
<1>1. CASE process_barrier_node(e) \/ process_throttle_node(e) \/ register_arrival(e) \/ consume_token(e)
  BY <1>1, LookEffect, ArrivalEffect, TokenEffect
<1>2. CASE CreateShared(e) \/ process_cooldown_node(e) \/ stamp_cooldown(e)
  BY <1>2, CreateSharedEffect, CooldownEffect, StampEffect
<1>3. CASE SkipNode(e) \/ SkipRun(e)
  BY <1>3, SkipNodeEffect, SkipRunEffect
<1> QED BY <1>1, <1>2, <1>3 DEF SharedStep

LEMMA ChildTypes ==
    ASSUME TypeOK, NEW e \in Engines, ChildStep(e)
    PROVE  TypeOK' /\ UNCHANGED <<def, api, record>>
<1>1. CASE StartBody(e) \/ FinishChild(e) \/ AwaitBody(e)
  BY <1>1, StartBodyEffect, FinishChildEffect, AwaitBodyEffect
<1>2. CASE process_map_node(e) \/ CreateMap(e) \/ Harvest(e) \/ cancel_children(e)
  BY <1>2, MapEffect, CreateMapEffect, HarvestEffect, CancelChildrenEffect
<1>3. CASE FanOut(e) \/ process_subflow_node(e) \/ ReuseRun(e)
  BY <1>3, FanOutEffect, SubflowEffect, ReuseRunEffect
<1>4. CASE create_subflow_run(e) \/ CreateSubflow(e) \/ LinkSubflow(e)
  BY <1>4, CreateSubflowRunEffect, CreateSubflowEffect, LinkSubflowEffect
<1> QED BY <1>1, <1>2, <1>3, <1>4 DEF ChildStep

LEMMA OutsideTypes ==
    ASSUME TypeOK, WebService \/ (\E c \in Runs : BodyEnds(c)) \/ Operator \/ Faulty \/ Tick
    PROVE  TypeOK' /\ UNCHANGED def
<1>1. CASE WebService
  BY <1>1, AskEffect, AnswerNodeEffect, AnswerRunEffect, AnswerRowEffect, GateEffect DEF WebService, Asks
<1>2. CASE \E c \in Runs : BodyEnds(c)
  BY <1>2, BodyEndsEffect
<1>3. CASE Operator
  BY <1>3, CancelEffect, PauseEffect DEF Operator
<1>4. CASE Faulty
  BY <1>4, CrashEffect, FailEffect DEF Faulty
<1>5. CASE Tick
  BY <1>5, TickEffect
<1> QED BY <1>1, <1>2, <1>3, <1>4, <1>5

LEMMA NextTypes ==
    ASSUME TypeOK, [Next]_vars
    PROVE  TypeOK' /\ UNCHANGED def
<1>1. CASE \E e \in Engines : EngineStep(e)
  BY <1>1, CommonTypes, WaitingTypes, SharedTypes, ChildTypes DEF EngineStep
<1>2. CASE WebService \/ (\E c \in Runs : BodyEnds(c)) \/ Operator \/ Faulty \/ Tick
  BY <1>2, OutsideTypes
<1>3. CASE UNCHANGED vars
  BY <1>3 DEF vars, TypeOK, ClaimsAreDriven, VerdictsAreGiven
<1> QED BY <1>1, <1>2, <1>3 DEF Next

\* The types hold in every state of the reducer: of every run, ready row and drive, the
\* answer under way, the shared record and the budget; a claimed row is driven by its
\* claimant and whatever is settled has a verdict.
THEOREM TypeCorrect == Spec => []TypeOK
  BY InitTypes, NextTypes, PTL DEF Spec

-------------------------------------------------------------------------------
(***************************************************************************)
(* The shape of the state is kept.                                         *)
(***************************************************************************)

LEMMA KinKept ==
    ASSUME NEW r \in Runs, Present(r), run'[r].status # "absent",
           NEW S, Keeps(r, S), S \cap {"parent", "linked", "body"} = {}, LikeApart(r),
           \A q \in Runs : ~Present(q) => rows'[q] = rows[q]
    PROVE  SameKin
  BY DEF SameKin, Keeps, LikeApart, Like, Present, Fields

LEMMA KinSame ==
    ASSUME UNCHANGED run, \A q \in Runs : ~Present(q) => rows'[q] = rows[q]
    PROVE  SameKin
  BY DEF SameKin, Present

LEMMA ShapeMoves ==
    ASSUME TypeOK, Shape, UNCHANGED <<def, api>>, SameKin, NEW e \in Engines, Fits(e)
    PROVE  Shape'
<1> USE Typed
<1>0. PICK p, v, fr : /\ Moves(e, p, v, fr) /\ PhaseFits(p)
                      /\ p \in {"step", "hook", "done"} \/ ~Child(eng[e].run)
  BY DEF Fits
<1>1. \A r \in Runs : Present(r)' <=> Present(r)
  BY DEF SameKin, Present
<1>2. \A r \in Runs : (Child(r)' => Child(r)) /\ (IsChild(r)' <=> IsChild(r)) /\ run[r].parent \in Runs
  BY DEF SameKin, Child, IsChild, RunRecords
<1>3. Presence'
  BY <1>0, <1>1, <1>2, RunsAssumption DEF Shape, Presence, SameKin, Blank, Moves, Present
<1>4. PhaseKinds'
  <2> SUFFICES ASSUME NEW d \in Engines PROVE PhaseFits(eng[d].phase)' /\ (Mid(d) => ~Child(eng[d].run))'
    BY DEF PhaseKinds
  <2>1. PhaseFits(eng[d].phase) /\ (Mid(d) => ~Child(eng[d].run)) /\ eng[d].run \in Runs
    BY DEF Shape, PhaseKinds
  <2>2. CASE d = e
    <3>1. PhaseFits(eng[d].phase)'
      BY <1>0, <2>2 DEF PhaseFits, Moves
    <3> QED BY <1>0, <1>2, <2>2, <3>1 DEF Mid, Moves
  <2>3. CASE d # e
    <3>1. PhaseFits(eng[d].phase)'
      BY <1>0, <2>1, <2>3 DEF PhaseFits, Moves
    <3> QED BY <1>0, <1>2, <2>1, <2>3, <3>1 DEF Mid, Moves
  <2> QED BY <2>2, <2>3
<1>5. Kinship'
  BY <1>1, <1>2 DEF Shape, Kinship, SameKin, Started
<1> QED BY <1>3, <1>4, <1>5 DEF Shape

\* A drive begins or ends.
LEMMA ShapeTurns ==
    ASSUME TypeOK, Shape, UNCHANGED <<def, api>>, SameKin, NEW e \in Engines,
           eng'[e].phase \in {"idle", "step"}, eng'[e].run \in Runs, Present(eng'[e].run),
           \A d \in Engines : d # e => eng'[d] = eng[d]
    PROVE  Shape'
<1> USE Typed
<1>1. \A r \in Runs : Present(r)' <=> Present(r)
  BY DEF SameKin, Present
<1>2. \A r \in Runs : (Child(r)' => Child(r)) /\ (IsChild(r)' <=> IsChild(r)) /\ run[r].parent \in Runs
  BY DEF SameKin, Child, IsChild, RunRecords
<1>3. Presence'
  <2>2. \A d \in Engines : Present(eng[d].run)'
    BY <1>1 DEF Shape, Presence
  <2>3. Present(0)' /\ \A r \in Runs : Present(r)' => Present(run[r].parent)'
    BY <1>1, <1>2, RunsAssumption DEF Shape, Presence, SameKin
  <2>4. \A r \in Runs : ~Present(r)' => Blank(r)'
    BY <1>1 DEF Shape, Presence, SameKin, Blank, Present
  <2> QED BY <2>2, <2>3, <2>4 DEF Presence
<1>4. PhaseKinds'
  <2> SUFFICES ASSUME NEW d \in Engines PROVE PhaseFits(eng[d].phase)' /\ (Mid(d) => ~Child(eng[d].run))'
    BY DEF PhaseKinds
  <2>1. PhaseFits(eng[d].phase) /\ (Mid(d) => ~Child(eng[d].run)) /\ eng[d].run \in Runs
    BY DEF Shape, PhaseKinds
  <2>2. CASE d = e
    BY <2>2 DEF PhaseFits, Mid
  <2>3. CASE d # e
    BY <1>2, <2>1, <2>3 DEF Mid, PhaseFits
  <2> QED BY <2>2, <2>3
<1>5. Kinship'
  BY <1>1, <1>2 DEF Shape, Kinship, SameKin, Started
<1> QED BY <1>3, <1>4, <1>5 DEF Shape

LEMMA ShapeOther ==
    ASSUME TypeOK, Shape, UNCHANGED <<def, eng>>, SameKin,
           api'.phase # "idle" => def.kind \in Answered \cup {"gate"} /\ api'.run = 0,
           api'.phase \in {"node", "run"} => def.kind \in Answered
    PROVE  Shape'
<1> USE Typed
<1>1. \A r \in Runs : Present(r)' <=> Present(r)
  BY DEF SameKin, Present
<1>2. \A r \in Runs : (Child(r)' => Child(r)) /\ (IsChild(r)' <=> IsChild(r)) /\ run[r].parent \in Runs
  BY DEF SameKin, Child, IsChild, RunRecords
<1>3. Presence'
  <2>3. Present(0)' /\ \A r \in Runs : Present(r)' => Present(run[r].parent)'
    BY <1>1, <1>2, RunsAssumption DEF Shape, Presence, SameKin
  <2>4. \A r \in Runs : ~Present(r)' => Blank(r)'
    BY <1>1 DEF Shape, Presence, SameKin, Blank, Present
  <2>5. \A d \in Engines : Present(eng[d].run)'
    BY <1>1 DEF Shape, Presence
  <2> QED BY <2>3, <2>4, <2>5 DEF Presence
<1>4. PhaseKinds'
  BY <1>2 DEF Shape, PhaseKinds, PhaseFits, Mid
<1>5. Kinship'
  BY <1>1, <1>2 DEF Shape, Kinship, SameKin, Started
<1> QED BY <1>3, <1>4, <1>5 DEF Shape

\* A child is started by the drive of a run that is no child itself.
LEMMA ShapeSpawns ==
    ASSUME TypeOK, Shape, UNCHANGED <<def, api>>, NEW e \in Engines, Fits(e), Mid(e),
           def.kind \in Parents, NEW c, NEW i, NEW r, r = eng[e].run, Spawns(r, c, i)
    PROVE  Shape'
<1>0. PICK p, v, fr : Moves(e, p, v, fr) /\ PhaseFits(p)
  BY DEF Fits
<1>1. /\ r \in Runs /\ c \in Runs /\ ~Present(c) /\ Present(r) /\ r # c /\ ~Child(r) /\ Blank(c)
  BY Typed DEF Spawns, Shape, Presence, PhaseKinds
<1>2. /\ Apart(c) /\ RowsApart(c) /\ run'[c].status = "queued" /\ run'[c].parent = r
      /\ run'[c].linked /\ run'[c].body = "todo"
  BY DEF Spawns
<1>3. \A q \in Runs : q # c => /\ run'[q] = run[q] /\ rows'[q] = rows[q]
                              /\ (Present(q)' <=> Present(q))
                              /\ (Child(q)' <=> Child(q))
                              /\ (IsChild(q)' <=> IsChild(q))
  <2> SUFFICES ASSUME NEW q \in Runs, q # c
               PROVE  /\ run'[q] = run[q] /\ rows'[q] = rows[q]
                      /\ (Present(q)' <=> Present(q))
                      /\ (Child(q)' <=> Child(q))
                      /\ (IsChild(q)' <=> IsChild(q))
    OBVIOUS
  <2>1. run'[q] = run[q] /\ rows'[q] = rows[q]
    BY <1>2 DEF Apart, RowsApart
  <2>2. (Present(q)' <=> Present(q)) /\ (IsChild(q)' <=> IsChild(q))
    BY <2>1 DEF Present, IsChild
  <2> QED BY <2>1, <2>2 DEF Child
<1>4. Present(c)' /\ IsChild(c)'
  BY <1>2 DEF Present, IsChild
<1>5. \A q \in Runs : run[q].parent \in Runs /\ (q # c => run[q].parent # c)
  BY <1>1, Typed DEF Shape, Presence, Blank, RunRecords
<1>6. \A d \in Engines : eng'[d].run = eng[d].run /\ eng[d].run \in Runs /\ eng[d].run # c
  BY <1>0, <1>1, Typed DEF Moves, Shape, Presence
<1>7. Presence'
  <2>1. Present(0)'
    BY <1>3, <1>4, RunsAssumption DEF Shape, Presence
  <2>2. \A q \in Runs : ~Present(q)' => Blank(q)'
    BY <1>3, <1>4 DEF Shape, Presence, Blank
  <2>3. \A q \in Runs : Present(q)' => Present(run[q].parent)'
    BY <1>1, <1>2, <1>3, <1>4, <1>5 DEF Shape, Presence
  <2>4. \A d \in Engines : Present(eng[d].run)'
    BY <1>3, <1>6 DEF Shape, Presence
  <2> QED BY <2>1, <2>2, <2>3, <2>4 DEF Presence
<1>8. PhaseKinds'
  <2> SUFFICES ASSUME NEW d \in Engines PROVE PhaseFits(eng[d].phase)' /\ (Mid(d) => ~Child(eng[d].run))'
    BY DEF PhaseKinds
  <2>1. PhaseFits(eng[d].phase) /\ (Mid(d) => ~Child(eng[d].run)) /\ (Child(eng[d].run)' => Child(eng[d].run))
    BY <1>3, <1>6 DEF Shape, PhaseKinds
  <2>2. CASE d = e
    <3>1. PhaseFits(eng[d].phase)'
      BY <1>0, <2>2 DEF PhaseFits, Moves
    <3> QED BY <2>1, <2>2, <3>1
  <2>3. CASE d # e
    BY <1>0, <2>1, <2>3 DEF Mid, Moves, PhaseFits
  <2> QED BY <2>2, <2>3
<1>9. Kinship'
  <2>1. \A q \in Runs : run'[q].linked => IsChild(q)' /\ run'[q].parent # q /\ ~Child(run[q].parent)'
    BY <1>1, <1>2, <1>3, <1>4, <1>5 DEF Shape, Kinship
  <2>2. def.body = "plain" => \A q \in Runs : IsChild(q)' => run'[q].linked
    BY <1>2, <1>3 DEF Shape, Kinship
  <2> QED BY <2>1, <2>2 DEF Shape, Kinship
<1> QED BY <1>7, <1>8, <1>9 DEF Shape

LEMMA Facts ==
    ASSUME TypeOK, Shape, NEW e \in Engines, NEW r, r = eng[e].run
    PROVE  /\ r \in Runs /\ Present(r) /\ run[r].parent \in Runs /\ Present(run[r].parent)
           /\ Mid(e) => ~Child(r)
           /\ PhaseFits(eng[e].phase)
           /\ \A q \in Runs : ~Present(q) => rows[q] = NoRows
           /\ def.kind \notin Parents => ~IsChild(r) /\ ~Child(r)
<1>1. r \in Runs /\ run[r].parent \in Runs
  BY Typed DEF RunRecords
<1>2. def.kind \notin Parents => run[r].body = "none"
  BY <1>1 DEF Shape, Kinship
<1> QED BY <1>1, <1>2 DEF Shape, Presence, PhaseKinds, Blank, IsChild, Child

LEMMA CommonShape ==
    ASSUME TypeOK, Shape, NEW e \in Engines, CommonStep(e)
    PROVE  Shape'
<1> DEFINE r == eng[e].run
<1>f. /\ r \in Runs /\ Present(r) /\ run[r].parent \in Runs /\ Present(run[r].parent)
      /\ Mid(e) => ~Child(r)
      /\ PhaseFits(eng[e].phase)
      /\ \A q \in Runs : ~Present(q) => rows[q] = NoRows
  BY Facts
<1> HIDE DEF r
<1>1. CASE \E q \in Runs : process_ready_node(e, q)
  <2>1. PICK q \in Runs : process_ready_node(e, q)
    BY <1>1
  <2>2. /\ UNCHANGED <<def, api, record, budget>> /\ rows[q].due > 0
        /\ eng'[e].phase = "step" /\ eng'[e].run = q
        /\ \A d \in Engines : d # e => eng'[d] = eng[d]
        /\ Keeps(q, {"status"}) /\ Apart(q) /\ RowsApart(q)
        /\ run'[q].status = IF run[q].status = "queued" THEN "running" ELSE run[q].status
    BY <2>1, ClaimEffect
  <2>3. Present(q)
    BY <1>f, <2>2 DEF NoRows
  <2>4. run'[q].status # "absent"
    BY <2>2, <2>3 DEF Present
  <2>5. SameKin
    BY <2>2, <2>3, <2>4, KinKept, ApartIsLike DEF RowsApart
  <2> QED BY <2>2, <2>3, <2>5, ShapeTurns
<1>2. CASE StepStopped(e)
  <2>1. /\ UNCHANGED <<def, rows, api, record, budget>>
        /\ Moves(e, "hook", eng[e].verdict, eng[e].frame)
        /\ \/ run[r].status = "paused" /\ Like(r) /\ LikeApart(r) /\ Holed(r)
           \/ run[r].status # "paused" /\ run' = run
    BY <1>2, StepStoppedEffect DEF r
  <2>2. SameKin
    <3>1. CASE run' = run
      BY <2>1, <3>1, KinSame
    <3>2. CASE run[r].status = "paused" /\ Like(r) /\ LikeApart(r)
      <4>1. run'[r].status # "absent" /\ Keeps(r, {"hole"})
        BY <3>2 DEF Like, Keeps, Fields
      <4> QED BY <1>f, <2>1, <3>2, <4>1, KinKept
    <3> QED BY <2>1, <3>1, <3>2
  <2>3. Fits(e)
    BY <2>1 DEF Fits, PhaseFits
  <2> QED BY <2>1, <2>2, <2>3, ShapeMoves
<1>3. CASE ParkNode(e)
  <2>1. /\ UNCHANGED <<def, rows, api, record, budget>> /\ eng[e].phase = "node"
        /\ Moves(e, "run", eng[e].verdict, eng[e].frame)
    BY <1>3, ParkNodeEffect
  <2>2. Keeps(r, {"node", "tries", "age", "frame", "hole"}) /\ LikeApart(r)
    BY <1>3, NodeParked DEF r
  <2>3. run'[r].status # "absent"
    BY <1>f, <2>2 DEF Keeps, Fields, Present
  <2>4. SameKin
    BY <1>f, <2>1, <2>2, <2>3, KinKept
  <2>5. Fits(e)
    BY <1>f, <2>1 DEF Fits, PhaseFits, Mid, r
  <2> QED BY <2>1, <2>4, <2>5, ShapeMoves
<1>4. CASE ParkRun(e)
  <2>1. /\ UNCHANGED <<def, rows, api, record, budget>> /\ eng[e].phase = "run"
        /\ Moves(e, "poll", eng[e].verdict, eng[e].frame)
        /\ Keeps(r, {"status", "frame"}) /\ Apart(r) /\ run'[r].status = "waiting"
    BY <1>4, ParkRunEffect DEF r
  <2>2. SameKin
    BY <1>f, <2>1, KinKept, ApartIsLike
  <2>3. Fits(e)
    BY <1>f, <2>1 DEF Fits, PhaseFits, Mid, r
  <2> QED BY <2>1, <2>2, <2>3, ShapeMoves
<1>5. CASE EnqueuePoll(e)
  <2>1. /\ UNCHANGED <<def, run, api, record, budget>> /\ eng[e].phase = "poll"
        /\ Moves(e, "arm", eng[e].verdict, eng[e].frame) /\ RowsApart(r)
    BY <1>5, EnqueuePollEffect DEF r
  <2>2. SameKin
    BY <1>f, <2>1, KinSame DEF RowsApart
  <2>3. Fits(e)
    BY <1>f, <2>1 DEF Fits, PhaseFits, Mid, r
  <2> QED BY <2>1, <2>2, <2>3, ShapeMoves
<1>6. CASE arm_node_timeout(e)
  <2>1. /\ UNCHANGED <<def, run, api, record, budget>>
        /\ Moves(e, "hook", eng[e].verdict, eng[e].frame) /\ RowsApart(r)
    BY <1>6, ArmEffect DEF r
  <2>2. SameKin
    BY <1>f, <2>1, KinSame DEF RowsApart
  <2>3. Fits(e)
    BY <2>1 DEF Fits, PhaseFits
  <2> QED BY <2>1, <2>2, <2>3, ShapeMoves
<1>7. CASE EnqueueNextPoll(e)
  <2>1. /\ UNCHANGED <<def, run, api, record, budget>>
        /\ Moves(e, "done", eng[e].verdict, eng[e].frame) /\ RowsApart(r)
    BY <1>7, RepollEffect DEF r
  <2>2. SameKin
    BY <1>f, <2>1, KinSame DEF RowsApart
  <2>3. Fits(e)
    BY <2>1 DEF Fits, PhaseFits
  <2> QED BY <2>1, <2>2, <2>3, ShapeMoves
<1>8. CASE SettleNode(e)
  <2>1. /\ UNCHANGED <<def, rows, api, record, budget>> /\ eng[e].phase = "settle"
        /\ Keeps(r, {"node"}) /\ Apart(r)
        /\ \E p \in {"retry", "finish"} : Moves(e, p, eng[e].verdict, eng[e].frame)
    BY <1>8, SettleNodeEffect DEF r
  <2>2. run'[r].status # "absent"
    BY <1>f, <2>1 DEF Keeps, Fields, Present
  <2>3. SameKin
    BY <1>f, <2>1, <2>2, KinKept, ApartIsLike
  <2>4. Fits(e)
    BY <1>f, <2>1 DEF Fits, PhaseFits, Mid, r
  <2> QED BY <2>1, <2>3, <2>4, ShapeMoves
<1>9. CASE FinishRun(e)
  <2>1. /\ UNCHANGED <<def, api, record, budget>> /\ eng[e].verdict \in Terminal
        /\ Keeps(r, {"status", "passed"}) /\ Apart(r) /\ run'[r].status = eng[e].verdict
        /\ RowsApart(r) /\ Moves(e, "hook", eng[e].verdict, eng[e].frame)
    BY <1>9, FinishRunEffect DEF r
  <2>2. run'[r].status # "absent"
    BY <2>1 DEF Terminal
  <2>3. SameKin
    BY <1>f, <2>1, <2>2, KinKept, ApartIsLike DEF RowsApart
  <2>4. Fits(e)
    BY <2>1 DEF Fits, PhaseFits
  <2> QED BY <2>1, <2>3, <2>4, ShapeMoves
<1>10. CASE RetryRun(e)
  <2>1. /\ UNCHANGED <<def, rows, api, record, budget>> /\ eng[e].phase = "retry"
        /\ Keeps(r, {"status"}) /\ Apart(r) /\ run'[r].status = "waiting"
        /\ Moves(e, "backoff", eng[e].verdict, eng[e].frame)
    BY <1>10, RetryRunEffect DEF r
  <2>2. SameKin
    BY <1>f, <2>1, KinKept, ApartIsLike
  <2>3. Fits(e)
    BY <1>f, <2>1 DEF Fits, PhaseFits, Mid, r
  <2> QED BY <2>1, <2>2, <2>3, ShapeMoves
<1>11. CASE schedule_node_retry(e)
  <2>1. /\ UNCHANGED <<def, run, api, record, budget>> /\ RowsApart(r)
        /\ Moves(e, "hook", eng[e].verdict, eng[e].frame)
    BY <1>11, BackoffEffect DEF r
  <2>2. SameKin
    BY <1>f, <2>1, KinSame DEF RowsApart
  <2>3. Fits(e)
    BY <2>1 DEF Fits, PhaseFits
  <2> QED BY <2>1, <2>2, <2>3, ShapeMoves
<1>12. CASE maybe_wake_subflow_parent(e)
  <2>1. /\ UNCHANGED <<def, run, api, record, budget>>
        /\ Moves(e, "done", eng[e].verdict, eng[e].frame)
        /\ RowsApart(run[r].parent) \/ rows' = rows
    BY <1>12, HookEffect DEF r
  <2>2. SameKin
    BY <1>f, <2>1, KinSame DEF RowsApart
  <2>3. Fits(e)
    BY <2>1 DEF Fits, PhaseFits
  <2> QED BY <2>1, <2>2, <2>3, ShapeMoves
<1>13. CASE drive_ready_node(e)
  <2>1. /\ UNCHANGED <<def, run, api, record, budget>> /\ RowsApart(r)
        /\ eng'[e] = Idle /\ \A d \in Engines : d # e => eng'[d] = eng[d]
    BY <1>13, DriveEndsEffect DEF r
  <2>2. SameKin
    BY <1>f, <2>1, KinSame DEF RowsApart
  <2>3. eng'[e].phase = "idle" /\ eng'[e].run = 0 /\ 0 \in Runs /\ Present(0)
    BY <2>1, RunsAssumption DEF Idle, Shape, Presence
  <2> QED BY <2>1, <2>2, <2>3, ShapeTurns
<1> QED BY <1>1, <1>2, <1>3, <1>4, <1>5, <1>6, <1>7, <1>8, <1>9, <1>10, <1>11, <1>12, <1>13 DEF CommonStep

LEMMA WaitingShape ==
    ASSUME TypeOK, Shape, NEW e \in Engines, WaitingStep(e)
    PROVE  Shape' /\ def.kind \notin Parents
<1> DEFINE r == eng[e].run
<1>f. /\ r \in Runs /\ Present(r) /\ (Mid(e) => ~Child(r))
      /\ PhaseFits(eng[e].phase)
      /\ def.kind \notin Parents => ~IsChild(r) /\ ~Child(r)
  BY Facts
<1> HIDE DEF r
<1>1. CASE process_signal_node(e) \/ process_approval_node(e)
  <2>1. /\ UNCHANGED <<def, rows, api, record, budget>> /\ def.kind \in {"signal", "approval"}
        /\ run' = run \/ (Like(r) /\ LikeApart(r))
        /\ Settles(e, "timed_out") \/ Settles(e, "succeeded") \/ Goes(e, "create") \/ Goes(e, "hook")
    BY <1>1, StampedEffect DEF r
  <2>2. SameKin
    <3>1. CASE run' = run
      BY <2>1, <3>1, KinSame
    <3>2. CASE Like(r) /\ LikeApart(r)
      <4>1. run'[r].status # "absent" /\ Keeps(r, {"hole"})
        BY <1>f, <3>2 DEF Like, Keeps, Fields, Present
      <4> QED BY <1>f, <2>1, <3>2, <4>1, KinKept
    <3> QED BY <2>1, <3>1, <3>2
  <2>3. Fits(e)
    BY <1>f, <2>1 DEF Fits, PhaseFits, Goes, Settles, Parents, r
  <2> QED BY <2>1, <2>2, <2>3, ShapeMoves DEF Parents
<1>2. CASE process_input_node(e)
  <2>1. /\ UNCHANGED <<def, run, rows, api, record, budget>> /\ def.kind = "input"
        /\ Settles(e, "timed_out") \/ Settles(e, "succeeded") \/ Goes(e, "create") \/ Goes(e, "hook")
    BY <1>2, InputEffect
  <2>2. SameKin
    BY <2>1, KinSame
  <2>3. Fits(e)
    BY <1>f, <2>1 DEF Fits, PhaseFits, Goes, Settles, Parents, r
  <2> QED BY <2>1, <2>2, <2>3, ShapeMoves DEF Parents
<1>3. CASE \/ process_wait_node(e) \/ process_debounce_node(e) \/ process_gate_node(e)
           \/ process_await_run_node(e) \/ process_event_source_node(e) \/ process_collect_node(e)
  <2>1. /\ UNCHANGED <<def, run, rows, api, record, budget>> /\ def.kind \in Watchers
        /\ \/ Settles(e, "timed_out") \/ Settles(e, "succeeded") \/ Goes(e, "create")
           \/ Goes(e, "done") \/ Goes(e, "repoll")
    BY <1>3, WatchedEffect
  <2>2. SameKin
    BY <2>1, KinSame
  <2>3. Fits(e) /\ def.kind \notin Parents
    BY <1>f, <2>1 DEF Fits, PhaseFits, Goes, Settles, Parents, Watchers, r
  <2> QED BY <2>1, <2>2, <2>3, ShapeMoves
<1>4. CASE CreateWaiting(e)
  <2>1. /\ UNCHANGED <<def, rows, api, record, budget>> /\ def.kind \in Waits /\ eng[e].phase = "create"
        /\ Keeps(r, {"node", "tries", "age"}) /\ Apart(r)
        /\ \/ def.kind \in {"approval", "gate"} /\ Goes(e, "record")
           \/ Goes(e, "node")
           \/ Settles(e, "succeeded")
    BY <1>4, CreateWaitingEffect DEF r
  <2>2. run'[r].status # "absent"
    BY <1>f, <2>1 DEF Keeps, Fields, Present
  <2>3. SameKin
    BY <1>f, <2>1, <2>2, KinKept, ApartIsLike
  <2>4. Fits(e) /\ def.kind \notin Parents
    BY <1>f, <2>1 DEF Fits, PhaseFits, Goes, Settles, Parents, Waits, Mid, r
  <2> QED BY <2>1, <2>3, <2>4, ShapeMoves
<1>5. CASE CreateRecord(e)
  <2>1. UNCHANGED <<def, run, rows, api, budget>> /\ eng[e].phase = "record" /\ Goes(e, "node")
    BY <1>5, CreateRecordEffect
  <2>2. SameKin
    BY <2>1, KinSame
  <2>3. Fits(e) /\ def.kind \notin Parents
    BY <1>f, <2>1 DEF Fits, PhaseFits, Goes, Mid, Parents, r
  <2> QED BY <2>1, <2>2, <2>3, ShapeMoves
<1> QED BY <1>1, <1>2, <1>3, <1>4, <1>5 DEF WaitingStep

LEMMA SharedShape ==
    ASSUME TypeOK, Shape, NEW e \in Engines, SharedStep(e)
    PROVE  Shape' /\ def.kind \in {"barrier", "throttle", "cooldown"}
<1> DEFINE r == eng[e].run
<1>f. /\ r \in Runs /\ Present(r) /\ (Mid(e) => ~Child(r))
      /\ PhaseFits(eng[e].phase)
      /\ def.kind \notin Parents => ~IsChild(r) /\ ~Child(r)
  BY Facts
<1> HIDE DEF r
<1>1. CASE process_barrier_node(e) \/ process_throttle_node(e)
  <2>1. /\ UNCHANGED <<def, run, rows, api, record, budget>> /\ def.kind \in {"barrier", "throttle"}
        /\ Settles(e, "timed_out") \/ Goes(e, def.kind)
    BY <1>1, LookEffect
  <2>2. SameKin
    BY <2>1, KinSame
  <2>3. Fits(e)
    BY <1>f, <2>1 DEF Fits, PhaseFits, Goes, Settles, Parents, r
  <2> QED BY <2>1, <2>2, <2>3, ShapeMoves
<1>2. CASE register_arrival(e)
  <2>1. /\ UNCHANGED <<def, run, rows, api, budget>> /\ eng[e].phase = "barrier"
        /\ Creates(e, "succeeded") \/ Creates(e, "none") \/ Settles(e, "succeeded") \/ Goes(e, "repoll")
    BY <1>2, ArrivalEffect
  <2>2. SameKin
    BY <2>1, KinSame
  <2>3. Fits(e) /\ def.kind = "barrier"
    BY <1>f, <2>1 DEF Fits, PhaseFits, Goes, Settles, Creates, Mid, r
  <2> QED BY <2>1, <2>2, <2>3, ShapeMoves
<1>3. CASE consume_token(e)
  <2>1. /\ UNCHANGED <<def, rows, api, budget>> /\ eng[e].phase = "throttle"
        /\ Keeps(r, {"since"}) /\ Apart(r)
        /\ Creates(e, "succeeded") \/ Creates(e, "none") \/ Settles(e, "succeeded") \/ Goes(e, "repoll")
    BY <1>3, TokenEffect DEF r
  <2>2. run'[r].status # "absent"
    BY <1>f, <2>1 DEF Keeps, Fields, Present
  <2>3. SameKin
    BY <1>f, <2>1, <2>2, KinKept, ApartIsLike
  <2>4. Fits(e) /\ def.kind = "throttle"
    BY <1>f, <2>1 DEF Fits, PhaseFits, Goes, Settles, Creates, Mid, r
  <2> QED BY <2>1, <2>3, <2>4, ShapeMoves
<1>4. CASE CreateShared(e)
  <2>1. /\ UNCHANGED <<def, rows, api, record, budget>>
        /\ eng[e].phase = "create" /\ def.kind \in {"barrier", "throttle", "cooldown"}
        /\ Keeps(r, {"node", "tries", "age"}) /\ Apart(r)
        /\ \/ def.kind = "cooldown" /\ Goes(e, "cooldown")
           \/ Goes(e, "settle")
           \/ def.kind # "cooldown" /\ Goes(e, "node")
    BY <1>4, CreateSharedEffect DEF r
  <2>2. run'[r].status # "absent"
    BY <1>f, <2>1 DEF Keeps, Fields, Present
  <2>3. SameKin
    BY <1>f, <2>1, <2>2, KinKept, ApartIsLike
  <2>4. Fits(e)
    BY <1>f, <2>1 DEF Fits, PhaseFits, Goes, Mid, r
  <2> QED BY <2>1, <2>3, <2>4, ShapeMoves
<1>5. CASE process_cooldown_node(e)
  <2>1. /\ UNCHANGED <<def, run, rows, api, record, budget>> /\ def.kind = "cooldown" /\ Goes(e, "create")
    BY <1>5, CooldownEffect
  <2>2. SameKin
    BY <2>1, KinSame
  <2>3. Fits(e)
    BY <1>f, <2>1 DEF Fits, PhaseFits, Goes, Parents, r
  <2> QED BY <2>1, <2>2, <2>3, ShapeMoves
<1>6. CASE stamp_cooldown(e)
  <2>1. /\ UNCHANGED <<def, rows, api, budget>> /\ eng[e].phase = "cooldown"
        /\ Keeps(r, {"since"}) /\ Apart(r)
        /\ Settles(e, "succeeded") \/ Goes(e, "skip")
    BY <1>6, StampEffect DEF r
  <2>2. run'[r].status # "absent"
    BY <1>f, <2>1 DEF Keeps, Fields, Present
  <2>3. SameKin
    BY <1>f, <2>1, <2>2, KinKept, ApartIsLike
  <2>4. Fits(e) /\ def.kind = "cooldown"
    BY <1>f, <2>1 DEF Fits, PhaseFits, Goes, Settles, Mid, r
  <2> QED BY <2>1, <2>3, <2>4, ShapeMoves
<1>7. CASE SkipNode(e)
  <2>1. /\ UNCHANGED <<def, rows, api, record, budget>> /\ eng[e].phase = "skip"
        /\ Goes(e, "skip_run") /\ Keeps(r, {"node"}) /\ Apart(r)
    BY <1>7, SkipNodeEffect DEF r
  <2>2. run'[r].status # "absent"
    BY <1>f, <2>1 DEF Keeps, Fields, Present
  <2>3. SameKin
    BY <1>f, <2>1, <2>2, KinKept, ApartIsLike
  <2>4. Fits(e) /\ def.kind = "cooldown"
    BY <1>f, <2>1 DEF Fits, PhaseFits, Goes, Mid, r
  <2> QED BY <2>1, <2>3, <2>4, ShapeMoves
<1>8. CASE SkipRun(e)
  <2>1. /\ UNCHANGED <<def, api, record, budget>> /\ eng[e].phase = "skip_run"
        /\ Goes(e, "hook") /\ Keeps(r, {"status"}) /\ Apart(r) /\ run'[r].status = "succeeded"
        /\ RowsApart(r)
    BY <1>8, SkipRunEffect DEF r
  <2>3. SameKin
    BY <1>f, <2>1, KinKept, ApartIsLike DEF RowsApart
  <2>4. Fits(e) /\ def.kind = "cooldown"
    BY <1>f, <2>1 DEF Fits, PhaseFits, Goes
  <2> QED BY <2>1, <2>3, <2>4, ShapeMoves
<1> QED BY <1>1, <1>2, <1>3, <1>4, <1>5, <1>6, <1>7, <1>8 DEF SharedStep

LEMMA ChildShape ==
    ASSUME TypeOK, Shape, NEW e \in Engines, ChildStep(e)
    PROVE  Shape' /\ def.kind \in Parents
<1> DEFINE r == eng[e].run
<1>f. /\ r \in Runs /\ Present(r) /\ (Mid(e) => ~Child(r))
      /\ PhaseFits(eng[e].phase)
  BY Facts
<1> HIDE DEF r
<1>1. CASE StartBody(e)
  <2>1. /\ UNCHANGED <<def, rows, api, record, budget>> /\ def.kind \in Parents /\ Goes(e, "hook")
        /\ IsChild(r) /\ run'[r].body = "busy"
        /\ Keeps(r, {"body", "linked", "hole"}) /\ LikeApart(r)
        /\ run'[r].linked => run[r].linked
        /\ def.body = "plain" /\ run[r].linked => run'[r].linked
    <3>1. /\ UNCHANGED <<def, rows, api, record, budget>> /\ def.kind \in Parents /\ Goes(e, "hook")
          /\ IsChild(r) /\ run'[r].body = "busy"
          /\ \/ def.body = "parks" /\ Keeps(r, {"body", "linked", "hole"}) /\ LikeApart(r)
                /\ ~run'[r].linked
             \/ Keeps(r, {"body"}) /\ Apart(r)
      BY <1>1, StartBodyEffect DEF r
    <3> QED BY <1>f, <3>1, ApartIsLike DEF Keeps, Fields
  <2>2. run'[r].status # "absent"
    BY <1>f, <2>1 DEF Keeps, Fields, Present
  <2>3. SameKin
    BY <1>f, <2>1, <2>2 DEF SameKin, Keeps, LikeApart, Like, Fields, Present, IsChild
  <2>4. Fits(e)
    BY <2>1 DEF Fits, PhaseFits, Goes
  <2> QED BY <2>1, <2>3, <2>4, ShapeMoves
<1>2. CASE FinishChild(e)
  <2>1. /\ UNCHANGED <<def, api, record, budget>> /\ def.kind \in Parents /\ Goes(e, "hook")
        /\ Keeps(r, {"status"}) /\ Apart(r) /\ run'[r].status \in Terminal /\ RowsApart(r)
    BY <1>2, FinishChildEffect DEF r
  <2>2. run'[r].status # "absent"
    BY <2>1 DEF Terminal
  <2>3. SameKin
    BY <1>f, <2>1, <2>2, KinKept, ApartIsLike DEF RowsApart
  <2>4. Fits(e)
    BY <2>1 DEF Fits, PhaseFits, Goes
  <2> QED BY <2>1, <2>3, <2>4, ShapeMoves
<1>3. CASE AwaitBody(e)
  <2>1. /\ UNCHANGED <<def, run, rows, api, record, budget>> /\ def.kind \in Parents /\ Goes(e, "hook")
    BY <1>3, AwaitBodyEffect
  <2>2. SameKin
    BY <2>1, KinSame
  <2>3. Fits(e)
    BY <2>1 DEF Fits, PhaseFits, Goes
  <2> QED BY <2>1, <2>2, <2>3, ShapeMoves
<1>4. CASE process_map_node(e)
  <2>1. /\ UNCHANGED <<def, run, rows, api, record, budget>> /\ def.kind = "map" /\ AtOwnNode(r)
        /\ Goes(e, "create") \/ Settles(e, "timed_out") \/ Goes(e, "harvest")
    BY <1>4, MapEffect DEF r
  <2>2. SameKin
    BY <2>1, KinSame
  <2>3. ~Child(r)
    BY <2>1 DEF AtOwnNode, Child
  <2>4. Fits(e)
    BY <2>1, <2>3 DEF Fits, PhaseFits, Goes, Settles, r
  <2> QED BY <2>1, <2>2, <2>4, ShapeMoves DEF Parents
<1>5. CASE CreateMap(e)
  <2>1. /\ UNCHANGED <<def, rows, api, record, budget>> /\ eng[e].phase = "create" /\ def.kind = "map"
        /\ Goes(e, "harvest") /\ Keeps(r, {"node", "tries", "age"}) /\ Apart(r)
    BY <1>5, CreateMapEffect DEF r
  <2>2. run'[r].status # "absent"
    BY <1>f, <2>1 DEF Keeps, Fields, Present
  <2>3. SameKin
    BY <1>f, <2>1, <2>2, KinKept, ApartIsLike
  <2>4. Fits(e)
    BY <1>f, <2>1 DEF Fits, PhaseFits, Goes, Mid, r
  <2> QED BY <2>1, <2>3, <2>4, ShapeMoves DEF Parents
<1>6. CASE Harvest(e)
  <2>1. /\ UNCHANGED <<def, run, rows, api, record, budget>> /\ eng[e].phase = "harvest"
        /\ Goes(e, "cancel") \/ Moves(e, "fan", eng[e].verdict, eng'[e].frame)
    BY <1>6, HarvestEffect
  <2>2. SameKin
    BY <2>1, KinSame
  <2>3. Fits(e) /\ def.kind = "map"
    BY <1>f, <2>1 DEF Fits, PhaseFits, Goes, Mid, r
  <2> QED BY <2>1, <2>2, <2>3, ShapeMoves DEF Parents
<1>7. CASE cancel_children(e)
  <2>1. /\ UNCHANGED <<def, api, record, budget>> /\ eng[e].phase = "cancel"
        /\ \/ UNCHANGED <<run, rows>> /\ Settles(e, "failed")
           \/ \E c \in Runs :
              /\ Active(c) /\ UNCHANGED eng /\ Keeps(c, {"status"}) /\ Apart(c)
              /\ run'[c].status = "canceled" /\ RowsApart(c)
    BY <1>7, CancelChildrenEffect
  <2>2. CASE UNCHANGED <<run, rows>> /\ Settles(e, "failed")
    <3>1. SameKin
      BY <2>2, KinSame
    <3>2. Fits(e) /\ def.kind = "map"
      BY <1>f, <2>1, <2>2 DEF Fits, PhaseFits, Settles, Mid, r
    <3> QED BY <2>1, <3>1, <3>2, ShapeMoves DEF Parents
  <2>3. CASE \E c \in Runs :
              /\ Active(c) /\ UNCHANGED eng /\ Keeps(c, {"status"}) /\ Apart(c)
              /\ run'[c].status = "canceled" /\ RowsApart(c)
    <3>1. PICK c \in Runs :
              /\ Active(c) /\ UNCHANGED eng /\ Keeps(c, {"status"}) /\ Apart(c)
              /\ run'[c].status = "canceled" /\ RowsApart(c)
      BY <2>3
    <3>2. SameKin
      BY <3>1, KinKept, ApartIsLike DEF RowsApart, Active
    <3>3. /\ api'.phase # "idle" => def.kind \in Answered \cup {"gate"} /\ api'.run = 0
          /\ api'.phase \in {"node", "run"} => def.kind \in Answered
      BY <2>1 DEF Shape, Kinship
    <3>4. def.kind = "map"
      BY <1>f, <2>1 DEF PhaseFits
    <3> QED BY <2>1, <3>1, <3>2, <3>3, <3>4, ShapeOther DEF Parents
  <2> QED BY <2>1, <2>2, <2>3
<1>8. CASE FanOut(e)
  <2>1. /\ UNCHANGED <<def, api, record, budget>> /\ eng[e].phase = "fan"
        /\ \/ \E c \in Runs : /\ Spawns(r, c, eng[e].frame.next)
                              /\ Moves(e, "fan", eng[e].verdict, eng'[e].frame)
           \/ UNCHANGED <<run, rows>> /\ (Settles(e, "succeeded") \/ Goes(e, "node"))
    BY <1>8, FanOutEffect DEF r
  <2>2. Fits(e) /\ Mid(e) /\ def.kind = "map"
    BY <1>f, <2>1 DEF Fits, PhaseFits, Settles, Goes, Mid, r
  <2>3. CASE UNCHANGED <<run, rows>>
    <3>1. SameKin
      BY <2>3, KinSame
    <3> QED BY <2>1, <2>2, <3>1, ShapeMoves DEF Parents
  <2>4. CASE \E c \in Runs : Spawns(r, c, eng[e].frame.next)
    BY <2>1, <2>2, <2>4, ShapeSpawns DEF Parents, r
  <2> QED BY <2>1, <2>3, <2>4
<1>9. CASE process_subflow_node(e)
  <2>1. /\ UNCHANGED <<def, run, rows, api, record, budget>> /\ def.kind = "subflow" /\ ~IsChild(r)
        /\ \/ Goes(e, "spawn") \/ Settles(e, "succeeded") \/ Settles(e, "failed")
           \/ Settles(e, "timed_out") \/ Goes(e, "hook")
    BY <1>9, SubflowEffect DEF r
  <2>2. SameKin
    BY <2>1, KinSame
  <2>3. Fits(e)
    BY <2>1 DEF Fits, PhaseFits, Goes, Settles, Child, r
  <2> QED BY <2>1, <2>2, <2>3, ShapeMoves DEF Parents
<1>10. CASE ReuseRun(e)
  <2>1. /\ UNCHANGED <<def, rows, api, record, budget>> /\ eng[e].phase = "spawn"
        /\ \E c \in Reusable : Links(e, c)
        /\ Like(r) /\ LikeApart(r)
    BY <1>10, ReuseRunEffect DEF r
  <2>2. run'[r].status # "absent" /\ Keeps(r, {"hole"})
    BY <1>f, <2>1 DEF Like, Keeps, Fields, Present
  <2>3. SameKin
    BY <1>f, <2>1, <2>2, KinKept
  <2>4. Fits(e) /\ def.kind = "subflow"
    BY <1>f, <2>1 DEF Fits, PhaseFits, Links, Mid, r
  <2> QED BY <2>1, <2>3, <2>4, ShapeMoves DEF Parents
<1>11. CASE create_subflow_run(e)
  <2>1. /\ UNCHANGED <<def, api, record, budget>> /\ eng[e].phase = "spawn"
        /\ \E c \in Runs : Links(e, c) /\ Spawns(r, c, 0)
    BY <1>11, CreateSubflowRunEffect DEF r
  <2>2. Fits(e) /\ Mid(e) /\ def.kind = "subflow"
    BY <1>f, <2>1 DEF Fits, PhaseFits, Links, Mid, r
  <2> QED BY <2>1, <2>2, ShapeSpawns DEF Parents, r
<1>12. CASE CreateSubflow(e)
  <2>1. /\ UNCHANGED <<def, rows, api, record, budget>> /\ eng[e].phase = "create" /\ def.kind = "subflow"
        /\ Keeps(r, {"node", "tries", "age", "frame"}) /\ Apart(r)
        /\ \/ def.body = "detached" /\ Goes(e, "link")
           \/ def.body # "detached" /\ Goes(e, "node")
    BY <1>12, CreateSubflowEffect DEF r
  <2>2. run'[r].status # "absent"
    BY <1>f, <2>1 DEF Keeps, Fields, Present
  <2>3. SameKin
    BY <1>f, <2>1, <2>2, KinKept, ApartIsLike
  <2>4. Fits(e)
    BY <1>f, <2>1 DEF Fits, PhaseFits, Goes, Mid, r
  <2> QED BY <2>1, <2>3, <2>4, ShapeMoves DEF Parents
<1>13. CASE LinkSubflow(e)
  <2>1. /\ UNCHANGED <<def, rows, api, record, budget>> /\ eng[e].phase = "link" /\ Settles(e, "succeeded")
        /\ Keeps(r, {"node", "frame"}) /\ Apart(r)
    BY <1>13, LinkSubflowEffect DEF r
  <2>2. run'[r].status # "absent"
    BY <1>f, <2>1 DEF Keeps, Fields, Present
  <2>3. SameKin
    BY <1>f, <2>1, <2>2, KinKept, ApartIsLike
  <2>4. Fits(e) /\ def.kind = "subflow"
    BY <1>f, <2>1 DEF Fits, PhaseFits, Settles, Mid, r
  <2> QED BY <2>1, <2>3, <2>4, ShapeMoves DEF Parents
<1> QED BY <1>1, <1>2, <1>3, <1>4, <1>5, <1>6, <1>7, <1>8, <1>9, <1>10, <1>11, <1>12, <1>13 DEF ChildStep

LEMMA OutsideShape ==
    ASSUME TypeOK, Shape, WebService \/ (\E c \in Runs : BodyEnds(c)) \/ Operator \/ Faulty \/ Tick
    PROVE  Shape'
<1>a. /\ api.phase # "idle" => def.kind \in Answered \cup {"gate"} /\ api.run = 0
      /\ api.phase \in {"node", "run"} => def.kind \in Answered
      /\ Present(0) /\ 0 \in Runs
  BY RunsAssumption DEF Shape, Kinship, Presence
<1>1. CASE Asks
  <2>1. /\ UNCHANGED <<def, run, rows, eng, record>> /\ api'.phase = "node" /\ api'.run = 0
        /\ def.kind \in Answered
    BY <1>1, AskEffect
  <2>2. SameKin
    BY <2>1, KinSame
  <2> QED BY <2>1, <2>2, ShapeOther
<1>2. CASE AnswerNode
  <2>1. /\ UNCHANGED <<def, rows, eng, record, budget>> /\ api.phase = "node" /\ api'.phase = "run" /\ api'.run = 0
        /\ Keeps(0, {"node", "answered"}) /\ Apart(0)
    BY <1>2, <1>a, AnswerNodeEffect
  <2>2. run'[0].status # "absent"
    BY <1>a, <2>1 DEF Keeps, Fields, Present
  <2>3. SameKin
    BY <1>a, <2>1, <2>2, KinKept, ApartIsLike
  <2> QED BY <1>a, <2>1, <2>3, ShapeOther
<1>3. CASE AnswerRun
  <2>1. /\ UNCHANGED <<def, rows, eng, record, budget>> /\ api.phase = "run"
        /\ (api'.phase = "row" /\ api'.run = 0) \/ api' = NoAnswer
        /\ run'[0].status # "absent" /\ Keeps(0, {"status", "hole"}) /\ Apart(0)
    BY <1>3, <1>a, AnswerRunEffect
  <2>2. SameKin
    BY <1>a, <2>1, KinKept, ApartIsLike
  <2>3. /\ api'.phase # "idle" => def.kind \in Answered \cup {"gate"} /\ api'.run = 0
        /\ api'.phase \in {"node", "run"} => def.kind \in Answered
    BY <1>a, <2>1 DEF NoAnswer
  <2> QED BY <2>1, <2>2, <2>3, ShapeOther
<1>4. CASE AnswerRow
  <2>1. /\ UNCHANGED <<def, run, eng, record, budget>> /\ api.phase = "row" /\ api' = NoAnswer /\ RowsApart(0)
    BY <1>4, <1>a, AnswerRowEffect
  <2>2. SameKin
    BY <1>a, <2>1, KinSame DEF RowsApart
  <2>3. api'.phase = "idle"
    BY <2>1 DEF NoAnswer
  <2> QED BY <2>1, <2>2, <2>3, ShapeOther
<1>5. CASE resolve_gate \/ AwaitedEnd
  <2>1. /\ UNCHANGED <<def, run, rows, eng>>
        /\ api' = api \/ (def.kind = "gate" /\ api'.phase = "row" /\ api'.run = 0)
    BY <1>5, GateEffect
  <2>2. SameKin
    BY <2>1, KinSame
  <2> QED BY <1>a, <2>1, <2>2, ShapeOther
<1>6. CASE \E c \in Runs : BodyEnds(c)
  <2>1. PICK c \in Runs : BodyEnds(c)
    BY <1>6
  <2>2. /\ UNCHANGED <<def, eng, api, record, budget>> /\ Active(c) /\ IsChild(c)
        /\ Keeps(c, {"body"}) /\ Apart(c) /\ run'[c].body # "none" /\ RowsApart(c)
    BY <2>1, BodyEndsEffect
  <2>3. SameKin
    BY <2>2 DEF SameKin, Keeps, Apart, Fields, RowsApart, Active, Present, IsChild
  <2> QED BY <1>a, <2>2, <2>3, ShapeOther
<1>7. CASE Operator
  <2>1. PICK r \in Runs : cancel_workflow_run(r) \/ pause_workflow_run(r) \/ resume_workflow_run(r)
    BY <1>7 DEF Operator
  <2>2. /\ UNCHANGED <<def, eng, api, record>> /\ Active(r) /\ RowsApart(r)
        /\ Keeps(r, {"status", "hole"}) /\ LikeApart(r) /\ run'[r].status # "absent"
    <3>1. CASE cancel_workflow_run(r)
      BY <3>1, CancelEffect
    <3>2. CASE pause_workflow_run(r) \/ resume_workflow_run(r)
      BY <3>2, PauseEffect, ApartIsLike DEF RowsApart, Keeps
    <3> QED BY <2>1, <3>1, <3>2
  <2>3. SameKin
    BY <2>2, KinKept DEF RowsApart, Active
  <2> QED BY <1>a, <2>2, <2>3, ShapeOther
<1>8. CASE Faulty
  <2>1. PICK e \in Engines : EngineCrash(e) \/ fail_driven_ready_node(e)
    BY <1>8 DEF Faulty
  <2> DEFINE r == eng[e].run
  <2>2. r \in Runs /\ Present(r)
    BY Facts
  <2> HIDE DEF r
  <2>3. /\ UNCHANGED <<def, api, record>>
        /\ eng'[e] = Idle /\ \A d \in Engines : d # e => eng'[d] = eng[d]
        /\ RowsApart(r)
        /\ \/ run' = run
           \/ Like(r) /\ LikeApart(r)
           \/ Keeps(r, {"status", "hole"}) /\ run'[r].status = "failed" /\ LikeApart(r)
    <3>1. CASE EngineCrash(e)
      BY <3>1, CrashEffect DEF r
    <3>2. CASE fail_driven_ready_node(e)
      BY <3>2, FailEffect DEF r
    <3> QED BY <2>1, <3>1, <3>2
  <2>4. \/ run' = run
        \/ Keeps(r, {"status", "hole"}) /\ run'[r].status # "absent" /\ LikeApart(r)
    BY <2>2, <2>3 DEF Like, Keeps, Fields, Present
  <2>5. SameKin
    <3>1. CASE run' = run
      BY <2>2, <2>3, <3>1, KinSame DEF RowsApart
    <3>2. CASE Keeps(r, {"status", "hole"}) /\ run'[r].status # "absent" /\ LikeApart(r)
      BY <2>2, <2>3, <3>2, KinKept DEF RowsApart
    <3> QED BY <2>4, <3>1, <3>2
  <2>6. eng'[e].phase = "idle" /\ eng'[e].run = 0
    BY <2>3 DEF Idle
  <2> QED BY <1>a, <2>3, <2>5, <2>6, ShapeTurns
<1>9. CASE Tick
  <2>1. /\ UNCHANGED <<def, eng, api, budget>>
        /\ \A r \in Runs : Present(r) => Keeps(r, {"age", "since"})
        /\ \A r \in Runs : ~Present(r) => run'[r] = run[r]
        /\ \A r \in Runs : rows[r] = NoRows => rows'[r] = NoRows
    BY <1>9, TickEffect
  <2>2. SameKin
    BY <2>1 DEF SameKin, Keeps, Fields, Present, Shape, Presence, Blank
  <2> QED BY <1>a, <2>1, <2>2, ShapeOther
<1> QED BY <1>1, <1>2, <1>3, <1>4, <1>5, <1>6, <1>7, <1>8, <1>9 DEF WebService, Asks

LEMMA NextShape ==
    ASSUME TypeOK, Shape, [Next]_vars
    PROVE  Shape'
<1>1. CASE \E e \in Engines : EngineStep(e)
  BY <1>1, CommonShape, WaitingShape, SharedShape, ChildShape DEF EngineStep
<1>2. CASE WebService \/ (\E c \in Runs : BodyEnds(c)) \/ Operator \/ Faulty \/ Tick
  BY <1>2, OutsideShape
<1>3. CASE UNCHANGED vars
  <2>1. UNCHANGED <<def, run, rows, eng, api>>
    BY <1>3 DEF vars
  <2>2. SameKin
    BY <2>1, KinSame
  <2>3. /\ api.phase # "idle" => def.kind \in Answered \cup {"gate"} /\ api.run = 0
        /\ api.phase \in {"node", "run"} => def.kind \in Answered
    BY DEF Shape, Kinship
  <2> QED BY <2>1, <2>2, <2>3, ShapeOther
<1> QED BY <1>1, <1>2, <1>3 DEF Next

\* Nothing has happened yet.
LEMMA InitFacts ==
    ASSUME Init
    PROVE  /\ def \in Scenario /\ 0 \in Started(def) /\ 0 \in Runs
           /\ \A r \in Runs : run[r] = NewRun(def, r)
           /\ \A r \in Runs : r \in Started(def) => run[r].status = "queued" /\ rows[r].due = 1
           /\ \A r \in Runs : r \notin Started(def) => rows[r] = NoRows
           /\ \A r \in Runs : run[r].status \in {"absent", "queued", "running"}
           /\ \A r \in Runs : run[r].status = "running" => run[r].body = "busy"
           /\ \A e \in Engines : eng[e] = Idle
           /\ api = NoAnswer
<1>1. def \in Scenario /\ def.parties \in Nat \ {0} /\ 0 \in Runs
  BY ScenariosAssumption, RunsAssumption DEF Init, Scenario
<1>2. 0 \in Started(def)
  BY <1>1 DEF Started
<1>3. \A r \in Runs : r \in Started(def) => rows[r] = [NoRows EXCEPT !.due = 1]
  BY DEF Init
<1>4. \A r \in Runs : r \in Started(def) => rows[r].due = 1
  BY <1>3, NoRowsType
<1> QED BY <1>1, <1>2, <1>4 DEF Init, NewRun

LEMMA InitShape == Init => Shape
<1> SUFFICES ASSUME Init PROVE Shape
  OBVIOUS
<1>1. /\ def \in Scenario /\ 0 \in Started(def) /\ 0 \in Runs
      /\ \A r \in Runs : run[r] = NewRun(def, r)
      /\ \A r \in Runs : r \in Started(def) => run[r].status = "queued"
      /\ \A r \in Runs : r \notin Started(def) => rows[r] = NoRows
      /\ \A e \in Engines : eng[e] = Idle
      /\ api = NoAnswer
  BY InitFacts
<1>2. \A r \in Runs : /\ run[r].parent = r /\ ~run[r].linked /\ run[r].node = "none" /\ run[r].frame = NoFrame
                      /\ run[r].body = "none" \/ (def.body = "reused" /\ run[r].body = "busy" /\ run[r].status = "running")
                      /\ r \notin Started(def) /\ run[r].status = "running" => def.body = "reused"
                      /\ r \notin Started(def) => run[r].status \in {"absent", "running"}
  <2>1. def.body = "reused" => def.parties = 1
    BY <1>1 DEF Scenario
  <2>2. def.body = "reused" => 1 \notin Started(def)
    BY <2>1 DEF Started
  <2> SUFFICES ASSUME NEW r \in Runs
               PROVE  /\ run[r].parent = r /\ ~run[r].linked /\ run[r].node = "none" /\ run[r].frame = NoFrame
                      /\ run[r].body = "none" \/ (def.body = "reused" /\ run[r].body = "busy" /\ run[r].status = "running")
                      /\ r \notin Started(def) /\ run[r].status = "running" => def.body = "reused"
                      /\ r \notin Started(def) => run[r].status \in {"absent", "running"}
    OBVIOUS
  <2>3. /\ run[r].parent = r /\ ~run[r].linked /\ run[r].node = "none" /\ run[r].frame = NoFrame
        /\ run[r].body = (IF def.body = "reused" /\ r = 1 THEN "busy" ELSE "none")
        /\ run[r].status = (IF r \in Started(def) THEN "queued"
                            ELSE IF def.body = "reused" /\ r = 1 THEN "running" ELSE "absent")
    <3>1. run[r] = NewRun(def, r)
      BY <1>1
    <3> QED BY <3>1 DEF NewRun
  <2> QED BY <2>2, <2>3
<1>3. def.body = "reused" => def.kind \in Parents
  BY <1>1 DEF Scenario, Bodies, Parents
<1>4. Presence
  BY <1>1, <1>2 DEF Presence, Present, Blank, Idle
<1>5. PhaseKinds
  BY <1>1 DEF PhaseKinds, PhaseFits, Mid, Idle
<1>6. Kinship
  BY <1>1, <1>2, <1>3 DEF Kinship, IsChild, NoAnswer, Present
<1> QED BY <1>4, <1>5, <1>6 DEF Shape

LEMMA Shaped == Spec => [](TypeOK /\ Shape)
<1>1. Init => TypeOK /\ Shape
  BY InitTypes, InitShape
<1>2. TypeOK /\ Shape /\ [Next]_vars => (TypeOK /\ Shape)'
  BY NextTypes, NextShape
<1> QED BY <1>1, <1>2, PTL DEF Spec

-------------------------------------------------------------------------------
(***************************************************************************)
(* Throttle and cooldown.                                                  *)
(***************************************************************************)

LEMMA SinceKept ==
    ASSUME NEW r \in Runs, NEW S, "since" \notin S, Keeps(r, S), LikeApart(r),
           Present(r) => run'[r].status # "absent"
    PROVE  SinceSame
  BY DEF SinceSame, Keeps, LikeApart, Like, Fields, Present

LEMMA SmallSet ==
    ASSUME NEW S, IsFiniteSet(S), NEW T, T \subseteq S, NEW n \in Nat, Cardinality(S) <= n
    PROVE  IsFiniteSet(T) /\ Cardinality(T) <= n
<1>1. IsFiniteSet(T) /\ Cardinality(T) <= Cardinality(S)
  BY FS_Subset
<1> QED BY <1>1, FS_CardinalityType

LEMMA TimeFacts ==
    ASSUME TypeOK
    PROVE  /\ Timeout \in Nat /\ Timeout > 0 /\ Window = Timeout /\ record.age \in 0..Timeout
           /\ record.used \in Nat /\ \A r \in Runs : run[r].since \in 0..Timeout
           /\ MaxPerWindow \in Nat /\ MaxPerWindow > 0
  BY TimeAssumption, TokensAssumption DEF TypeOK, SharedRecords, RunRecords, Window

LEMMA RatesKept ==
    ASSUME Rates, UNCHANGED def, SinceSame,
           def.kind \in {"throttle", "cooldown"} =>
              /\ record'.age = record.age /\ record'.used = record.used /\ record'.status = record.status
    PROVE  Rates'
<1>1. CASE def.kind = "throttle"
  <2>1. Current' = Current /\ Previous' = Previous
    BY <1>1 DEF Current, Previous, SinceSame, Window
  <2> QED BY <1>1, <2>1 DEF Rates, ThrottleCounts, CooldownStamps, SinceSame, Window
<1>2. CASE def.kind = "cooldown"
  BY <1>2 DEF Rates, ThrottleCounts, CooldownStamps, SinceSame, Window
<1>3. CASE def.kind \notin {"throttle", "cooldown"}
  BY <1>3 DEF Rates, ThrottleCounts, CooldownStamps
<1> QED BY <1>1, <1>2, <1>3

LEMMA TokenRates ==
    ASSUME TypeOK, Shape, Rates, NEW e \in Engines, consume_token(e)
    PROVE  Rates'
<1> DEFINE r == eng[e].run
<1>1. /\ TypeOK' /\ UNCHANGED <<def, rows, api, budget>>
      /\ r \in Runs /\ eng[e].phase = "throttle" /\ Keeps(r, {"since"}) /\ Apart(r)
      /\ \/ record' = record /\ run' = run
         \/ /\ run'[r].since = 0 /\ record'.status = "open"
            /\ \/ /\ record.status = "none" \/ record.age >= Window
                  /\ record'.age = 0 /\ record'.used = 1
               \/ /\ record.status # "none" /\ record.age < Window /\ record.used < MaxPerWindow
                  /\ record'.age = record.age /\ record'.used = record.used + 1
  BY TokenEffect
<1>2. def.kind = "throttle" /\ Present(r)
  BY <1>1, Facts DEF PhaseFits
<1> HIDE DEF r
<1>t. /\ Timeout \in Nat /\ Timeout > 0 /\ Window = Timeout /\ record.age \in 0..Timeout
      /\ record.used \in Nat /\ \A q \in Runs : run[q].since \in 0..Timeout
      /\ MaxPerWindow \in Nat /\ MaxPerWindow > 0
  BY TimeFacts
<1>s. \A q \in Runs : /\ Present(q)' <=> Present(q)
                      /\ q # r => run'[q].since = run[q].since
  BY <1>1 DEF Keeps, Apart, Fields, Present
<1>fin. IsFiniteSet(Current) /\ IsFiniteSet(Previous)
  BY RunsAssumption, FS_Subset DEF Current, Previous
<1>h. /\ \A q \in Runs : ~Present(q) => run[q].since = Timeout
      /\ record.status = "none" => \A q \in Runs : run[q].since = Timeout
      /\ record.status # "none" =>
            /\ \A q \in Runs : run[q].since = 0 => record.age < Window
            /\ record.used <= MaxPerWindow
            /\ Cardinality(Current) <= record.used
            /\ Cardinality(Previous) <= MaxPerWindow
  BY <1>2 DEF Rates, ThrottleCounts
<1>3. CASE record' = record /\ run' = run
  <2>1. SinceSame
    BY <1>3 DEF SinceSame, Present
  <2> QED BY <1>1, <1>3, <2>1, RatesKept
<1>4. CASE /\ run'[r].since = 0 /\ record'.status = "open"
           /\ record.status = "none" \/ record.age >= Window
           /\ record'.age = 0 /\ record'.used = 1
  <2>1. Current' = {r}
    BY <1>1, <1>4, <1>t, <1>s, <1>h DEF Current
  <2>2. Cardinality(Current') = 1
    BY <2>1, FS_Singleton
  <2>3. IsFiniteSet(Previous') /\ Cardinality(Previous') <= MaxPerWindow
    <3>1. CASE record.status = "none"
      <4>1. Previous' = {}
        BY <1>1, <1>4, <1>t, <1>s, <1>h, <3>1 DEF Previous
      <4> QED BY <1>t, <4>1, FS_EmptySet
    <3>2. CASE record.status # "none"
      <4>1. Previous' \subseteq Current
        BY <1>1, <1>4, <1>t, <1>s, <3>2 DEF Previous, Current
      <4>2. Cardinality(Current) <= MaxPerWindow
        BY <1>fin, <1>t, <1>h, <3>2, FS_CardinalityType
      <4> QED BY <1>fin, <1>t, <4>1, <4>2, SmallSet
    <3> QED BY <3>1, <3>2
  <2> QED BY <1>1, <1>2, <1>4, <1>t, <1>s, <1>h, <2>2, <2>3 DEF Rates, ThrottleCounts, CooldownStamps, Window
<1>5. CASE /\ run'[r].since = 0 /\ record'.status = "open"
           /\ record.status # "none" /\ record.age < Window /\ record.used < MaxPerWindow
           /\ record'.age = record.age /\ record'.used = record.used + 1
  <2>1. Current' = Current \cup {r}
    BY <1>1, <1>5, <1>t, <1>s DEF Current
  <2>2. Cardinality(Current') <= record.used + 1
    <3>1. Cardinality(Current) \in Nat /\ Cardinality(Current) <= record.used
      BY <1>5, <1>fin, <1>h, FS_CardinalityType
    <3>2. Cardinality(Current \cup {r}) \in {Cardinality(Current), Cardinality(Current) + 1}
      BY <1>fin, FS_AddElement
    <3> QED BY <1>t, <2>1, <3>1, <3>2
  <2>3. Previous' \subseteq Previous
    BY <1>1, <1>5, <1>t, <1>s DEF Previous
  <2>4. Cardinality(Previous') <= MaxPerWindow
    BY <1>5, <1>fin, <1>t, <1>h, <2>3, SmallSet
  <2> QED BY <1>1, <1>2, <1>5, <1>t, <1>s, <1>h, <2>2, <2>4 DEF Rates, ThrottleCounts, CooldownStamps, Window
<1> QED BY <1>1, <1>3, <1>4, <1>5

LEMMA StampRates ==
    ASSUME TypeOK, Shape, Rates, NEW e \in Engines, stamp_cooldown(e)
    PROVE  Rates'
<1> DEFINE r == eng[e].run
<1>1. /\ UNCHANGED <<def, rows, api, budget>>
      /\ r \in Runs /\ eng[e].phase = "cooldown" /\ Keeps(r, {"since"}) /\ Apart(r)
      /\ \/ /\ record.status = "none" \/ record.age >= Window
            /\ run'[r].since = 0 /\ record'.status = "open" /\ record'.age = 0
         \/ record' = record /\ run' = run
  BY StampEffect
<1>2. def.kind = "cooldown" /\ Present(r)
  BY <1>1, Facts DEF PhaseFits
<1> HIDE DEF r
<1>t. /\ Timeout \in Nat /\ Timeout > 0 /\ Window = Timeout /\ record.age \in 0..Timeout
      /\ \A q \in Runs : run[q].since \in 0..Timeout
  BY TimeFacts
<1>s. \A q \in Runs : /\ Present(q)' <=> Present(q)
                      /\ q # r => run'[q].since = run[q].since
  BY <1>1 DEF Keeps, Apart, Fields, Present
<1>3. CASE record' = record /\ run' = run
  <2>1. SinceSame
    BY <1>3 DEF SinceSame, Present
  <2> QED BY <1>1, <1>3, <2>1, RatesKept
<1>4. CASE /\ record.status = "none" \/ record.age >= Window
           /\ run'[r].since = 0 /\ record'.status = "open" /\ record'.age = 0
  <2>1. \A q \in Runs : run[q].since = Timeout
    BY <1>2, <1>4, <1>t DEF Rates, CooldownStamps
  <2> QED BY <1>1, <1>2, <1>4, <1>t, <1>s, <2>1 DEF Rates, ThrottleCounts, CooldownStamps, Window
<1> QED BY <1>1, <1>3, <1>4

LEMMA TickRates ==
    ASSUME TypeOK, Rates, Tick
    PROVE  Rates'
<1>1. /\ UNCHANGED <<def, eng, api, budget>>
      /\ \A r \in Runs : Present(r) => Keeps(r, {"age", "since"}) /\ run'[r].since = Older(run[r].since)
      /\ \A r \in Runs : ~Present(r) => run'[r] = run[r]
      /\ record'.age = Older(record.age) /\ record'.status = record.status
      /\ record'.used = record.used
  BY TickEffect
<1>t. /\ Timeout \in Nat /\ Timeout > 0 /\ Window = Timeout /\ record.age \in 0..Timeout
      /\ record.used \in Nat /\ \A r \in Runs : run[r].since \in 0..Timeout
      /\ MaxPerWindow \in Nat
  BY TimeFacts
<1>p. \A r \in Runs : Present(r)' <=> Present(r)
  BY <1>1 DEF Present, Keeps, Fields
<1>2. CASE def.kind = "throttle"
  <2>h. /\ \A q \in Runs : ~Present(q) => run[q].since = Timeout
        /\ record.status = "none" => \A q \in Runs : run[q].since = Timeout
        /\ record.status # "none" =>
              /\ record.used <= MaxPerWindow
              /\ Cardinality(Current) <= record.used
              /\ Cardinality(Previous) <= MaxPerWindow
    BY <1>2 DEF Rates, ThrottleCounts
  <2>1. \A q \in Runs : run'[q].since = Older(run[q].since)
    BY <1>1, <1>t, <2>h DEF Older
  <2>2. Current' \subseteq Current /\ Previous' \subseteq Previous
    BY <1>1, <1>t, <2>1 DEF Current, Previous, Older
  <2>3. IsFiniteSet(Current) /\ IsFiniteSet(Previous)
    BY RunsAssumption, FS_Subset DEF Current, Previous
  <2>4. record.status # "none" => Cardinality(Current') <= record.used /\ Cardinality(Previous') <= MaxPerWindow
    BY <1>t, <2>h, <2>2, <2>3, SmallSet
  <2>5. \A q \in Runs : run'[q].since # 0 /\ (run[q].since = Timeout => run'[q].since = Timeout)
    BY <1>t, <2>1 DEF Older
  <2> QED BY <1>1, <1>2, <1>p, <2>h, <2>4, <2>5 DEF Rates, ThrottleCounts, CooldownStamps
<1>3. CASE def.kind = "cooldown"
  <2>h. /\ \A q \in Runs : ~Present(q) => run[q].since = Timeout
        /\ \A q \in Runs : run[q].since < Window => record.status # "none" /\ run[q].since = record.age
        /\ \A q, r \in Runs : run[q].since < Window /\ run[r].since < Window => q = r
    BY <1>3 DEF Rates, CooldownStamps
  <2>1. \A q \in Runs : run'[q].since = Older(run[q].since)
    BY <1>1, <1>t, <2>h DEF Older
  <2>2. \A q \in Runs : run'[q].since < Timeout => run[q].since < Timeout /\ run'[q].since = run[q].since + 1
    BY <1>t, <2>1 DEF Older
  <2>3. \A q \in Runs : run'[q].since < Timeout => record'.status # "none" /\ run'[q].since = record'.age
    BY <1>1, <1>t, <2>h, <2>2 DEF Older
  <2>4. \A q \in Runs : run[q].since = Timeout => run'[q].since = Timeout
    BY <1>t, <2>1 DEF Older
  <2> QED BY <1>1, <1>3, <1>p, <1>t, <2>h, <2>2, <2>3, <2>4 DEF Rates, ThrottleCounts, CooldownStamps, Window
<1>4. CASE def.kind \notin {"throttle", "cooldown"}
  BY <1>1, <1>4 DEF Rates, ThrottleCounts, CooldownStamps
<1> QED BY <1>2, <1>3, <1>4

LEMMA OtherRates ==
    ASSUME UNCHANGED def, def.kind \notin {"throttle", "cooldown"}
    PROVE  Rates'
  BY DEF Rates, ThrottleCounts, CooldownStamps

LEMMA CommonSince ==
    ASSUME TypeOK, Shape, NEW e \in Engines, CommonStep(e)
    PROVE  SinceSame
<1> DEFINE r == eng[e].run
<1>f. r \in Runs /\ Present(r)
  BY Facts
<1> HIDE DEF r
<1>s. ASSUME NEW q \in Runs, NEW S, "since" \notin S, Keeps(q, S), LikeApart(q),
             run'[q].status = "absent" => run[q].status = "absent"
      PROVE  SinceSame
  BY <1>s, SinceKept DEF Present
<1>u. run' = run => SinceSame
  BY DEF SinceSame, Present
<1>1. CASE \E q \in Runs : process_ready_node(e, q)
  <2>1. PICK q \in Runs : process_ready_node(e, q)
    BY <1>1
  <2>2. /\ Keeps(q, {"status"}) /\ LikeApart(q)
        /\ run'[q].status = IF run[q].status = "queued" THEN "running" ELSE run[q].status
    BY <2>1, ClaimEffect, ApartIsLike
  <2> QED BY <1>s, <2>2
<1>2. CASE StepStopped(e)
  <2>1. (Like(r) /\ LikeApart(r)) \/ run' = run
    BY <1>2, StepStoppedEffect DEF r
  <2>2. Like(r) => Keeps(r, {"hole"}) /\ run'[r].status = run[r].status
    BY DEF Like, Keeps, Fields
  <2> QED BY <1>f, <1>u, <1>s, <2>1, <2>2
<1>3. CASE ParkNode(e)
  <2>1. Keeps(r, {"node", "tries", "age", "frame", "hole"}) /\ LikeApart(r)
    BY <1>3, NodeParked DEF r
  <2>2. run'[r].status = run[r].status
    BY <2>1 DEF Keeps, Fields
  <2> QED BY <1>f, <1>s, <2>1, <2>2
<1>4. CASE ParkRun(e)
  <2>1. Keeps(r, {"status", "frame"}) /\ LikeApart(r) /\ run'[r].status = "waiting"
    BY <1>4, <1>f, ParkRunEffect, ApartIsLike DEF r
  <2> QED BY <1>f, <1>s, <2>1
<1>5. CASE EnqueuePoll(e) \/ arm_node_timeout(e) \/ EnqueueNextPoll(e) \/ schedule_node_retry(e)
  BY <1>5, <1>u, EnqueuePollEffect, ArmEffect, RepollEffect, BackoffEffect
<1>6. CASE SettleNode(e)
  <2>1. Keeps(r, {"node"}) /\ LikeApart(r)
    BY <1>6, <1>f, SettleNodeEffect, ApartIsLike DEF r
  <2>2. run'[r].status = run[r].status
    BY <2>1 DEF Keeps, Fields
  <2> QED BY <1>f, <1>s, <2>1, <2>2
<1>7. CASE FinishRun(e)
  <2>1. Keeps(r, {"status", "passed"}) /\ LikeApart(r) /\ run'[r].status \in Terminal
    BY <1>7, <1>f, FinishRunEffect, ApartIsLike DEF r
  <2> QED BY <1>f, <1>s, <2>1 DEF Terminal
<1>8. CASE RetryRun(e)
  <2>1. Keeps(r, {"status"}) /\ LikeApart(r) /\ run'[r].status = "waiting"
    BY <1>8, <1>f, RetryRunEffect, ApartIsLike DEF r
  <2> QED BY <1>f, <1>s, <2>1
<1>9. CASE maybe_wake_subflow_parent(e) \/ drive_ready_node(e)
  BY <1>9, <1>u, HookEffect, DriveEndsEffect
<1> QED BY <1>1, <1>2, <1>3, <1>4, <1>5, <1>6, <1>7, <1>8, <1>9 DEF CommonStep

LEMMA SharedRates ==
    ASSUME TypeOK, Shape, Rates, NEW e \in Engines, SharedStep(e)
    PROVE  Rates'
<1> DEFINE r == eng[e].run
<1>f. r \in Runs /\ Present(r) /\ PhaseFits(eng[e].phase)
  BY Facts
<1> HIDE DEF r
<1>s. ASSUME NEW q \in Runs, NEW S, "since" \notin S, Keeps(q, S), LikeApart(q),
             run'[q].status = "absent" => run[q].status = "absent"
      PROVE  SinceSame
  BY <1>s, SinceKept DEF Present
<1>u. run' = run => SinceSame
  BY DEF SinceSame, Present
<1>1. CASE process_barrier_node(e) \/ process_throttle_node(e) \/ process_cooldown_node(e)
  BY <1>1, <1>u, LookEffect, CooldownEffect, RatesKept
<1>2. CASE register_arrival(e)
  <2>1. UNCHANGED def /\ eng[e].phase = "barrier"
    BY <1>2, ArrivalEffect
  <2>2. def.kind = "barrier"
    BY <1>f, <2>1 DEF PhaseFits
  <2> QED BY <2>1, <2>2, OtherRates
<1>3. CASE consume_token(e)
  BY <1>3, TokenRates
<1>4. CASE CreateShared(e)
  <2>1. UNCHANGED <<def, record>> /\ Keeps(r, {"node", "tries", "age"}) /\ LikeApart(r)
    BY <1>4, <1>f, CreateSharedEffect, ApartIsLike DEF r
  <2>2. run'[r].status = run[r].status
    BY <2>1 DEF Keeps, Fields
  <2>3. SinceSame
    BY <1>f, <1>s, <2>1, <2>2
  <2> QED BY <2>1, <2>3, RatesKept
<1>5. CASE stamp_cooldown(e)
  BY <1>5, StampRates
<1>6. CASE SkipNode(e)
  <2>1. UNCHANGED <<def, record>> /\ Keeps(r, {"node"}) /\ LikeApart(r)
    BY <1>6, <1>f, SkipNodeEffect, ApartIsLike DEF r
  <2>2. run'[r].status = run[r].status
    BY <2>1 DEF Keeps, Fields
  <2>3. SinceSame
    BY <1>f, <1>s, <2>1, <2>2
  <2> QED BY <2>1, <2>3, RatesKept
<1>7. CASE SkipRun(e)
  <2>1. UNCHANGED <<def, record>> /\ Keeps(r, {"status"}) /\ LikeApart(r) /\ run'[r].status = "succeeded"
    BY <1>7, <1>f, SkipRunEffect, ApartIsLike DEF r
  <2>2. SinceSame
    BY <1>f, <1>s, <2>1
  <2> QED BY <2>1, <2>2, RatesKept
<1> QED BY <1>1, <1>2, <1>3, <1>4, <1>5, <1>6, <1>7 DEF SharedStep

LEMMA OutsideRates ==
    ASSUME TypeOK, Shape, Rates, WebService \/ (\E c \in Runs : BodyEnds(c)) \/ Operator \/ Faulty \/ Tick
    PROVE  Rates'
<1>d. UNCHANGED def
  BY OutsideTypes
<1>s. ASSUME NEW q \in Runs, NEW S, "since" \notin S, Keeps(q, S), LikeApart(q),
             run'[q].status = "absent" => run[q].status = "absent"
      PROVE  SinceSame
  BY <1>s, SinceKept DEF Present
<1>1. CASE WebService
  <2>1. def.kind \in Answered \cup {"gate", "await_run"}
    <3>1. CASE Asks
      BY <3>1, AskEffect
    <3>2. CASE AnswerNode \/ AnswerRun \/ AnswerRow
      BY <3>2 DEF AnswerNode, AnswerRun, AnswerRow, Shape, Kinship
    <3>3. CASE resolve_gate \/ AwaitedEnd
      BY <3>3, GateEffect
    <3> QED BY <1>1, <3>1, <3>2, <3>3 DEF WebService, Asks
  <2> QED BY <1>d, <2>1, OtherRates DEF Answered
<1>2. CASE \E c \in Runs : BodyEnds(c)
  <2>1. PICK c \in Runs : BodyEnds(c)
    BY <1>2
  <2>2. IsChild(c)
    BY <2>1, BodyEndsEffect
  <2>3. def.kind \in Parents
    BY <2>2 DEF Shape, Kinship, IsChild
  <2> QED BY <1>d, <2>3, OtherRates DEF Parents
<1>3. CASE Operator
  <2>1. PICK r \in Runs : cancel_workflow_run(r) \/ pause_workflow_run(r) \/ resume_workflow_run(r)
    BY <1>3 DEF Operator
  <2>2. /\ UNCHANGED <<def, record>>
        /\ Keeps(r, {"status", "hole"}) /\ LikeApart(r) /\ run'[r].status # "absent"
    <3>1. CASE cancel_workflow_run(r)
      BY <3>1, CancelEffect
    <3>2. CASE pause_workflow_run(r) \/ resume_workflow_run(r)
      BY <3>2, PauseEffect, ApartIsLike DEF Keeps
    <3> QED BY <2>1, <3>1, <3>2
  <2>3. SinceSame
    BY <1>s, <2>2
  <2> QED BY <2>2, <2>3, RatesKept
<1>4. CASE Faulty
  <2>1. PICK e \in Engines : EngineCrash(e) \/ fail_driven_ready_node(e)
    BY <1>4 DEF Faulty
  <2> DEFINE r == eng[e].run
  <2>2. /\ UNCHANGED <<def, record>> /\ r \in Runs
        /\ \/ run' = run
           \/ Like(r) /\ LikeApart(r)
           \/ Keeps(r, {"status", "hole"}) /\ run'[r].status = "failed" /\ LikeApart(r)
    <3>1. CASE EngineCrash(e)
      BY <3>1, CrashEffect
    <3>2. CASE fail_driven_ready_node(e)
      BY <3>2, FailEffect
    <3> QED BY <2>1, <3>1, <3>2
  <2> HIDE DEF r
  <2>3. Like(r) => Keeps(r, {"hole"}) /\ run'[r].status = run[r].status
    BY DEF Like, Keeps, Fields
  <2>4. SinceSame
    <3>1. CASE run' = run
      BY <3>1 DEF SinceSame, Present
    <3>2. CASE Like(r) /\ LikeApart(r)
      BY <1>s, <2>2, <2>3, <3>2
    <3>3. CASE Keeps(r, {"status", "hole"}) /\ run'[r].status = "failed" /\ LikeApart(r)
      BY <1>s, <2>2, <3>3
    <3> QED BY <2>2, <3>1, <3>2, <3>3
  <2> QED BY <2>2, <2>4, RatesKept
<1>5. CASE Tick
  BY <1>5, TickRates
<1> QED BY <1>1, <1>2, <1>3, <1>4, <1>5

LEMMA NextRates ==
    ASSUME TypeOK, Shape, Rates, [Next]_vars
    PROVE  Rates'
<1>d. UNCHANGED def
  BY NextTypes
<1>1. CASE \E e \in Engines : EngineStep(e)
  <2>1. PICK e \in Engines : EngineStep(e)
    BY <1>1
  <2>2. CASE CommonStep(e)
    BY <2>2, CommonSince, CommonTypes, RatesKept
  <2>3. CASE WaitingStep(e)
    <3>1. def.kind \notin {"throttle", "cooldown"}
      BY <2>3 DEF WaitingStep, process_signal_node, process_approval_node, process_input_node,
                  process_wait_node, process_debounce_node, process_gate_node, process_await_run_node,
                  process_event_source_node, process_collect_node, AtNode, CreateWaiting, Waits,
                  CreateRecord, Shape, PhaseKinds, PhaseFits
    <3> QED BY <1>d, <3>1, OtherRates
  <2>4. CASE SharedStep(e)
    BY <2>4, SharedRates
  <2>5. CASE ChildStep(e)
    BY <1>d, <2>5, ChildShape, OtherRates DEF Parents
  <2> QED BY <2>1, <2>2, <2>3, <2>4, <2>5 DEF EngineStep
<1>2. CASE WebService \/ (\E c \in Runs : BodyEnds(c)) \/ Operator \/ Faulty \/ Tick
  BY <1>2, OutsideRates
<1>3. CASE UNCHANGED vars
  <2>1. UNCHANGED <<def, run, record>>
    BY <1>3 DEF vars
  <2>2. SinceSame
    BY <2>1 DEF SinceSame, Present
  <2> QED BY <2>1, <2>2, RatesKept
<1> QED BY <1>1, <1>2, <1>3 DEF Next

LEMMA InitRates == Init => Rates
<1> SUFFICES ASSUME Init PROVE Rates
  OBVIOUS
<1>1. /\ \A r \in Runs : run[r].since = Timeout
      /\ record.status = "none"
  BY DEF Init, NewRun
<1>2. Timeout \in Nat
  BY TimeAssumption
<1> QED BY <1>1, <1>2 DEF Rates, ThrottleCounts, CooldownStamps, Window

LEMMA RatesBound ==
    ASSUME TypeOK, Rates
    PROVE  RateBounded
<1> DEFINE recent == {r \in Runs : run[r].passed /\ run[r].since < Window}
<1>t. /\ Timeout \in Nat /\ Timeout > 0 /\ Window = Timeout /\ record.age \in 0..Timeout
      /\ record.used \in Nat /\ \A r \in Runs : run[r].since \in 0..Timeout
      /\ MaxPerWindow \in Nat /\ MaxPerWindow > 0
  BY TimeFacts
<1>f. IsFiniteSet(Current) /\ IsFiniteSet(Previous) /\ IsFiniteSet(recent)
  BY RunsAssumption, FS_Subset DEF Current, Previous
<1>1. CASE def.kind = "throttle"
  <2>1. CASE record.status = "none"
    <3>1. recent = {}
      BY <1>1, <1>t, <2>1 DEF Rates, ThrottleCounts
    <3>2. Cardinality(recent) <= 2 * MaxPerWindow
      <4> HIDE DEF recent
      <4>1. Cardinality(recent) = 0
        BY <3>1, FS_EmptySet
      <4> QED BY <1>t, <4>1
    <3> QED BY <1>1, <3>2 DEF RateBounded
  <2>2. CASE record.status # "none"
    <3>1. recent \subseteq Current \cup Previous
      BY <1>t DEF Current, Previous
    <3>2. Cardinality(Current) <= MaxPerWindow /\ Cardinality(Previous) <= MaxPerWindow
          /\ Cardinality(Current) \in Nat /\ Cardinality(Previous) \in Nat
      BY <1>1, <1>f, <1>t, <2>2, FS_CardinalityType DEF Rates, ThrottleCounts
    <3>3. IsFiniteSet(Current \cup Previous) /\ Cardinality(Current \cup Previous) <= 2 * MaxPerWindow
      <4>1. /\ IsFiniteSet(Current \cup Previous) /\ IsFiniteSet(Current \cap Previous)
            /\ Cardinality(Current \cup Previous) =
                  Cardinality(Current) + Cardinality(Previous) - Cardinality(Current \cap Previous)
        BY <1>f, FS_Union, FS_Intersection
      <4>2. Cardinality(Current \cap Previous) \in Nat
        BY <4>1, FS_CardinalityType
      <4> QED BY <1>t, <3>2, <4>1, <4>2
    <3>4. Cardinality(recent) <= 2 * MaxPerWindow
      <4>1. 2 * MaxPerWindow \in Nat
        BY <1>t
      <4> HIDE DEF recent
      <4> QED BY <3>1, <3>3, <4>1, SmallSet
    <3> QED BY <1>1, <3>4 DEF RateBounded
  <2> QED BY <2>1, <2>2
<1>2. CASE def.kind = "cooldown"
  <2>1. \A q, r \in recent : q = r
    BY <1>2 DEF Rates, CooldownStamps
  <2>2. recent = {} \/ \E r \in recent : recent = {r}
    BY <2>1
  <2>3. Cardinality(recent) <= 1
    <3> HIDE DEF recent
    <3>1. Cardinality(recent) = 0 \/ Cardinality(recent) = 1
      BY <2>2, FS_EmptySet, FS_Singleton
    <3> QED BY <3>1
  <2> QED BY <1>2, <2>3 DEF RateBounded
<1> QED BY <1>1, <1>2 DEF RateBounded

\* A throttle and a cooldown keep their limits: for every number of runs, every window and
\* every limit, and with any number of drives at a time (consume_token and stamp_cooldown
\* read and write their record in one step).
THEOREM RatesHold == Spec => []RateBounded
<1>1. Init => TypeOK /\ Shape /\ Rates
  BY InitTypes, InitShape, InitRates
<1>2. TypeOK /\ Shape /\ Rates /\ [Next]_vars => (TypeOK /\ Shape /\ Rates)'
  BY NextTypes, NextShape, NextRates
<1>3. TypeOK /\ Rates => RateBounded
  BY RatesBound
<1> QED BY <1>1, <1>2, <1>3, PTL DEF Spec

-------------------------------------------------------------------------------
(***************************************************************************)
(* Parents and their children.                                             *)
(***************************************************************************)

LEMMA StableKept ==
    ASSUME NEW r \in Runs, NEW S, Keeps(r, S), S \cap {"parent", "index", "linked", "body"} = {},
           LikeApart(r), run[r].hole => run'[r].hole, Present(r), run'[r].status # "absent"
    PROVE  KinStable
  BY DEF KinStable, Keeps, LikeApart, Like, Fields, Present, IsChild

LEMMA StableSame ==
    ASSUME UNCHANGED run
    PROVE  KinStable
  BY DEF KinStable, Present, IsChild

LEMMA TallyEmpty ==
    ASSUME TypeOK
    PROVE  Tally(NoFrame)
<1>1. def.items \in Nat
  BY ScenariosAssumption DEF TypeOK, Scenario
<1>2. NoFrame.next = 0 /\ NoFrame.flight = {} /\ NoFrame.done = {}
  BY DEF NoFrame
<1> QED BY <1>1, <1>2 DEF Tally

LEMMA FamilyKept ==
    ASSUME UNCHANGED def, KinStable, NEW r \in Runs, NEW fl, fl \subseteq Nat \X Runs, Family(r, fl)
    PROVE  \A f \in fl :
              /\ f[2] # r /\ Present(f[2])' /\ IsChild(f[2])'
              /\ ~run'[r].hole \/ def.kind = "map" => run'[f[2]].parent = r
              /\ ~run'[r].hole => run'[f[2]].linked
              /\ def.kind = "map" => run'[f[2]].index = f[1]
<1> TAKE f \in fl
<1>1. f[2] \in Runs
  OBVIOUS
<1>2. /\ f[2] # r /\ Present(f[2]) /\ IsChild(f[2])
      /\ ~run[r].hole \/ def.kind = "map" => run[f[2]].parent = r
      /\ ~run[r].hole => run[f[2]].linked
      /\ def.kind = "map" => run[f[2]].index = f[1]
  BY DEF Family
<1> QED BY <1>1, <1>2 DEF KinStable

LEMMA FlightType ==
    ASSUME TypeOK
    PROVE  /\ \A r \in Runs : run[r].frame \in Frames /\ run[r].frame.flight \subseteq Nat \X Runs
           /\ \A e \in Engines : eng[e].frame \in Frames /\ eng[e].frame.flight \subseteq Nat \X Runs
           /\ NoFrame.flight = {}
<1>1. /\ \A r \in Runs : run[r].frame \in Frames
      /\ \A e \in Engines : eng[e].frame \in Frames
  BY Typed DEF RunRecords
<1> QED BY <1>1 DEF Frames, NoFrame

LEMMA RunFamilies ==
    ASSUME TypeOK, UNCHANGED def, Families, def.kind \in Parents, KinStable, RunsInherit
    PROVE  \A r \in Runs : Family(r, run[r].frame.flight)'
<1> TAKE r \in Runs
<1>t. /\ \A q \in Runs : run[q].frame.flight \subseteq Nat \X Runs
      /\ \A d \in Engines : eng[d].frame.flight \subseteq Nat \X Runs
      /\ NoFrame.flight = {}
  BY FlightType
<1>h. /\ \A q \in Runs : Family(q, run[q].frame.flight)
      /\ \A d \in Engines : Family(eng[d].run, eng[d].frame.flight)
  BY DEF Families
<1>1. PICK fl : fl \subseteq Nat \X Runs /\ Family(r, fl) /\ (run'[r].frame.flight = fl \/ run'[r].frame.flight = {})
  BY <1>t, <1>h DEF RunsInherit
<1>2. CASE run'[r].frame.flight = fl
  BY <1>1, <1>2, FamilyKept DEF Family
<1>3. CASE run'[r].frame.flight = {}
  BY <1>3 DEF Family
<1> QED BY <1>1, <1>2, <1>3

LEMMA DriveFamilies ==
    ASSUME TypeOK, UNCHANGED def, Families, def.kind \in Parents, KinStable,
           NEW e \in Engines, DriveInherits(e)
    PROVE  Family(eng[e].run, eng[e].frame.flight)'
<1>t. eng[e].frame.flight \subseteq Nat \X Runs /\ eng[e].run \in Runs /\ NoFrame.flight = {}
  BY FlightType, Typed
<1>1. CASE eng'[e].frame = NoFrame
  BY <1>t, <1>1 DEF Family
<1>2. CASE eng'[e].run = eng[e].run /\ eng'[e].frame = eng[e].frame
  <2> DEFINE r == eng[e].run
             fl == eng[e].frame.flight
  <2>1. r \in Runs /\ fl \subseteq Nat \X Runs /\ Family(r, fl)
    BY <1>t DEF Families
  <2>2. eng'[e].run = r /\ eng'[e].frame.flight = fl
    BY <1>2
  <2> HIDE DEF r, fl
  <2> QED BY <2>1, <2>2, FamilyKept DEF Family
<1> QED BY <1>1, <1>2 DEF DriveInherits

LEMMA FamiliesKept ==
    ASSUME TypeOK, UNCHANGED def, Families, KinStable, Inherits
    PROVE  Families'
<1>1. CASE def.kind \in Parents
  BY <1>1, RunFamilies, DriveFamilies DEF Families, Inherits
<1>2. CASE def.kind \notin Parents
  BY <1>2 DEF Families
<1> QED BY <1>1, <1>2

LEMMA TalliesKept ==
    ASSUME TypeOK, UNCHANGED def, Tallies, Inherits
    PROVE  Tallies'
<1>1. Tally(NoFrame)
  BY TallyEmpty
<1>2. \A fr : Tally(fr) => Tally(fr)'
  BY DEF Tally
<1> SUFFICES ASSUME def.kind = "map"
             PROVE  (\A r \in Runs : Tally(run[r].frame)') /\ (\A e \in Engines : Tally(eng[e].frame)')
  BY DEF Tallies
<1>3. ASSUME NEW r \in Runs PROVE Tally(run[r].frame)'
  <2>1. Tally(run'[r].frame)
    BY <1>1 DEF Inherits, RunsInherit, DriveInherits, Tallies
  <2> QED BY <2>1 DEF Tally
<1>4. ASSUME NEW e \in Engines PROVE Tally(eng[e].frame)'
  <2>1. Tally(eng'[e].frame)
    BY <1>1 DEF Inherits, RunsInherit, DriveInherits, Tallies
  <2> QED BY <2>1 DEF Tally
<1> QED BY <1>3, <1>4

LEMMA RestKept ==
    ASSUME TypeOK, UNCHANGED def, def.kind \in Parents => ChildrenRest, KinStable, RowsRest
    PROVE  (def.kind \in Parents => ChildrenRest)'
<1> SUFFICES ASSUME def.kind \in Parents, NEW c \in Runs, Child(c)', run'[c].status \in Terminal
             PROVE  /\ rows'[c] = NoRows
                    /\ \A e \in Engines : eng'[e].phase = "step" /\ eng'[e].run = c => run'[run'[c].parent].hole
  BY DEF ChildrenRest
<1>1. Child(c) /\ run'[c].parent = run[c].parent /\ run[c].parent \in Runs
  BY Typed DEF Child, KinStable, RunRecords
<1>2. CASE run[c].status \in Terminal
  <2>1. rows[c] = NoRows /\ \A e \in Engines : eng[e].phase = "step" /\ eng[e].run = c => run[run[c].parent].hole
    BY <1>1, <1>2 DEF ChildrenRest
  <2>2. rows'[c] = NoRows
    BY <1>1, <1>2, <2>1 DEF RowsRest
  <2> QED BY <1>1, <2>1, <2>2 DEF RowsRest, KinStable
<1>3. CASE run[c].status \notin Terminal
  BY <1>1, <1>3 DEF RowsRest
<1> QED BY <1>2, <1>3

LEMMA KindredKept ==
    ASSUME TypeOK, UNCHANGED def, Kindred, KinStable, Inherits, RowsRest
    PROVE  Kindred'
<1>1. Families' /\ Tallies' /\ (def.kind \in Parents => ChildrenRest)'
  BY FamiliesKept, TalliesKept, RestKept DEF Kindred
<1>2. Reuse'
  BY DEF Kindred, Reuse, KinStable
<1> QED BY <1>1, <1>2 DEF Kindred

\* A step of a drive that starts no child and ends none.
LEMMA QuietMoves ==
    ASSUME NEW e \in Engines, NEW p, NEW v, p # "step", Moves(e, p, v, eng[e].frame),
           \A q \in Runs : \/ run'[q].frame = run[q].frame \/ run'[q].frame = NoFrame
                           \/ q = eng[e].run /\ run'[q].frame = eng[e].frame,
           \A c \in Runs : Child(c) =>
              /\ run'[c].status \in Terminal => run[c].status \in Terminal
              /\ rows'[c] = rows[c] \/ rows'[c] = NoRows
    PROVE  Inherits /\ RowsRest
<1>1. Inherits
  BY DEF Inherits, RunsInherit, DriveInherits, Moves
<1>2. RowsRest
  BY DEF RowsRest, Moves
<1> QED BY <1>1, <1>2

LEMMA Unmoved ==
    ASSUME UNCHANGED run, NEW r \in Runs
    PROVE  Keeps(r, {}) /\ LikeApart(r)
  BY DEF Keeps, LikeApart, Like

\* A step in the middle of a handler, of a run that is no child.
LEMMA MidKin ==
    ASSUME TypeOK, Shape, NEW e \in Engines, Mid(e), NEW r, r = eng[e].run,
           NEW p, NEW v, p # "step", Moves(e, p, v, eng[e].frame),
           NEW S, Keeps(r, S), S \cap {"parent", "index", "linked", "body"} = {}, LikeApart(r),
           run[r].hole => run'[r].hole, run'[r].status # "absent", RowsApart(r),
           run'[r].frame \in {run[r].frame, NoFrame, eng[e].frame}
    PROVE  KinStable /\ Inherits /\ RowsRest
<1>1. r \in Runs /\ Present(r) /\ ~Child(r)
  BY Facts
<1>2. KinStable
  BY <1>1, StableKept
<1>3. \A q \in Runs : \/ run'[q].frame = run[q].frame \/ run'[q].frame = NoFrame
                      \/ q = eng[e].run /\ run'[q].frame = eng[e].frame
  BY DEF LikeApart, Like, Keeps, Fields
<1>4. \A c \in Runs : Child(c) =>
         /\ run'[c].status \in Terminal => run[c].status \in Terminal
         /\ rows'[c] = rows[c] \/ rows'[c] = NoRows
  BY <1>1 DEF LikeApart, Like, Keeps, Fields, RowsApart
<1> QED BY <1>2, <1>3, <1>4, QuietMoves

LEMMA CommonKin ==
    ASSUME TypeOK, Shape, OneDrive, NEW e \in Engines, CommonStep(e)
    PROVE  KinStable /\ Inherits /\ RowsRest
<1> DEFINE r == eng[e].run
<1>f. /\ r \in Runs /\ Present(r) /\ run[r].parent \in Runs /\ Present(run[r].parent)
      /\ Mid(e) => ~Child(r)
      /\ \A q \in Runs : ~Present(q) => rows[q] = NoRows
  BY Facts
<1>u. UNCHANGED run => /\ Keeps(r, {}) /\ LikeApart(r) /\ (run[r].hole => run'[r].hole)
                       /\ run'[r].status # "absent" /\ run'[r].frame \in {run[r].frame, NoFrame, eng[e].frame}
  BY <1>f, Unmoved DEF Present
<1> HIDE DEF r
<1>1. CASE \E q \in Runs : process_ready_node(e, q)
  <2>1. PICK q \in Runs : process_ready_node(e, q)
    BY <1>1
  <2>2. /\ rows[q].due > 0 /\ eng'[e].phase = "step" /\ eng'[e].run = q /\ eng'[e].frame = NoFrame
        /\ \A d \in Engines : d # e => eng'[d] = eng[d]
        /\ Keeps(q, {"status"}) /\ Apart(q) /\ RowsApart(q)
        /\ run'[q].status = IF run[q].status = "queued" THEN "running" ELSE run[q].status
    BY <2>1, ClaimEffect
  <2>3. Present(q) /\ rows[q] # NoRows
    BY <1>f, <2>2 DEF NoRows
  <2>4. run'[q].status # "absent" /\ run'[q].hole = run[q].hole
    BY <2>2, <2>3 DEF Present, Keeps, Fields
  <2>5. KinStable
    BY <2>2, <2>3, <2>4, StableKept, ApartIsLike
  <2>6. Inherits
    BY <2>2 DEF Inherits, RunsInherit, DriveInherits, Keeps, Apart, Fields
  <2>7. RowsRest
    <3>1. \A c \in Runs : run'[c].status \in Terminal => run[c].status \in Terminal
      BY <2>2 DEF Apart, Terminal
    <3> QED BY <2>2, <2>3, <3>1 DEF RowsRest, RowsApart
  <2> QED BY <2>5, <2>6, <2>7
<1>2. CASE StepStopped(e)
  <2>1. /\ UNCHANGED rows /\ Moves(e, "hook", eng[e].verdict, eng[e].frame)
        /\ \/ run[r].status = "paused" /\ Like(r) /\ LikeApart(r) /\ Holed(r)
           \/ run[r].status # "paused" /\ run' = run
    BY <1>2, StepStoppedEffect DEF r
  <2>2. \A q \in Runs : Like(q)
    BY <2>1, Unmoved, <1>f DEF LikeApart, Like, Keeps
  <2>3. LikeApart(r) /\ Keeps(r, {"hole"}) /\ (run[r].hole => run'[r].hole) /\ run'[r].status # "absent"
    <3>1. Like(r)
      BY <1>f, <2>2
    <3>2. LikeApart(r)
      BY <1>u, <2>1
    <3> QED BY <1>f, <3>1, <3>2 DEF Like, Keeps, Fields, Present
  <2>4. KinStable
    BY <1>f, <2>3, StableKept
  <2>5. \A q \in Runs : run'[q].frame = run[q].frame /\ run'[q].status = run[q].status
    BY <2>2 DEF Like, Keeps, Fields
  <2> QED BY <2>1, <2>4, <2>5, QuietMoves
<1>3. CASE ParkNode(e)
  <2>1. /\ UNCHANGED rows /\ eng[e].phase = "node" /\ Moves(e, "run", eng[e].verdict, eng[e].frame)
    BY <1>3, ParkNodeEffect
  <2>2. /\ Keeps(r, {"node", "tries", "age", "frame", "hole"}) /\ LikeApart(r) /\ (run[r].hole => run'[r].hole)
        /\ run'[r].frame \in {run[r].frame, NoFrame, eng[e].frame}
    BY <1>3, NodeParked DEF r
  <2>3. run'[r].status # "absent" /\ Mid(e) /\ RowsApart(r)
    BY <1>f, <2>1, <2>2 DEF Keeps, Fields, Present, Mid, RowsApart
  <2> QED BY <2>1, <2>2, <2>3, MidKin DEF r
<1>4. CASE ParkRun(e)
  <2>1. /\ UNCHANGED rows /\ eng[e].phase = "run" /\ Moves(e, "poll", eng[e].verdict, eng[e].frame)
        /\ Keeps(r, {"status", "frame"}) /\ Apart(r) /\ run'[r].status = "waiting"
        /\ run'[r].frame \in {run[r].frame, NoFrame, eng[e].frame}
    BY <1>4, ParkRunEffect DEF r
  <2>2. LikeApart(r) /\ Mid(e) /\ RowsApart(r) /\ (run[r].hole => run'[r].hole) /\ run'[r].status # "absent"
    BY <1>f, <2>1, ApartIsLike DEF Keeps, Fields, Mid, RowsApart
  <2> QED BY <2>1, <2>2, MidKin DEF r
<1>5. CASE EnqueuePoll(e) \/ arm_node_timeout(e) \/ EnqueueNextPoll(e) \/ schedule_node_retry(e)
  <2>1. /\ UNCHANGED run /\ Mid(e) /\ RowsApart(r)
        /\ \E p \in {"arm", "hook", "done"} : Moves(e, p, eng[e].verdict, eng[e].frame)
    BY <1>5, EnqueuePollEffect, ArmEffect, RepollEffect, BackoffEffect DEF r, Mid
  <2>2. PICK p \in {"arm", "hook", "done"} : Moves(e, p, eng[e].verdict, eng[e].frame)
    BY <2>1
  <2>3. PICK S : S = {} /\ Keeps(r, S)
    BY <1>u, <2>1
  <2>4. S \cap {"parent", "index", "linked", "body"} = {}
    BY <2>3
  <2>5. /\ LikeApart(r) /\ (run[r].hole => run'[r].hole) /\ run'[r].status # "absent"
        /\ run'[r].frame \in {run[r].frame, NoFrame, eng[e].frame}
    BY <1>u, <2>1
  <2> QED BY <2>1, <2>2, <2>3, <2>4, <2>5, MidKin DEF r
<1>6. CASE SettleNode(e)
  <2>1. /\ UNCHANGED rows /\ eng[e].phase = "settle" /\ Keeps(r, {"node"}) /\ Apart(r)
        /\ \E p \in {"retry", "finish"} : Moves(e, p, eng[e].verdict, eng[e].frame)
    BY <1>6, SettleNodeEffect DEF r
  <2>2. PICK p \in {"retry", "finish"} : Moves(e, p, eng[e].verdict, eng[e].frame)
    BY <2>1
  <2>3. /\ LikeApart(r) /\ Mid(e) /\ RowsApart(r) /\ (run[r].hole => run'[r].hole) /\ run'[r].status # "absent"
        /\ run'[r].frame \in {run[r].frame, NoFrame, eng[e].frame}
    BY <1>f, <2>1, ApartIsLike DEF Keeps, Fields, Mid, RowsApart, Present
  <2> QED BY <2>1, <2>2, <2>3, MidKin DEF r
<1>7. CASE FinishRun(e)
  <2>1. /\ eng[e].phase = "finish" /\ eng[e].verdict \in Terminal
        /\ Keeps(r, {"status", "passed"}) /\ Apart(r) /\ run'[r].status = eng[e].verdict
        /\ RowsApart(r) /\ Moves(e, "hook", eng[e].verdict, eng[e].frame)
    BY <1>7, FinishRunEffect DEF r
  <2>2. /\ LikeApart(r) /\ Mid(e) /\ (run[r].hole => run'[r].hole) /\ run'[r].status # "absent"
        /\ run'[r].frame \in {run[r].frame, NoFrame, eng[e].frame}
    BY <1>f, <2>1, ApartIsLike DEF Keeps, Fields, Mid, Terminal
  <2> QED BY <2>1, <2>2, MidKin DEF r
<1>8. CASE RetryRun(e)
  <2>1. /\ UNCHANGED rows /\ eng[e].phase = "retry"
        /\ Keeps(r, {"status"}) /\ Apart(r) /\ run'[r].status = "waiting"
        /\ Moves(e, "backoff", eng[e].verdict, eng[e].frame)
    BY <1>8, RetryRunEffect DEF r
  <2>2. /\ LikeApart(r) /\ Mid(e) /\ RowsApart(r) /\ (run[r].hole => run'[r].hole) /\ run'[r].status # "absent"
        /\ run'[r].frame \in {run[r].frame, NoFrame, eng[e].frame}
    BY <1>f, <2>1, ApartIsLike DEF Keeps, Fields, Mid, RowsApart
  <2> QED BY <2>1, <2>2, MidKin DEF r
<1>9. CASE maybe_wake_subflow_parent(e)
  <2>1. /\ UNCHANGED run /\ Moves(e, "done", eng[e].verdict, eng[e].frame)
        /\ rows' = rows \/ (run[r].linked /\ RowsApart(run[r].parent))
    BY <1>9, HookEffect DEF r
  <2>2. run[r].linked => ~Child(run[r].parent)
    BY <1>f DEF Shape, Kinship
  <2>3. \A c \in Runs : Child(c) => rows'[c] = rows[c]
    BY <2>1, <2>2 DEF RowsApart
  <2>4. KinStable
    BY <2>1, StableSame
  <2> QED BY <2>1, <2>3, <2>4, QuietMoves
<1>10. CASE drive_ready_node(e)
  <2>1. /\ UNCHANGED run /\ RowsApart(r) /\ (rows[r] = NoRows => rows'[r] = NoRows)
        /\ eng'[e] = Idle /\ \A d \in Engines : d # e => eng'[d] = eng[d]
    BY <1>10, DriveEndsEffect DEF r
  <2>2. eng'[e].phase = "idle" /\ eng'[e].frame = NoFrame
    BY <2>1 DEF Idle
  <2>3. KinStable
    BY <2>1, StableSame
  <2>4. Inherits
    BY <2>1, <2>2 DEF Inherits, RunsInherit, DriveInherits
  <2>5. RowsRest
    BY <2>1, <2>2 DEF RowsRest, RowsApart
  <2> QED BY <2>3, <2>4, <2>5
<1> QED BY <1>1, <1>2, <1>3, <1>4, <1>5, <1>6, <1>7, <1>8, <1>9, <1>10 DEF CommonStep

\* A handler that only decides leaves the children alone.
LEMMA DecidesKin ==
    ASSUME NEW e \in Engines, UNCHANGED <<run, rows>>, NEW p, NEW v, p # "step",
           Moves(e, p, v, eng[e].frame)
    PROVE  KinStable /\ Inherits /\ RowsRest
<1>1. KinStable
  BY StableSame
<1>2. /\ \A q \in Runs : run'[q].frame = run[q].frame
      /\ \A c \in Runs : run'[c].status = run[c].status /\ rows'[c] = rows[c]
  OBVIOUS
<1> QED BY <1>1, <1>2, QuietMoves

\* A drive takes its frame from the record of its run.
LEMMA HarvestKindred ==
    ASSUME TypeOK, Shape, Kindred, OneDrive, NEW e \in Engines, NEW r, r = eng[e].run, r \in Runs,
           UNCHANGED <<def, run, rows>>, NEW v, Moves(e, "fan", v, eng'[e].frame),
           Harvested(eng'[e].frame, run[r].frame)
    PROVE  Kindred'
<1> DEFINE fr == eng'[e].frame
<1>1. \A d \in Engines : d = e
  BY DEF OneDrive
<1>2. eng'[e].run = r /\ eng'[e].phase = "fan"
  BY DEF Moves
<1>3. KinStable /\ RunsInherit
  BY StableSame DEF RunsInherit
<1>4. Families'
  <2> SUFFICES ASSUME def.kind \in Parents
               PROVE  /\ \A q \in Runs : Family(q, run[q].frame.flight)'
                      /\ \A d \in Engines : Family(eng[d].run, eng[d].frame.flight)'
    BY DEF Families
  <2>1. \A q \in Runs : Family(q, run[q].frame.flight)'
    BY <1>3, RunFamilies DEF Kindred
  <2>2. \A f \in fr.flight : f \in run[r].frame.flight
    BY DEF Harvested
  <2>3. Family(r, run[r].frame.flight)
    BY DEF Kindred, Families
  <2>4. Family(eng[e].run, eng[e].frame.flight)'
    BY <1>2, <2>2, <2>3 DEF Family, Present, IsChild
  <2> QED BY <1>1, <2>1, <2>4
<1>5. Tallies'
  <2> SUFFICES ASSUME def.kind = "map"
               PROVE  (\A q \in Runs : Tally(run[q].frame)') /\ (\A d \in Engines : Tally(eng[d].frame)')
    BY DEF Tallies
  <2>1. \A q \in Runs : Tally(run[q].frame)
    BY DEF Kindred, Tallies
  <2>2. \A q \in Runs : Tally(run[q].frame)'
    BY <2>1 DEF Tally
  <2>3. Tally(run[r].frame)
    BY <2>1
  <2>4. fr.next = run[r].frame.next
    BY DEF Harvested
  <2>5. ASSUME NEW i \in Nat
        PROVE  (i \in fr.done \/ \E f \in fr.flight : f[1] = i)
                <=> (i \in run[r].frame.done \/ \E f \in run[r].frame.flight : f[1] = i)
    BY DEF Harvested
  <2>6. Tally(eng[e].frame)'
    BY <2>3, <2>4, <2>5 DEF Tally
  <2> QED BY <1>1, <2>2, <2>6
<1>6. RowsRest
  BY <1>1, <1>2 DEF RowsRest
<1>7. (def.kind \in Parents => ChildrenRest)'
  BY <1>3, <1>6, RestKept DEF Kindred
<1>8. Reuse'
  BY DEF Kindred, Reuse, Present, IsChild
<1> QED BY <1>4, <1>5, <1>7, <1>8 DEF Kindred

\* A child is started and put on the frame of the drive.
LEMMA SpawnKindred ==
    ASSUME TypeOK, Shape, Kindred, OneDrive, UNCHANGED def, NEW e \in Engines, NEW r, r = eng[e].run,
           NEW c, NEW i \in Nat, Spawns(r, c, i), NEW p, p # "step", NEW v, Moves(e, p, v, eng'[e].frame),
           def.kind \in Parents,
           \A f \in eng'[e].frame.flight : f \in eng[e].frame.flight \/ f = <<i, c>>,
           def.kind = "map" => Tally(eng'[e].frame)
    PROVE  Kindred'
<1>1. \A d \in Engines : d = e
  BY DEF OneDrive
<1>2. eng'[e].run = r /\ eng'[e].phase # "step"
  BY DEF Moves
<1>3. /\ c \in Runs /\ ~Present(c) /\ r \in Runs /\ Present(r) /\ c # r
      /\ run'[c].status = "queued" /\ run'[c].parent = r /\ run'[c].linked
      /\ run'[c].body = "todo" /\ run'[c].index = i /\ run'[c].frame = run[c].frame
      /\ \A q \in Runs : q # c => run'[q] = run[q] /\ rows'[q] = rows[q]
  BY Facts DEF Spawns, Apart, RowsApart, Keeps, Fields
<1>4. run[c].frame = NoFrame /\ NoFrame.flight = {}
  BY <1>3, FlightType DEF Shape, Presence, Blank
<1>5. ASSUME NEW q \in Runs, q # c, NEW fl, fl \subseteq Nat \X Runs, Family(q, fl)
      PROVE  \A f \in fl : /\ f[2] # q /\ Present(f[2])' /\ IsChild(f[2])'
                           /\ (~run'[q].hole \/ def.kind = "map" => run'[f[2]].parent = q)
                           /\ (~run'[q].hole => run'[f[2]].linked)
                           /\ (def.kind = "map" => run'[f[2]].index = f[1])
  <2> TAKE f \in fl
  <2>1. f[2] \in Runs
    BY <1>5
  <2>2. /\ f[2] # q /\ Present(f[2]) /\ IsChild(f[2])
        /\ (~run[q].hole \/ def.kind = "map" => run[f[2]].parent = q)
        /\ (~run[q].hole => run[f[2]].linked)
        /\ (def.kind = "map" => run[f[2]].index = f[1])
    BY <1>5 DEF Family
  <2>3. f[2] # c
    BY <1>3, <2>2
  <2> QED BY <1>3, <1>5, <2>1, <2>2, <2>3 DEF Present, IsChild
<1>6. Families'
  <2>1. ASSUME NEW q \in Runs PROVE Family(q, run[q].frame.flight)'
    <3>1. CASE q = c
      BY <1>3, <1>4, <3>1 DEF Family
    <3>2. CASE q # c
      <4>1. run'[q].frame = run[q].frame /\ run[q].frame.flight \subseteq Nat \X Runs
        BY <1>3, <3>2, FlightType
      <4>2. Family(q, run[q].frame.flight)
        BY DEF Kindred, Families
      <4> QED BY <1>5, <3>2, <4>1, <4>2 DEF Family
    <3> QED BY <3>1, <3>2
  <2>2. Family(eng[e].run, eng[e].frame.flight)'
    <3>1. eng[e].frame.flight \subseteq Nat \X Runs /\ Family(r, eng[e].frame.flight)
      BY FlightType DEF Kindred, Families
    <3>2. \A f \in eng[e].frame.flight :
             /\ f[2] # r /\ Present(f[2])' /\ IsChild(f[2])'
             /\ (~run'[r].hole \/ def.kind = "map" => run'[f[2]].parent = r)
             /\ (~run'[r].hole => run'[f[2]].linked)
             /\ (def.kind = "map" => run'[f[2]].index = f[1])
      BY <1>3, <1>5, <3>1
    <3>3. ASSUME NEW f, f = <<i, c>>
          PROVE  /\ f[2] # r /\ Present(f[2])' /\ IsChild(f[2])'
                 /\ run'[f[2]].parent = r /\ run'[f[2]].linked /\ run'[f[2]].index = f[1]
      BY <1>3, <3>3 DEF Present, IsChild
    <3> QED BY <1>2, <3>2, <3>3 DEF Family
  <2> QED BY <1>1, <2>1, <2>2 DEF Families
<1>7. Tallies'
  <2> SUFFICES ASSUME def.kind = "map"
               PROVE  (\A q \in Runs : Tally(run[q].frame)') /\ (\A d \in Engines : Tally(eng[d].frame)')
    BY DEF Tallies
  <2>1. \A q \in Runs : run'[q].frame = run[q].frame /\ Tally(run[q].frame)
    BY <1>3 DEF Kindred, Tallies
  <2>2. \A q \in Runs : Tally(run[q].frame)'
    BY <2>1 DEF Tally
  <2>3. Tally(eng[e].frame)'
    BY DEF Tally
  <2> QED BY <1>1, <2>2, <2>3
<1>8. ChildrenRest'
  <2> SUFFICES ASSUME NEW q \in Runs, Child(q)', run'[q].status \in Terminal
               PROVE  rows'[q] = NoRows
    BY <1>1, <1>2 DEF ChildrenRest
  <2>1. q # c
    BY <1>3 DEF Terminal
  <2>2. Child(q) /\ run[q].status \in Terminal
    BY <1>3, <2>1 DEF Child, IsChild
  <2> QED BY <1>3, <2>1, <2>2 DEF Kindred, ChildrenRest
<1>9. Reuse'
  BY <1>3 DEF Kindred, Reuse, Present, IsChild
<1> QED BY <1>6, <1>7, <1>8, <1>9 DEF Kindred

\* A run that a subflow node reuses is put on the frame of the drive.
LEMMA ReuseKindred ==
    ASSUME TypeOK, Shape, Kindred, OneDrive, NEW e \in Engines, ReuseRun(e)
    PROVE  Kindred'
<1> DEFINE r == eng[e].run
<1>f. r \in Runs /\ Present(r) /\ (Mid(e) => ~Child(r)) /\ PhaseFits(eng[e].phase)
  BY Facts
<1> HIDE DEF r
<1>1. /\ UNCHANGED <<def, rows>> /\ eng[e].phase = "spawn"
      /\ \E c \in Reusable : Links(e, c)
      /\ Like(r) /\ LikeApart(r) /\ Holed(r)
  BY ReuseRunEffect DEF r
<1>2. PICK c \in Reusable : Links(e, c)
  BY <1>1
<1>3. def.kind = "subflow" /\ ~IsChild(r)
  BY <1>f, <1>1 DEF PhaseFits, Mid, Child
<1>4. c \in Runs /\ Present(c) /\ c # 0 /\ def.body = "reused"
  BY <1>2 DEF Reusable, Active
<1>5. IsChild(c) /\ c # r
  BY <1>3, <1>4 DEF Kindred, Reuse
<1>6. KinStable
  <2>1. run'[r].status # "absent" /\ Keeps(r, {"hole"}) /\ (run[r].hole => run'[r].hole)
    BY <1>f, <1>1 DEF Like, Keeps, Fields, Present
  <2> QED BY <1>f, <1>1, <2>1, StableKept
<1>7. \A q \in Runs : run'[q].frame = run[q].frame /\ run'[q].status = run[q].status
  BY <1>f, <1>1 DEF LikeApart, Like, Keeps, Fields
<1>8. /\ eng'[e].run = r /\ eng'[e].phase = "create" /\ eng'[e].frame.flight = {<<0, c>>}
      /\ \A d \in Engines : d = e
  BY <1>2 DEF Links, Moves, r, OneDrive
<1>9. Families'
  <2>1. \A q \in Runs : Family(q, run[q].frame.flight)'
    BY <1>1, <1>3, <1>6, <1>7, RunFamilies DEF Kindred, RunsInherit, Parents
  <2>2. Present(c)' /\ IsChild(c)' /\ run'[r].hole /\ <<0, c>>[2] = c
    BY <1>1, <1>4, <1>5, <1>6 DEF KinStable, Holed
  <2>3. Family(eng[e].run, eng[e].frame.flight)'
    BY <1>1, <1>3, <1>5, <1>8, <2>2 DEF Family
  <2> QED BY <1>8, <2>1, <2>3 DEF Families
<1>10. Tallies'
  BY <1>1, <1>3 DEF Tallies
<1>11. RowsRest
  BY <1>1, <1>7, <1>8 DEF RowsRest
<1>12. (def.kind \in Parents => ChildrenRest)'
  BY <1>1, <1>6, <1>11, RestKept DEF Kindred
<1>13. Reuse'
  BY <1>1, <1>6 DEF Kindred, Reuse, KinStable
<1> QED BY <1>9, <1>10, <1>12, <1>13 DEF Kindred

\* A map node starts a child for its next item.
LEMMA TallyGrows ==
    ASSUME TypeOK, NEW old \in Frames, Tally(old), old.next < def.items, NEW fr, NEW c,
           fr.next = old.next + 1, fr.done = old.done, fr.flight = old.flight \cup {<<old.next, c>>}
    PROVE  Tally(fr)
<1>1. old.next \in Nat /\ def.items \in Nat
  BY ScenariosAssumption DEF Frames, TypeOK, Scenario
<1>2. ASSUME NEW i \in Nat
      PROVE  (\E f \in fr.flight : f[1] = i) <=> (i = old.next \/ \E f \in old.flight : f[1] = i)
  <2> DEFINE g == <<old.next, c>>
  <2>1. g[1] = old.next /\ \A f : f \in fr.flight <=> f \in old.flight \/ f = g
    OBVIOUS
  <2> HIDE DEF g
  <2> QED BY <2>1
<1>3. ASSUME NEW i \in Nat
      PROVE  i < fr.next <=> (i \in fr.done \/ \E f \in fr.flight : f[1] = i)
  <2>1. i < fr.next <=> (i < old.next \/ i = old.next)
    BY <1>1
  <2>2. i < old.next <=> (i \in old.done \/ \E f \in old.flight : f[1] = i)
    BY DEF Tally
  <2> QED BY <1>2, <2>1, <2>2
<1>4. fr.next <= def.items
  BY <1>1
<1> QED BY <1>3, <1>4 DEF Tally

LEMMA ChildKindred ==
    ASSUME TypeOK, Shape, Kindred, OneDrive, NEW e \in Engines, ChildStep(e)
    PROVE  Kindred'
<1> DEFINE r == eng[e].run
<1>f. /\ r \in Runs /\ Present(r) /\ (Mid(e) => ~Child(r)) /\ PhaseFits(eng[e].phase)
      /\ run[r].parent \in Runs
  BY Facts
<1>o. \A d \in Engines : d = e
  BY DEF OneDrive
<1>u. UNCHANGED def
  BY ChildTypes
<1>d. UNCHANGED <<run, rows>> /\ (\E p, v : p # "step" /\ Moves(e, p, v, eng[e].frame)) => Kindred'
  BY <1>u, DecidesKin, KindredKept
<1> HIDE DEF r
<1>1. CASE StartBody(e)
  <2>1. /\ UNCHANGED <<def, rows>> /\ Goes(e, "hook")
        /\ IsChild(r) /\ run'[r].body = "busy"
        /\ \/ Keeps(r, {"body", "linked", "hole"}) /\ LikeApart(r) /\ Holed(r) /\ ~run'[r].linked
           \/ Keeps(r, {"body"}) /\ Apart(r)
    BY <1>1, StartBodyEffect DEF r
  <2>2. Keeps(r, {"body", "linked", "hole"}) /\ LikeApart(r) /\ (run[r].hole => run'[r].hole)
        /\ (run'[r].linked => run[r].linked) /\ (run[r].linked => run'[r].linked \/ run'[run[r].parent].hole)
    <3>1. CASE Keeps(r, {"body", "linked", "hole"}) /\ LikeApart(r) /\ Holed(r) /\ ~run'[r].linked
      BY <3>1 DEF Holed
    <3>2. CASE Keeps(r, {"body"}) /\ Apart(r)
      <4>1. Keeps(r, {"body", "linked", "hole"}) /\ run'[r].hole = run[r].hole /\ run'[r].linked = run[r].linked
        BY <3>2 DEF Keeps, Fields
      <4> QED BY <1>f, <3>2, <4>1, ApartIsLike
    <3> QED BY <2>1, <3>1, <3>2
  <2>3. KinStable
    BY <1>f, <2>1, <2>2 DEF KinStable, Keeps, LikeApart, Like, Fields, Present, IsChild
  <2>4. \A q \in Runs : run'[q].frame = run[q].frame /\ run'[q].status = run[q].status
    BY <2>2 DEF Keeps, LikeApart, Like, Fields
  <2> QED BY <2>1, <2>3, <2>4, QuietMoves, KindredKept DEF Goes
<1>2. CASE FinishChild(e)
  <2>1. /\ UNCHANGED def /\ Goes(e, "hook")
        /\ Keeps(r, {"status"}) /\ Apart(r) /\ run'[r].status \in Terminal
        /\ RowsApart(r) /\ rows'[r] = NoRows
    BY <1>2, FinishChildEffect DEF r
  <2>2. KinStable
    <3>1. run'[r].status # "absent" /\ run'[r].hole = run[r].hole
      BY <2>1 DEF Terminal, Keeps, Fields
    <3> QED BY <1>f, <2>1, <3>1, StableKept, ApartIsLike
  <2>3. Inherits
    BY <2>1 DEF Inherits, RunsInherit, DriveInherits, Goes, Moves, Keeps, Apart, Fields
  <2>4. RowsRest
    BY <1>o, <2>1 DEF RowsRest, RowsApart, Apart, Goes, Moves
  <2> QED BY <2>1, <2>2, <2>3, <2>4, KindredKept
<1>3. CASE AwaitBody(e)
  BY <1>3, <1>d, AwaitBodyEffect DEF Goes
<1>4. CASE process_map_node(e)
  BY <1>4, <1>d, MapEffect DEF Goes, Settles
<1>5. CASE CreateMap(e)
  <2>1. /\ UNCHANGED <<def, rows>> /\ eng[e].phase = "create"
        /\ Goes(e, "harvest") /\ Keeps(r, {"node", "tries", "age"}) /\ Apart(r)
    BY <1>5, CreateMapEffect DEF r
  <2>2. LikeApart(r) /\ Mid(e) /\ RowsApart(r) /\ (run[r].hole => run'[r].hole) /\ run'[r].status # "absent"
        /\ run'[r].frame \in {run[r].frame, NoFrame, eng[e].frame}
    BY <1>f, <2>1, ApartIsLike DEF Keeps, Fields, Mid, RowsApart, Present
  <2>3. KinStable /\ Inherits /\ RowsRest
    BY <2>1, <2>2, MidKin DEF r, Goes
  <2> QED BY <2>1, <2>3, KindredKept
<1>6. CASE Harvest(e)
  <2>1. /\ UNCHANGED <<def, run, rows>>
        /\ \/ Goes(e, "cancel")
           \/ /\ Moves(e, "fan", eng[e].verdict, eng'[e].frame)
              /\ Harvested(eng'[e].frame, run[r].frame)
    BY <1>6, HarvestEffect DEF r
  <2>2. CASE Goes(e, "cancel")
    BY <1>d, <2>1, <2>2 DEF Goes
  <2>3. CASE Moves(e, "fan", eng[e].verdict, eng'[e].frame) /\ Harvested(eng'[e].frame, run[r].frame)
    BY <1>f, <2>1, <2>3, HarvestKindred DEF r
  <2> QED BY <2>1, <2>2, <2>3
<1>7. CASE cancel_children(e)
  <2>1. /\ UNCHANGED def /\ eng[e].phase = "cancel"
        /\ \/ UNCHANGED <<run, rows>> /\ Settles(e, "failed")
           \/ \E c \in Runs :
              /\ Active(c) /\ UNCHANGED eng /\ Keeps(c, {"status"}) /\ Apart(c)
              /\ run'[c].status = "canceled" /\ RowsApart(c) /\ rows'[c] = NoRows
    BY <1>7, CancelChildrenEffect
  <2>2. CASE UNCHANGED <<run, rows>> /\ Settles(e, "failed")
    BY <1>d, <2>2 DEF Settles
  <2>3. CASE \E c \in Runs :
              /\ Active(c) /\ UNCHANGED eng /\ Keeps(c, {"status"}) /\ Apart(c)
              /\ run'[c].status = "canceled" /\ RowsApart(c) /\ rows'[c] = NoRows
    <3>1. PICK c \in Runs :
              /\ Active(c) /\ UNCHANGED eng /\ Keeps(c, {"status"}) /\ Apart(c)
              /\ run'[c].status = "canceled" /\ RowsApart(c) /\ rows'[c] = NoRows
      BY <2>3
    <3>2. KinStable
      <4>1. Present(c) /\ run'[c].status # "absent" /\ run'[c].hole = run[c].hole
        BY <3>1 DEF Active, Keeps, Fields
      <4> QED BY <3>1, <4>1, StableKept, ApartIsLike
    <3>3. Inherits
      BY <3>1 DEF Inherits, RunsInherit, DriveInherits, Keeps, Apart, Fields
    <3>4. RowsRest
      BY <1>o, <2>1, <3>1 DEF RowsRest, RowsApart, Apart
    <3> QED BY <2>1, <3>2, <3>3, <3>4, KindredKept
  <2> QED BY <2>1, <2>2, <2>3
<1>8. CASE FanOut(e)
  <2>1. /\ UNCHANGED def /\ eng[e].phase = "fan"
        /\ \/ \E c \in Runs :
                 /\ Spawns(r, c, eng[e].frame.next) /\ eng[e].frame.next < def.items
                 /\ Moves(e, "fan", eng[e].verdict, eng'[e].frame)
                 /\ eng'[e].frame.next = eng[e].frame.next + 1
                 /\ eng'[e].frame.done = eng[e].frame.done
                 /\ eng'[e].frame.flight = eng[e].frame.flight \cup {<<eng[e].frame.next, c>>}
           \/ UNCHANGED <<run, rows>> /\ (Settles(e, "succeeded") \/ Goes(e, "node"))
    BY <1>8, FanOutEffect DEF r
  <2>2. CASE UNCHANGED <<run, rows>> /\ (Settles(e, "succeeded") \/ Goes(e, "node"))
    BY <1>d, <2>2 DEF Settles, Goes
  <2>3. CASE \E c \in Runs :
                 /\ Spawns(r, c, eng[e].frame.next) /\ eng[e].frame.next < def.items
                 /\ Moves(e, "fan", eng[e].verdict, eng'[e].frame)
                 /\ eng'[e].frame.next = eng[e].frame.next + 1
                 /\ eng'[e].frame.done = eng[e].frame.done
                 /\ eng'[e].frame.flight = eng[e].frame.flight \cup {<<eng[e].frame.next, c>>}
    <3>1. PICK c \in Runs :
                 /\ Spawns(r, c, eng[e].frame.next) /\ eng[e].frame.next < def.items
                 /\ Moves(e, "fan", eng[e].verdict, eng'[e].frame)
                 /\ eng'[e].frame.next = eng[e].frame.next + 1
                 /\ eng'[e].frame.done = eng[e].frame.done
                 /\ eng'[e].frame.flight = eng[e].frame.flight \cup {<<eng[e].frame.next, c>>}
      BY <2>3
    <3>2. PICK i \in Nat : i = eng[e].frame.next
      BY FlightType DEF Frames
    <3>3. def.kind = "map"
      BY <1>f, <2>1 DEF PhaseFits
    <3>4. Tally(eng'[e].frame)
      BY <3>1, <3>3, TallyGrows, FlightType DEF Kindred, Tallies
    <3>5. \A f \in eng'[e].frame.flight : f \in eng[e].frame.flight \/ f = <<i, c>>
      BY <3>1, <3>2
    <3>6. Spawns(r, c, i)
      BY <3>1, <3>2
    <3>7. def.kind \in Parents
      BY <3>3 DEF Parents
    <3> QED BY <2>1, <3>1, <3>4, <3>5, <3>6, <3>7, SpawnKindred DEF r
  <2> QED BY <2>1, <2>2, <2>3
<1>9. CASE process_subflow_node(e)
  BY <1>9, <1>d, SubflowEffect DEF Goes, Settles
<1>10. CASE ReuseRun(e)
  BY <1>10, ReuseKindred
<1>11. CASE create_subflow_run(e)
  <2>1. /\ UNCHANGED def /\ eng[e].phase = "spawn"
        /\ \E c \in Runs : Links(e, c) /\ Spawns(r, c, 0)
    BY <1>11, CreateSubflowRunEffect DEF r
  <2>2. PICK c \in Runs : Links(e, c) /\ Spawns(r, c, 0)
    BY <2>1
  <2>3. Moves(e, "create", eng[e].verdict, eng'[e].frame) /\ eng'[e].frame.flight = {<<0, c>>}
    BY <2>2 DEF Links
  <2>4. def.kind = "subflow" /\ def.kind \in Parents
    BY <1>f, <2>1 DEF PhaseFits, Parents
  <2>5. PICK i \in Nat : i = 0
    OBVIOUS
  <2>6. /\ \A f \in eng'[e].frame.flight : f \in eng[e].frame.flight \/ f = <<i, c>>
        /\ def.kind = "map" => Tally(eng'[e].frame)
        /\ Spawns(r, c, i)
    BY <2>2, <2>3, <2>4, <2>5
  <2> QED BY <2>1, <2>3, <2>4, <2>6, SpawnKindred DEF r
<1>12. CASE CreateSubflow(e)
  <2>1. /\ UNCHANGED <<def, rows>> /\ eng[e].phase = "create"
        /\ Keeps(r, {"node", "tries", "age", "frame"}) /\ Apart(r) /\ run'[r].frame = NoFrame
        /\ Goes(e, "link") \/ Goes(e, "node")
    BY <1>12, CreateSubflowEffect DEF r
  <2>2. LikeApart(r) /\ Mid(e) /\ RowsApart(r) /\ (run[r].hole => run'[r].hole) /\ run'[r].status # "absent"
        /\ run'[r].frame \in {run[r].frame, NoFrame, eng[e].frame}
    BY <1>f, <2>1, ApartIsLike DEF Keeps, Fields, Mid, RowsApart, Present
  <2>3. PICK p \in {"link", "node"} : Moves(e, p, eng[e].verdict, eng[e].frame)
    BY <2>1 DEF Goes
  <2>4. KinStable /\ Inherits /\ RowsRest
    BY <2>1, <2>2, <2>3, MidKin DEF r
  <2> QED BY <2>1, <2>4, KindredKept
<1>13. CASE LinkSubflow(e)
  <2>1. /\ UNCHANGED <<def, rows>> /\ eng[e].phase = "link" /\ Settles(e, "succeeded")
        /\ Keeps(r, {"node", "frame"}) /\ Apart(r) /\ run'[r].frame = eng[e].frame
    BY <1>13, LinkSubflowEffect DEF r
  <2>2. LikeApart(r) /\ Mid(e) /\ RowsApart(r) /\ (run[r].hole => run'[r].hole) /\ run'[r].status # "absent"
        /\ run'[r].frame \in {run[r].frame, NoFrame, eng[e].frame}
    BY <1>f, <2>1, ApartIsLike DEF Keeps, Fields, Mid, RowsApart, Present
  <2>3. KinStable /\ Inherits /\ RowsRest
    BY <2>1, <2>2, MidKin DEF r, Settles
  <2> QED BY <2>1, <2>3, KindredKept
<1> QED BY <1>1, <1>2, <1>3, <1>4, <1>5, <1>6, <1>7, <1>8, <1>9, <1>10, <1>11, <1>12, <1>13 DEF ChildStep

LEMMA OtherKindred ==
    ASSUME TypeOK, UNCHANGED def, def.kind \notin Parents
    PROVE  Kindred /\ Kindred'
<1>1. def.body # "reused" /\ def.kind # "map"
  BY ScenariosAssumption DEF TypeOK, Scenario, Bodies, Parents
<1> QED BY <1>1 DEF Kindred, Families, Tallies, Reuse

LEMMA OutsideKindred ==
    ASSUME TypeOK, Shape, Kindred, OneDrive,
           WebService \/ (\E c \in Runs : BodyEnds(c)) \/ Operator \/ Faulty \/ Tick
    PROVE  Kindred'
<1>u. UNCHANGED def
  BY OutsideTypes
<1>1. CASE WebService
  <2>1. CASE Asks
    BY <2>1, <1>u, AskEffect, OtherKindred DEF Answered, Parents
  <2>2. CASE AnswerNode \/ AnswerRun \/ AnswerRow
    <3>1. api.phase # "idle"
      BY <2>2 DEF AnswerNode, AnswerRun, AnswerRow
    <3>2. def.kind \notin Parents
      BY <3>1 DEF Shape, Kinship, Answered, Parents
    <3> QED BY <1>u, <3>2, OtherKindred
  <2>3. CASE resolve_gate \/ AwaitedEnd
    BY <2>3, <1>u, GateEffect, OtherKindred DEF Parents
  <2> QED BY <1>1, <2>1, <2>2, <2>3 DEF WebService, Asks
<1>2. CASE \E c \in Runs : BodyEnds(c)
  <2>1. PICK c \in Runs : BodyEnds(c)
    BY <1>2
  <2>2. /\ UNCHANGED eng /\ Active(c) /\ IsChild(c)
        /\ Keeps(c, {"body"}) /\ Apart(c) /\ run'[c].body # "none" /\ RowsApart(c)
    BY <2>1, BodyEndsEffect
  <2>3. KinStable
    BY <2>2 DEF KinStable, Keeps, Apart, Fields, Present, IsChild
  <2>4. \A q \in Runs : run'[q].frame = run[q].frame /\ run'[q].status = run[q].status
    BY <2>2 DEF Keeps, Apart, Fields
  <2>5. Inherits
    BY <2>2, <2>4 DEF Inherits, RunsInherit, DriveInherits
  <2>6. RowsRest
    BY <2>2, <2>4 DEF RowsRest, RowsApart, Active
  <2> QED BY <1>u, <2>3, <2>5, <2>6, KindredKept
<1>3. CASE Operator
  <2>1. PICK r \in Runs : cancel_workflow_run(r) \/ pause_workflow_run(r) \/ resume_workflow_run(r)
    BY <1>3 DEF Operator
  <2>2. /\ UNCHANGED eng /\ Active(r) /\ RowsApart(r) /\ Keeps(r, {"status", "hole"}) /\ LikeApart(r)
        /\ run'[r].status # "absent" /\ (run[r].hole => run'[r].hole)
        /\ \/ rows'[r] = NoRows /\ Holed(r)
           \/ rows'[r] = rows[r] /\ run'[r].status \notin Terminal
    <3>1. CASE cancel_workflow_run(r)
      BY <3>1, CancelEffect DEF Holed
    <3>2. CASE pause_workflow_run(r) \/ resume_workflow_run(r)
      <4>1. /\ UNCHANGED <<eng, rows>> /\ Active(r) /\ Keeps(r, {"status"}) /\ Apart(r)
            /\ run'[r].status \in {"paused", "running"}
        BY <3>2, PauseEffect
      <4>2. Keeps(r, {"status", "hole"}) /\ run'[r].hole = run[r].hole /\ run'[r].status \notin Terminal
        BY <4>1 DEF Keeps, Fields, Terminal
      <4> QED BY <4>1, <4>2, ApartIsLike DEF RowsApart
    <3> QED BY <2>1, <3>1, <3>2
  <2>3. KinStable
    BY <2>2, StableKept DEF Active
  <2>4. \A q \in Runs : run'[q].frame = run[q].frame /\ (q # r => run'[q].status = run[q].status)
    BY <2>2 DEF Keeps, LikeApart, Like, Fields
  <2>5. Inherits
    BY <2>2, <2>4 DEF Inherits, RunsInherit, DriveInherits
  <2>6. RowsRest
    BY <2>2, <2>4 DEF RowsRest, RowsApart, Active, Holed
  <2> QED BY <1>u, <2>3, <2>5, <2>6, KindredKept
<1>4. CASE Faulty
  <2>1. PICK e \in Engines : EngineCrash(e) \/ fail_driven_ready_node(e)
    BY <1>4 DEF Faulty
  <2> DEFINE r == eng[e].run
  <2>2. r \in Runs /\ Present(r)
    BY Facts
  <2> HIDE DEF r
  <2>3. /\ eng'[e] = Idle /\ \A d \in Engines : d # e => eng'[d] = eng[d]
        /\ RowsApart(r) /\ (rows[r] = NoRows => rows'[r] = NoRows)
        /\ \/ run' = run
           \/ Like(r) /\ LikeApart(r)
           \/ Keeps(r, {"status", "hole"}) /\ run'[r].status = "failed" /\ LikeApart(r) /\ Holed(r) /\ rows'[r] = NoRows
    <3>1. CASE EngineCrash(e)
      BY <3>1, CrashEffect DEF r
    <3>2. CASE fail_driven_ready_node(e)
      BY <3>2, FailEffect DEF r
    <3> QED BY <2>1, <3>1, <3>2
  <2>4. /\ Keeps(r, {"status", "hole"}) /\ run'[r].status # "absent" /\ LikeApart(r)
        /\ (run[r].hole => run'[r].hole)
        /\ run'[r].status = run[r].status \/ (rows'[r] = NoRows /\ Holed(r))
    <3>1. CASE run' = run
      BY <2>2, <3>1 DEF Keeps, LikeApart, Like, Present
    <3>2. CASE Like(r) /\ LikeApart(r)
      BY <2>2, <3>2 DEF Keeps, Like, Fields, Present
    <3>3. CASE Keeps(r, {"status", "hole"}) /\ run'[r].status = "failed" /\ LikeApart(r) /\ Holed(r) /\ rows'[r] = NoRows
      BY <3>3 DEF Holed
    <3> QED BY <2>3, <3>1, <3>2, <3>3
  <2>5. KinStable
    BY <2>2, <2>4, StableKept
  <2>6. \A q \in Runs : run'[q].frame = run[q].frame /\ (q # r => run'[q].status = run[q].status)
    BY <2>4 DEF Keeps, LikeApart, Like, Fields
  <2>7. eng'[e].phase = "idle" /\ eng'[e].frame = NoFrame
    BY <2>3 DEF Idle
  <2>8. Inherits
    BY <2>3, <2>6, <2>7 DEF Inherits, RunsInherit, DriveInherits
  <2>9. RowsRest
    BY <2>3, <2>4, <2>6, <2>7 DEF RowsRest, RowsApart, Holed
  <2> QED BY <1>u, <2>5, <2>8, <2>9, KindredKept
<1>5. CASE Tick
  <2>1. /\ UNCHANGED eng
        /\ \A r \in Runs : Present(r) => Keeps(r, {"age", "since"})
        /\ \A r \in Runs : ~Present(r) => run'[r] = run[r]
        /\ \A r \in Runs : rows[r] = NoRows => rows'[r] = NoRows
    BY <1>5, TickEffect
  <2>2. KinStable
    BY <2>1 DEF KinStable, Keeps, Fields, Present, IsChild
  <2>3. \A q \in Runs : run'[q].frame = run[q].frame /\ run'[q].status = run[q].status
    BY <2>1 DEF Keeps, Fields
  <2>4. Inherits
    BY <2>1, <2>3 DEF Inherits, RunsInherit, DriveInherits
  <2>5. RowsRest
    BY <2>1, <2>3 DEF RowsRest
  <2> QED BY <1>u, <2>2, <2>4, <2>5, KindredKept
<1> QED BY <1>1, <1>2, <1>3, <1>4, <1>5

LEMMA NextKindred ==
    ASSUME TypeOK, Shape, Kindred, OneDrive, [Next]_vars
    PROVE  Kindred'
<1>u. UNCHANGED def
  BY NextTypes
<1>1. CASE \E e \in Engines : EngineStep(e)
  <2>1. PICK e \in Engines : EngineStep(e)
    BY <1>1
  <2>2. CASE CommonStep(e)
    BY <1>u, <2>2, CommonKin, KindredKept
  <2>3. CASE WaitingStep(e)
    BY <1>u, <2>3, WaitingShape, OtherKindred
  <2>4. CASE SharedStep(e)
    BY <1>u, <2>4, SharedShape, OtherKindred DEF Parents
  <2>5. CASE ChildStep(e)
    BY <2>5, ChildKindred
  <2> QED BY <2>1, <2>2, <2>3, <2>4, <2>5 DEF EngineStep
<1>2. CASE WebService \/ (\E c \in Runs : BodyEnds(c)) \/ Operator \/ Faulty \/ Tick
  BY <1>2, OutsideKindred
<1>3. CASE UNCHANGED vars
  <2>1. UNCHANGED <<run, rows, eng>>
    BY <1>3 DEF vars
  <2>2. KinStable /\ Inherits /\ RowsRest
    BY <2>1, StableSame DEF Inherits, RunsInherit, DriveInherits, RowsRest
  <2> QED BY <1>u, <2>2, KindredKept
<1> QED BY <1>1, <1>2, <1>3 DEF Next

LEMMA InitKindred == Init => Kindred
<1> SUFFICES ASSUME Init PROVE Kindred
  OBVIOUS
<1>t. TypeOK
  BY InitTypes
<1>i. /\ def \in Scenario /\ 0 \in Started(def) /\ 0 \in Runs
      /\ \A r \in Runs : run[r] = NewRun(def, r)
      /\ \A r \in Runs : run[r].status \in {"absent", "queued", "running"}
      /\ \A e \in Engines : eng[e] = Idle
  BY InitFacts
<1>n. ASSUME NEW r \in Runs
      PROVE  /\ run[r].frame = NoFrame
             /\ run[r].status = IF r \in Started(def) THEN "queued"
                               ELSE IF def.body = "reused" /\ r = 1 THEN "running" ELSE "absent"
             /\ run[r].body = IF def.body = "reused" /\ r = 1 THEN "busy" ELSE "none"
  <2>1. run[r] = NewRun(def, r)
    BY <1>i
  <2> QED BY <2>1 DEF NewRun
<1>1. /\ \A r \in Runs : run[r].frame = NoFrame
      /\ \A e \in Engines : eng[e].frame = NoFrame
  BY <1>i, <1>n DEF Idle
<1>2. NoFrame.flight = {} /\ Tally(NoFrame)
  BY <1>t, FlightType, TallyEmpty
<1>3. Families
  BY <1>1, <1>2 DEF Families, Family
<1>4. Tallies
  BY <1>1, <1>2 DEF Tallies
<1>5. ChildrenRest
  BY <1>i DEF ChildrenRest, Terminal
<1>6. Reuse
  <2> SUFFICES ASSUME def.body = "reused", NEW c \in Runs, Present(c), c # 0 PROVE IsChild(c)
    BY DEF Reuse
  <2>1. def.parties = 1
    BY <1>i DEF Scenario, Bodies
  <2>2. Started(def) = {0}
    BY <2>1 DEF Started
  <2>3. c = 1
    BY <1>n, <2>2 DEF Present
  <2> QED BY <1>n, <2>3 DEF IsChild
<1> QED BY <1>3, <1>4, <1>5, <1>6 DEF Kindred

-------------------------------------------------------------------------------
(***************************************************************************)
(* What becomes of runs and drives in the steps that every kind shares.    *)
(***************************************************************************)

LEMMA EndsApart ==
    ASSUME NEW r \in Runs, LikeApart(r),
           \/ ~Child(r)
           \/ run'[r].status = run[r].status
           \/ run[r].status \notin Terminal
           \/ run'[r].status = "failed" /\ Driven(r)
    PROVE  EndsHeld
  BY DEF EndsHeld, LikeApart, Like, Keeps, Fields

LEMMA EndsSame ==
    ASSUME \A q \in Runs : run'[q].status = run[q].status
    PROVE  EndsHeld
  BY DEF EndsHeld

\* What holds of the run of the drive holds of them all.
LEMMA FateMoves ==
    ASSUME OneDrive, NEW e \in Engines, NEW r \in Runs, r = eng[e].run,
           NEW p, NEW v, NEW fr, Moves(e, p, v, fr),
           NEW S, Keeps(r, S), S \cap {"answered"} = {}, LikeApart(r),
           def.kind # "map" => run'[r].age = run[r].age,
           run[r].hole => run'[r].hole, run[r].passed => run'[r].passed,
           run'[r].status = "succeeded" => run[r].status = "succeeded" \/ (Passing(e) /\ run'[r].passed),
           p \in {"settle", "finish"} /\ v = "succeeded" => Passing(e),
           NodeFate(e, r), FrameFate(e, r)
    PROVE  \A q \in Runs : Fate(e, q)
<1> TAKE q \in Runs
<1>o. \A d \in Engines : d = e
  BY DEF OneDrive
<1>e. eng'[e].run = r /\ eng'[e].phase = p /\ eng'[e].verdict = v
  BY DEF Moves
<1>1. CASE q = r
  <2>1. run'[r].answered = run[r].answered
    BY DEF Keeps, Fields
  <2>2. Success(r)' => Success(r)
    BY <1>o, <1>e DEF Success, Passing
  <2>3. RunFate(e, r)
    BY <2>1, <2>2 DEF RunFate
  <2> QED BY <1>1, <2>3 DEF Fate
<1>2. CASE q # r
  <2>1. /\ run'[q].node = run[q].node /\ run'[q].frame = run[q].frame
        /\ run'[q].answered = run[q].answered /\ run'[q].age = run[q].age /\ run'[q].passed = run[q].passed
        /\ run'[q].status = run[q].status /\ (run[q].hole => run'[q].hole)
    BY <1>2 DEF LikeApart, Like, Keeps, Fields
  <2>2. Success(q)' => Success(q)
    BY <1>o, <1>e, <1>2, <2>1 DEF Success
  <2>3. RunFate(e, q)
    BY <2>1, <2>2 DEF RunFate
  <2>4. NodeFate(e, q) /\ FrameFate(e, q)
    BY <2>1 DEF NodeFate, FrameFate
  <2> QED BY <2>3, <2>4 DEF Fate
<1> QED BY <1>1, <1>2

\* Nothing is written, and the drive settles nothing.
LEMMA FateQuiet ==
    ASSUME OneDrive, NEW e \in Engines, \A q \in Runs : Like(q),
           eng'[e].phase \in {"settle", "finish"} /\ eng'[e].verdict = "succeeded"
              => Passing(e) /\ eng'[e].run = eng[e].run
    PROVE  (\A q \in Runs : Fate(e, q)) /\ EndsHeld
<1>o. \A d \in Engines : d = e
  BY DEF OneDrive
<1>1. ASSUME NEW q \in Runs PROVE Fate(e, q)
  <2>1. /\ run'[q].node = run[q].node /\ run'[q].frame = run[q].frame
        /\ run'[q].answered = run[q].answered /\ run'[q].age = run[q].age /\ run'[q].passed = run[q].passed
        /\ run'[q].status = run[q].status /\ (run[q].hole => run'[q].hole)
    BY DEF Like, Keeps, Fields
  <2>2. Success(q)' => Success(q)
    BY <1>o, <2>1 DEF Success, Passing
  <2>3. RunFate(e, q)
    BY <2>1, <2>2 DEF RunFate
  <2>4. NodeFate(e, q) /\ FrameFate(e, q)
    BY <2>1 DEF NodeFate, FrameFate
  <2> QED BY <2>3, <2>4 DEF Fate
<1>2. EndsHeld
  <2>1. \A q \in Runs : run'[q].status = run[q].status
    BY DEF Like, Keeps, Fields
  <2> QED BY <2>1, EndsSame
<1> QED BY <1>1, <1>2

LEMMA AllLike ==
    ASSUME UNCHANGED run
    PROVE  \A q \in Runs : Like(q)
  BY DEF Like, Keeps

LEMMA CommonFate ==
    ASSUME TypeOK, Shape, OneDrive, NEW e \in Engines, CommonStep(e)
    PROVE  EndsHeld /\ DriveFate(e) /\ \A q \in Runs : Fate(e, q)
<1> DEFINE r == eng[e].run
<1>f. r \in Runs /\ Present(r) /\ (Mid(e) => ~Child(r))
  BY Facts
<1>o. \A d \in Engines : d = e
  BY DEF OneDrive
<1> HIDE DEF r
<1>1. CASE \E q \in Runs : process_ready_node(e, q)
  <2>1. PICK q \in Runs : process_ready_node(e, q)
    BY <1>1
  <2>2. /\ eng[e].phase = "idle" /\ eng'[e].phase = "step" /\ eng'[e].run = q /\ eng'[e].frame = NoFrame
        /\ Keeps(q, {"status"}) /\ Apart(q)
        /\ run'[q].status = IF run[q].status = "queued" THEN "running" ELSE run[q].status
    BY <2>1, ClaimEffect
  <2>3. EndsHeld
    BY <2>2, EndsApart, ApartIsLike DEF Terminal
  <2>4. DriveFate(e)
    BY <2>2 DEF DriveFate, Mid, Passing
  <2>5. ASSUME NEW x \in Runs PROVE Fate(e, x)
    <3>1. /\ run'[x].node = run[x].node /\ run'[x].frame = run[x].frame
          /\ run'[x].answered = run[x].answered /\ run'[x].age = run[x].age /\ run'[x].passed = run[x].passed
          /\ run'[x].hole = run[x].hole
      BY <2>2 DEF Apart, Keeps, Fields
    <3>2. run'[x].status = "succeeded" => run[x].status = "succeeded"
      BY <2>2 DEF Apart
    <3>3. Success(x)' => Success(x)
      BY <1>o, <2>2, <3>2 DEF Success, Passing
    <3>4. RunFate(e, x)
      BY <3>1, <3>2, <3>3 DEF RunFate
    <3> QED BY <3>1, <3>4 DEF Fate, NodeFate, FrameFate
  <2> QED BY <2>3, <2>4, <2>5
<1>2. CASE StepStopped(e)
  <2>1. /\ eng[e].phase = "step" /\ Moves(e, "hook", eng[e].verdict, eng[e].frame)
        /\ (Like(r) /\ LikeApart(r)) \/ run' = run
    BY <1>2, StepStoppedEffect DEF r
  <2>2. \A q \in Runs : Like(q)
    BY <2>1, AllLike, <1>f DEF LikeApart
  <2>3. eng'[e].phase = "hook" /\ eng'[e].run = eng[e].run /\ eng'[e].frame = eng[e].frame
    BY <2>1 DEF Moves
  <2>4. DriveFate(e)
    BY <2>1, <2>3 DEF DriveFate, Mid, Passing
  <2> QED BY <2>2, <2>3, <2>4, FateQuiet
<1>3. CASE ParkNode(e)
  <2>1. /\ eng[e].phase = "node" /\ Moves(e, "run", eng[e].verdict, eng[e].frame)
    BY <1>3, ParkNodeEffect
  <2>2. /\ Keeps(r, {"node", "tries", "age", "frame", "hole"}) /\ LikeApart(r) /\ (run[r].hole => run'[r].hole)
        /\ run'[r].node = "parked" /\ run'[r].age = (IF def.kind = "map" THEN 0 ELSE run[r].age)
        /\ run'[r].frame = IF def.kind = "subflow" THEN eng[e].frame ELSE run[r].frame
    BY <1>3, NodeParked DEF r
  <2>3. run'[r].passed = run[r].passed /\ run'[r].status = run[r].status
    BY <2>2 DEF Keeps, Fields
  <2>4. NodeFate(e, r) /\ FrameFate(e, r) /\ Mid(e)
    BY <2>1, <2>2 DEF NodeFate, FrameFate, Mid, r
  <2>5. EndsHeld
    BY <1>f, <2>2, <2>3, EndsApart
  <2>6. eng'[e].phase = "run" /\ eng'[e].run = eng[e].run /\ eng'[e].frame = eng[e].frame
    BY <2>1 DEF Moves
  <2>7. DriveFate(e)
    BY <2>1, <2>2, <2>3, <2>4, <2>6 DEF DriveFate, Passing, r
  <2>8. \A q \in Runs : Fate(e, q)
    BY <1>f, <2>1, <2>2, <2>3, <2>4, FateMoves DEF r
  <2> QED BY <2>5, <2>7, <2>8
<1>4. CASE ParkRun(e)
  <2>1. /\ eng[e].phase = "run" /\ Moves(e, "poll", eng[e].verdict, eng[e].frame)
        /\ Keeps(r, {"status", "frame"}) /\ Apart(r) /\ run'[r].status = "waiting"
        /\ run'[r].frame = IF def.kind = "map" THEN eng[e].frame ELSE run[r].frame
    BY <1>4, ParkRunEffect DEF r
  <2>2. /\ run'[r].passed = run[r].passed /\ run'[r].age = run[r].age /\ run'[r].hole = run[r].hole
        /\ run'[r].node = run[r].node /\ LikeApart(r)
    BY <1>f, <2>1, ApartIsLike DEF Keeps, Fields
  <2>3. NodeFate(e, r) /\ FrameFate(e, r) /\ Mid(e)
    BY <2>1, <2>2 DEF NodeFate, FrameFate, Mid, r
  <2>4. EndsHeld
    BY <1>f, <2>2, <2>3, EndsApart
  <2>5. eng'[e].phase = "poll" /\ eng'[e].run = eng[e].run /\ eng'[e].frame = eng[e].frame
    BY <2>1 DEF Moves
  <2>6. DriveFate(e)
    BY <2>1, <2>2, <2>3, <2>5 DEF DriveFate, Passing, r
  <2>k. PICK S : S = {"status", "frame"} /\ Keeps(r, S) /\ S \cap {"answered"} = {}
    BY <2>1
  <2>h. /\ (run[r].hole => run'[r].hole) /\ (run[r].passed => run'[r].passed)
        /\ (def.kind # "map" => run'[r].age = run[r].age)
        /\ (run'[r].status = "succeeded" => run[r].status = "succeeded" \/ (Passing(e) /\ run'[r].passed))
        /\ LikeApart(r)
    BY <2>1, <2>2, <2>3
  <2>7. \A q \in Runs : Fate(e, q)
    BY <1>f, <2>1, <2>3, <2>h, <2>k, FateMoves DEF r
  <2> QED BY <2>4, <2>6, <2>7
<1>5. CASE EnqueuePoll(e) \/ arm_node_timeout(e) \/ EnqueueNextPoll(e) \/ schedule_node_retry(e)
           \/ maybe_wake_subflow_parent(e)
  <2>1. /\ UNCHANGED run /\ eng[e].phase \in {"poll", "arm", "repoll", "backoff", "hook"}
        /\ \E p \in {"arm", "hook", "done"} : Moves(e, p, eng[e].verdict, eng[e].frame)
        /\ eng[e].phase = "hook" => Moves(e, "done", eng[e].verdict, eng[e].frame)
    BY <1>5, EnqueuePollEffect, ArmEffect, RepollEffect, BackoffEffect, HookEffect
  <2>2. /\ eng'[e].phase \in {"arm", "hook", "done"} /\ eng'[e].run = eng[e].run /\ eng'[e].frame = eng[e].frame
        /\ eng[e].phase = "hook" => eng'[e].phase = "done"
    BY <2>1 DEF Moves
  <2>3. DriveFate(e)
    BY <2>1, <2>2 DEF DriveFate, Passing, Mid
  <2> QED BY <2>1, <2>2, <2>3, AllLike, FateQuiet
<1>6. CASE SettleNode(e)
  <2>1. /\ eng[e].phase = "settle" /\ Keeps(r, {"node"}) /\ Apart(r)
        /\ run'[r].node \in {"queued", eng[e].verdict}
        /\ \/ Moves(e, "retry", eng[e].verdict, eng[e].frame) /\ eng[e].verdict # "succeeded"
           \/ Moves(e, "finish", eng[e].verdict, eng[e].frame)
    BY <1>6, SettleNodeEffect DEF r
  <2>2. PICK p \in {"retry", "finish"} : Moves(e, p, eng[e].verdict, eng[e].frame)
                                         /\ (p = "retry" => eng[e].verdict # "succeeded")
    BY <2>1
  <2>3. /\ run'[r].passed = run[r].passed /\ run'[r].age = run[r].age /\ run'[r].hole = run[r].hole
        /\ run'[r].status = run[r].status /\ run'[r].frame = run[r].frame /\ LikeApart(r)
    BY <1>f, <2>1, ApartIsLike DEF Keeps, Fields
  <2>4. NodeFate(e, r) /\ FrameFate(e, r) /\ Mid(e) /\ (p = "finish" /\ eng[e].verdict = "succeeded" => Passing(e))
    BY <2>1, <2>3 DEF NodeFate, FrameFate, Mid, r, Passing
  <2>5. EndsHeld
    BY <1>f, <2>3, <2>4, EndsApart
  <2>6. eng'[e].phase = p /\ eng'[e].run = eng[e].run /\ eng'[e].frame = eng[e].frame /\ eng'[e].verdict = eng[e].verdict
    BY <2>2 DEF Moves
  <2>7. DriveFate(e)
    BY <2>1, <2>2, <2>3, <2>4, <2>6 DEF DriveFate, Passing, r
  <2>k. PICK S : S = {"node"} /\ Keeps(r, S) /\ S \cap {"answered"} = {}
    BY <2>1
  <2>h. /\ (run[r].hole => run'[r].hole) /\ (run[r].passed => run'[r].passed)
        /\ (def.kind # "map" => run'[r].age = run[r].age)
        /\ (run'[r].status = "succeeded" => run[r].status = "succeeded" \/ (Passing(e) /\ run'[r].passed))
        /\ LikeApart(r)
    BY <2>3
  <2>8. \A q \in Runs : Fate(e, q)
    BY <1>f, <2>2, <2>4, <2>h, <2>k, FateMoves DEF r
  <2> QED BY <2>5, <2>7, <2>8
<1>7. CASE FinishRun(e)
  <2>1. /\ eng[e].phase = "finish" /\ Keeps(r, {"status", "passed"}) /\ Apart(r)
        /\ run'[r].status = eng[e].verdict
        /\ run'[r].passed = (run[r].passed \/ eng[e].verdict = "succeeded")
        /\ Moves(e, "hook", eng[e].verdict, eng[e].frame)
    BY <1>7, FinishRunEffect DEF r
  <2>2. /\ run'[r].age = run[r].age /\ run'[r].hole = run[r].hole /\ run'[r].node = run[r].node
        /\ run'[r].frame = run[r].frame /\ LikeApart(r)
    BY <1>f, <2>1, ApartIsLike DEF Keeps, Fields
  <2>3. NodeFate(e, r) /\ FrameFate(e, r) /\ Mid(e) /\ (eng[e].verdict = "succeeded" => Passing(e))
    BY <2>1, <2>2 DEF NodeFate, FrameFate, Mid, r, Passing
  <2>4. EndsHeld
    BY <1>f, <2>2, <2>3, EndsApart
  <2>5. eng'[e].phase = "hook" /\ eng'[e].run = eng[e].run /\ eng'[e].frame = eng[e].frame
    BY <2>1 DEF Moves
  <2>6. DriveFate(e)
    BY <2>1, <2>5 DEF DriveFate, Passing, Mid, r
  <2>k. PICK S : S = {"status", "passed"} /\ Keeps(r, S) /\ S \cap {"answered"} = {}
    BY <2>1
  <2>h. /\ (run[r].hole => run'[r].hole) /\ (run[r].passed => run'[r].passed)
        /\ (def.kind # "map" => run'[r].age = run[r].age)
        /\ (run'[r].status = "succeeded" => run[r].status = "succeeded" \/ (Passing(e) /\ run'[r].passed))
        /\ LikeApart(r)
    BY <2>1, <2>2, <2>3
  <2>7. \A q \in Runs : Fate(e, q)
    BY <1>f, <2>1, <2>3, <2>h, <2>k, FateMoves DEF r
  <2> QED BY <2>4, <2>6, <2>7
<1>8. CASE RetryRun(e)
  <2>1. /\ eng[e].phase = "retry" /\ Keeps(r, {"status"}) /\ Apart(r) /\ run'[r].status = "waiting"
        /\ Moves(e, "backoff", eng[e].verdict, eng[e].frame)
    BY <1>8, RetryRunEffect DEF r
  <2>2. /\ run'[r].passed = run[r].passed /\ run'[r].age = run[r].age /\ run'[r].hole = run[r].hole
        /\ run'[r].node = run[r].node /\ run'[r].frame = run[r].frame /\ LikeApart(r)
    BY <1>f, <2>1, ApartIsLike DEF Keeps, Fields
  <2>3. NodeFate(e, r) /\ FrameFate(e, r) /\ Mid(e)
    BY <2>1, <2>2 DEF NodeFate, FrameFate, Mid, r
  <2>4. EndsHeld
    BY <1>f, <2>2, <2>3, EndsApart
  <2>5. eng'[e].phase = "backoff" /\ eng'[e].run = eng[e].run /\ eng'[e].frame = eng[e].frame
    BY <2>1 DEF Moves
  <2>6. DriveFate(e)
    BY <2>1, <2>2, <2>3, <2>5 DEF DriveFate, Passing, r
  <2>k. PICK S : S = {"status"} /\ Keeps(r, S) /\ S \cap {"answered"} = {}
    BY <2>1
  <2>h. /\ (run[r].hole => run'[r].hole) /\ (run[r].passed => run'[r].passed)
        /\ (def.kind # "map" => run'[r].age = run[r].age)
        /\ (run'[r].status = "succeeded" => run[r].status = "succeeded" \/ (Passing(e) /\ run'[r].passed))
        /\ LikeApart(r)
    BY <2>1, <2>2, <2>3
  <2>7. \A q \in Runs : Fate(e, q)
    BY <1>f, <2>1, <2>3, <2>h, <2>k, FateMoves DEF r
  <2> QED BY <2>4, <2>6, <2>7
<1>9. CASE drive_ready_node(e)
  <2>1. UNCHANGED run /\ eng[e].phase = "done" /\ eng'[e] = Idle
    BY <1>9, DriveEndsEffect
  <2>2. eng'[e].phase = "idle" /\ eng'[e].frame = NoFrame
    BY <2>1 DEF Idle
  <2>3. DriveFate(e)
    BY <2>1, <2>2 DEF DriveFate, Passing, Mid
  <2> QED BY <2>1, <2>2, <2>3, AllLike, FateQuiet
<1> QED BY <1>1, <1>2, <1>3, <1>4, <1>5, <1>6, <1>7, <1>8, <1>9 DEF CommonStep

-------------------------------------------------------------------------------

LEMMA OutsideLike ==
    ASSUME NEW r \in Runs, NEW S, Keeps(r, S), S \subseteq {"status", "hole"}, LikeApart(r),
           run[r].hole => run'[r].hole, run'[r].status = "succeeded" => run[r].status = "succeeded"
    PROVE  \A q \in Runs : OutsideFate(q)
<1> TAKE q \in Runs
<1>1. /\ run'[q].frame = run[q].frame /\ run'[q].parent = run[q].parent /\ run'[q].index = run[q].index
      /\ run'[q].body = run[q].body /\ run'[q].node = run[q].node /\ run'[q].answered = run[q].answered
      /\ run'[q].passed = run[q].passed /\ run'[q].age = run[q].age
  BY DEF Keeps, LikeApart, Like, Fields
<1>2. (run[q].hole => run'[q].hole) /\ (run'[q].status = "succeeded" => run[q].status = "succeeded")
  BY DEF Keeps, LikeApart, Like, Fields
<1> QED BY <1>1, <1>2 DEF OutsideFate, IsChild

LEMMA WebFates ==
    ASSUME TypeOK, Shape, WebService
    PROVE  /\ EndsHeld /\ UNCHANGED eng /\ \A q \in Runs : OutsideFate(q)
           /\ def.kind \notin {"barrier", "cooldown"} \cup Parents
<1>a. api.phase # "idle" => def.kind \in Answered \cup {"gate"}
  BY DEF Shape, Kinship
<1>k. def.kind \notin {"barrier", "cooldown"} \cup Parents
  <2>1. CASE Asks
    BY <2>1, AskEffect DEF Answered, Parents
  <2>2. CASE AnswerNode \/ AnswerRun \/ AnswerRow
    BY <1>a, <2>2 DEF AnswerNode, AnswerRun, AnswerRow, Answered, Parents
  <2>3. CASE resolve_gate \/ AwaitedEnd
    BY <2>3, GateEffect DEF Parents
  <2> QED BY <2>1, <2>2, <2>3 DEF WebService, Asks
<1>e. EndsHeld
  BY <1>k DEF EndsHeld, Child, IsChild, Shape, Kinship
<1>s. UNCHANGED run => \A q \in Runs : OutsideFate(q)
  BY DEF OutsideFate, IsChild
<1>1. CASE Asks \/ AnswerRow \/ resolve_gate \/ AwaitedEnd
  <2>1. UNCHANGED <<run, eng>>
    BY <1>1, AskEffect, AnswerRowEffect, GateEffect
  <2> QED BY <1>k, <1>e, <1>s, <2>1
<1>2. CASE AnswerNode
  <2> DEFINE r == api.run
  <2>1. /\ UNCHANGED eng /\ r \in Runs /\ api.verdict \in {"succeeded", "blocked"}
        /\ Keeps(r, {"node", "answered"}) /\ Apart(r) /\ run'[r].node = api.verdict
        /\ run[r].answered \/ api.verdict = "succeeded" => run'[r].answered
    BY <1>2, AnswerNodeEffect
  <2> HIDE DEF r
  <2>2. ASSUME NEW q \in Runs PROVE OutsideFate(q)
    <3>1. /\ run'[q].frame = run[q].frame /\ run'[q].parent = run[q].parent /\ run'[q].index = run[q].index
          /\ run'[q].body = run[q].body /\ run'[q].hole = run[q].hole
          /\ run'[q].passed = run[q].passed /\ run'[q].age = run[q].age /\ run'[q].status = run[q].status
      BY <2>1 DEF Keeps, Apart, Fields
    <3>2. /\ run'[q].node = run[q].node \/ (run'[q].node = "succeeded" => run'[q].answered)
          /\ run[q].answered => run'[q].answered
      BY <2>1 DEF Apart
    <3> QED BY <1>k, <3>1, <3>2 DEF OutsideFate, IsChild
  <2> QED BY <1>k, <1>e, <2>1, <2>2
<1>3. CASE AnswerRun
  <2> DEFINE r == api.run
  <2>1. /\ UNCHANGED eng /\ r \in Runs /\ Keeps(r, {"status", "hole"}) /\ Apart(r)
        /\ run'[r].status # "succeeded" /\ run'[r].hole = (run[r].hole \/ ~Active(r))
    BY <1>3, AnswerRunEffect
  <2> HIDE DEF r
  <2>2. (run[r].hole => run'[r].hole) /\ (run'[r].status = "succeeded" => run[r].status = "succeeded") /\ LikeApart(r)
    BY <2>1, ApartIsLike
  <2>3. PICK S : S = {"status", "hole"} /\ Keeps(r, S) /\ S \subseteq {"status", "hole"}
    BY <2>1
  <2>4. \A q \in Runs : OutsideFate(q)
    BY <2>1, <2>2, <2>3, OutsideLike
  <2> QED BY <1>k, <1>e, <2>1, <2>4
<1> QED BY <1>1, <1>2, <1>3 DEF WebService, Asks

LEMMA OutsideFates ==
    ASSUME TypeOK, Shape, WebService \/ (\E c \in Runs : BodyEnds(c)) \/ Operator \/ Faulty \/ Tick
    PROVE  /\ EndsHeld /\ \A q \in Runs : OutsideFate(q)
           /\ UNCHANGED eng \/ \E e \in Engines : Dropped(e)
           /\ def.kind \in {"barrier", "cooldown"} =>
                 record'.arrivals = record.arrivals /\ record'.status = record.status
<1>1. CASE WebService
  BY <1>1, WebFates
<1>2. CASE \E c \in Runs : BodyEnds(c)
  <2>1. PICK c \in Runs : BodyEnds(c)
    BY <1>2
  <2>2. UNCHANGED <<eng, record>> /\ IsChild(c) /\ Keeps(c, {"body"}) /\ Apart(c) /\ run'[c].body # "none"
    BY <2>1, BodyEndsEffect
  <2>3. ASSUME NEW q \in Runs PROVE OutsideFate(q) /\ run'[q].status = run[q].status
    <3>1. /\ run'[q].frame = run[q].frame /\ run'[q].parent = run[q].parent /\ run'[q].index = run[q].index
          /\ run'[q].node = run[q].node /\ run'[q].answered = run[q].answered /\ run'[q].hole = run[q].hole
          /\ run'[q].passed = run[q].passed /\ run'[q].age = run[q].age /\ run'[q].status = run[q].status
      BY <2>2 DEF Keeps, Apart, Fields
    <3>2. IsChild(q)' <=> IsChild(q)
      BY <2>2 DEF Apart, IsChild
    <3> QED BY <3>1, <3>2 DEF OutsideFate
  <2> QED BY <2>2, <2>3, EndsSame
<1>3. CASE Operator
  <2>1. PICK r \in Runs : cancel_workflow_run(r) \/ pause_workflow_run(r) \/ resume_workflow_run(r)
    BY <1>3 DEF Operator
  <2>2. /\ UNCHANGED <<eng, record>> /\ Active(r) /\ Keeps(r, {"status", "hole"}) /\ LikeApart(r)
        /\ run'[r].status # "succeeded" /\ (run[r].hole => run'[r].hole)
    <3>1. CASE cancel_workflow_run(r)
      BY <3>1, CancelEffect DEF Holed
    <3>2. CASE pause_workflow_run(r) \/ resume_workflow_run(r)
      <4>1. /\ UNCHANGED <<eng, record>> /\ Active(r) /\ Keeps(r, {"status"}) /\ Apart(r)
            /\ run'[r].status \in {"paused", "running"}
        BY <3>2, PauseEffect
      <4>2. Keeps(r, {"status", "hole"}) /\ run'[r].hole = run[r].hole
        BY <4>1 DEF Keeps, Fields
      <4> QED BY <4>1, <4>2, ApartIsLike
    <3> QED BY <2>1, <3>1, <3>2
  <2>3. EndsHeld
    BY <2>2, EndsApart DEF Active
  <2>4. PICK S : S = {"status", "hole"} /\ Keeps(r, S) /\ S \subseteq {"status", "hole"}
    BY <2>2
  <2>5. \A q \in Runs : OutsideFate(q)
    BY <2>2, <2>4, OutsideLike
  <2> QED BY <2>2, <2>3, <2>5
<1>4. CASE Faulty
  <2>1. PICK e \in Engines : EngineCrash(e) \/ fail_driven_ready_node(e)
    BY <1>4 DEF Faulty
  <2> DEFINE r == eng[e].run
  <2>2. r \in Runs
    BY Facts
  <2> HIDE DEF r
  <2>3. /\ UNCHANGED record /\ eng[e].phase # "idle" /\ eng'[e] = Idle
        /\ \A d \in Engines : d # e => eng'[d] = eng[d]
        /\ \/ ~Unrepaired(e) /\ run' = run
           \/ Like(r) /\ LikeApart(r) /\ Holed(r)
           \/ Keeps(r, {"status", "hole"}) /\ run'[r].status = "failed" /\ LikeApart(r) /\ Holed(r)
    <3>1. CASE EngineCrash(e)
      BY <3>1, CrashEffect DEF r
    <3>2. CASE fail_driven_ready_node(e)
      BY <3>2, FailEffect DEF r
    <3> QED BY <2>1, <3>1, <3>2
  <2>4. /\ Keeps(r, {"status", "hole"}) /\ LikeApart(r) /\ (run[r].hole => run'[r].hole)
        /\ run'[r].status = run[r].status \/ run'[r].status = "failed"
    <3>1. CASE run' = run
      BY <2>2, <3>1, AllLike DEF Keeps, LikeApart
    <3>2. CASE Like(r) /\ LikeApart(r)
      BY <3>2 DEF Keeps, Like, Fields
    <3>3. CASE Keeps(r, {"status", "hole"}) /\ run'[r].status = "failed" /\ LikeApart(r) /\ Holed(r)
      BY <3>3 DEF Holed
    <3> QED BY <2>3, <3>1, <3>2, <3>3
  <2>5. EndsHeld
    <3>1. Driven(r)
      BY <2>3 DEF Driven, r
    <3> QED BY <2>2, <2>4, <3>1, EndsApart
  <2>6. PICK S : S = {"status", "hole"} /\ Keeps(r, S) /\ S \subseteq {"status", "hole"}
    BY <2>4
  <2>7. \A q \in Runs : OutsideFate(q)
    BY <2>2, <2>4, <2>6, OutsideLike
  <2>8. Dropped(e)
    BY <2>3 DEF Dropped, Holed, Unrepaired, Passing, r
  <2> QED BY <2>3, <2>5, <2>7, <2>8
<1>5. CASE Tick
  <2>1. /\ UNCHANGED eng /\ record'.arrivals = record.arrivals /\ record'.status = record.status
        /\ \A r \in Runs : Present(r) => Keeps(r, {"age", "since"}) /\ run'[r].age = Older(run[r].age)
        /\ \A r \in Runs : ~Present(r) => run'[r] = run[r]
    BY <1>5, TickEffect
  <2>2. ASSUME NEW q \in Runs PROVE OutsideFate(q) /\ run'[q].status = run[q].status
    <3>1. /\ run'[q].frame = run[q].frame /\ run'[q].parent = run[q].parent /\ run'[q].index = run[q].index
          /\ run'[q].node = run[q].node /\ run'[q].answered = run[q].answered /\ run'[q].hole = run[q].hole
          /\ run'[q].passed = run[q].passed /\ run'[q].status = run[q].status /\ run'[q].body = run[q].body
          /\ run'[q].age \in {run[q].age, Older(run[q].age)}
      BY <2>1 DEF Keeps, Fields
    <3> QED BY <3>1 DEF OutsideFate, IsChild
  <2> QED BY <2>1, <2>2, EndsSame
<1> QED BY <1>1, <1>2, <1>3, <1>4, <1>5

-------------------------------------------------------------------------------
(***************************************************************************)
(* A map node that failed.                                                 *)
(***************************************************************************)

LEMMA PlainMaps ==
    ASSUME TypeOK, Shape, MapsArePlain, def.kind = "map", NEW c \in Runs, IsChild(c)
    PROVE  Child(c)
<1>1. def.body = "plain"
  BY DEF TypeOK, MapsArePlain
<1> QED BY <1>1 DEF Shape, Kinship, Child

\* The children on record: who they are, and that what is over stays over.
LEMMA OnRecord ==
    ASSUME TypeOK, Shape, Kindred, MapsArePlain, def.kind = "map", NEW r \in Runs, NEW f \in run[r].frame.flight
    PROVE  f[2] \in Runs /\ Present(f[2]) /\ Child(f[2])
<1>1. f[2] \in Runs
  BY FlightType
<1>2. Family(r, run[r].frame.flight)
  BY DEF Kindred, Families, Parents
<1>3. Present(f[2]) /\ IsChild(f[2])
  BY <1>2 DEF Family
<1> QED BY <1>1, <1>3, PlainMaps

LEMMA LostKept ==
    ASSUME TypeOK, Shape, Kindred, MapsArePlain, def.kind = "map", EndsHeld, NEW r \in Runs,
           run'[r].frame = run[r].frame
    PROVE  /\ Lost(r) => Lost(r)'
           /\ flight_failed(run[r].frame.flight) => flight_failed(run[r].frame.flight)'
<1>1. ASSUME NEW f \in run[r].frame.flight, run[f[2]].status \in Terminal
      PROVE  run'[f[2]].status \in Terminal /\ (run[f[2]].status \in Failed => run'[f[2]].status \in Failed)
  <2>1. f[2] \in Runs /\ Child(f[2])
    BY OnRecord
  <2> QED BY <1>1, <2>1 DEF EndsHeld, Terminal, Failed
<1>2. flight_failed(run[r].frame.flight) => flight_failed(run[r].frame.flight)'
  BY <1>1 DEF flight_failed, Failed
<1> QED BY <1>1, <1>2 DEF Lost

LEMMA FailureKept ==
    ASSUME TypeOK, Shape, Kindred, MapsArePlain, UNCHANGED def, EndsHeld,
           \A q \in Runs : run'[q].node = "failed" => Lost(q) /\ run'[q].frame = run[q].frame,
           def.kind = "map" => \A e \in Engines : Doomed(e)'
    PROVE  FailureKnown'
<1> SUFFICES ASSUME def.kind = "map" PROVE \A q \in Runs : run'[q].node = "failed" => Lost(q)'
  BY DEF FailureKnown
<1> QED BY LostKept

\* A step of nobody.
LEMMA FailureQuiet ==
    ASSUME TypeOK, Shape, Kindred, MapsArePlain, FailureKnown, def.kind = "map", UNCHANGED <<def, eng>>, EndsHeld,
           \A q \in Runs : run'[q].node = run[q].node /\ run'[q].frame = run[q].frame
    PROVE  FailureKnown'
<1>1. ASSUME NEW e \in Engines PROVE Doomed(e)'
  <2> DEFINE r == eng[e].run
  <2>1. r \in Runs
    BY Typed
  <2>2. /\ Lost(r) => Lost(r)'
        /\ flight_failed(run[r].frame.flight) => flight_failed(run[r].frame.flight)'
    BY <2>1, LostKept
  <2>3. run'[r].node = run[r].node /\ eng' = eng
    BY <2>1
  <2>4. Doomed(e)
    BY DEF FailureKnown
  <2> QED BY <2>2, <2>3, <2>4 DEF Doomed
<1> QED BY <1>1, FailureKept DEF FailureKnown

LEMMA CommonFailure ==
    ASSUME TypeOK, Shape, Kindred, OneDrive, MapsArePlain, FailureKnown, def.kind = "map",
           NEW e \in Engines, CommonStep(e)
    PROVE  FailureKnown'
<1>1. EndsHeld /\ DriveFate(e) /\ \A q \in Runs : Fate(e, q)
  BY CommonFate
<1>2. Doomed(e) /\ UNCHANGED def /\ \A q \in Runs : run[q].node = "failed" => Lost(q)
  BY CommonTypes DEF FailureKnown
<1>3. ASSUME NEW q \in Runs, run'[q].node = "failed" PROVE Lost(q) /\ run'[q].frame = run[q].frame
  <2>1. NodeFate(e, q) /\ FrameFate(e, q)
    BY <1>1 DEF Fate
  <2> QED BY <1>2, <1>3, <2>1 DEF NodeFate, FrameFate, Doomed
<1>4. Doomed(e)'
  BY <1>1 DEF DriveFate, Doomed, Mid
<1>5. \A d \in Engines : d = e
  BY DEF OneDrive
<1> QED BY <1>1, <1>2, <1>3, <1>4, <1>5, FailureKept

LEMMA ChildFailure ==
    ASSUME TypeOK, Shape, Kindred, OneDrive, MapsArePlain, FailureKnown, def.kind = "map",
           NEW e \in Engines, ChildStep(e)
    PROVE  FailureKnown'
<1> DEFINE r == eng[e].run
<1>f. r \in Runs /\ Present(r) /\ PhaseFits(eng[e].phase)
  BY Facts
<1>o. \A d \in Engines : d = e
  BY DEF OneDrive
<1>u. UNCHANGED def
  BY ChildTypes
<1>k. Doomed(e) /\ \A q \in Runs : run[q].node = "failed" => Lost(q)
  BY DEF FailureKnown
<1>s. ASSUME EndsHeld, Doomed(e)',
             \A q \in Runs : run'[q].node = "failed" => run[q].node = "failed" /\ run'[q].frame = run[q].frame
      PROVE  FailureKnown'
  BY <1>s, <1>o, <1>u, <1>k, FailureKept
<1>q. ASSUME UNCHANGED run, Doomed(e)'
      PROVE  FailureKnown'
  BY <1>q, <1>s, EndsSame
<1> HIDE DEF r
<1>1. CASE StartBody(e)
  <2>1. /\ eng'[e].phase = "hook"
        /\ \/ Keeps(r, {"body", "linked", "hole"}) /\ LikeApart(r)
           \/ Keeps(r, {"body"}) /\ Apart(r)
    BY <1>1, StartBodyEffect DEF r, Goes, Moves
  <2>2. \A q \in Runs : /\ run'[q].node = run[q].node /\ run'[q].frame = run[q].frame
                        /\ run'[q].status = run[q].status
    BY <2>1 DEF Keeps, Apart, LikeApart, Like, Fields
  <2>3. Doomed(e)'
    BY <2>1 DEF Doomed
  <2> QED BY <1>s, <2>2, <2>3, EndsSame
<1>2. CASE FinishChild(e)
  <2>1. eng'[e].phase = "hook" /\ Keeps(r, {"status"}) /\ Apart(r) /\ AtStep(e)
    BY <1>2, FinishChildEffect DEF r, Goes, Moves
  <2>2. \A q \in Runs : run'[q].node = run[q].node /\ run'[q].frame = run[q].frame
    BY <2>1 DEF Keeps, Apart, Fields
  <2>3. Doomed(e)'
    BY <2>1 DEF Doomed
  <2>4. EndsHeld
    BY <1>f, <2>1, EndsApart, ApartIsLike DEF AtStep, Active, r
  <2> QED BY <1>s, <2>2, <2>3, <2>4
<1>3. CASE AwaitBody(e)
  <2>1. UNCHANGED run /\ eng'[e].phase = "hook"
    BY <1>3, AwaitBodyEffect DEF Goes, Moves
  <2> QED BY <1>q, <2>1 DEF Doomed
<1>4. CASE process_map_node(e)
  <2>1. /\ UNCHANGED run /\ eng'[e].run = r
        /\ \/ run[r].node = "none" /\ eng'[e].phase = "create"
           \/ eng'[e].phase = "settle" /\ eng'[e].verdict = "timed_out"
           \/ eng'[e].phase = "harvest"
    BY <1>4, MapEffect DEF Goes, Settles, Moves, r
  <2>2. Doomed(e)'
    BY <2>1 DEF Doomed
  <2> QED BY <1>q, <2>1, <2>2
<1>5. CASE CreateMap(e)
  <2>1. /\ eng'[e].phase = "harvest" /\ Keeps(r, {"node", "tries", "age"}) /\ Apart(r) /\ run'[r].node = "queued"
    BY <1>5, CreateMapEffect DEF r, Goes, Moves
  <2>2. \A q \in Runs : /\ run'[q].node = run[q].node \/ run'[q].node = "queued"
                        /\ run'[q].frame = run[q].frame /\ run'[q].status = run[q].status
    BY <2>1 DEF Keeps, Apart, Fields
  <2>3. Doomed(e)'
    BY <2>1 DEF Doomed
  <2> QED BY <1>s, <2>2, <2>3, EndsSame
<1>6. CASE Harvest(e)
  <2>1. /\ UNCHANGED run /\ eng'[e].run = r
        /\ \/ flight_failed(run[r].frame.flight) /\ eng'[e].phase = "cancel"
           \/ ~flight_failed(run[r].frame.flight) /\ eng'[e].phase = "fan"
    BY <1>6, HarvestEffect DEF Goes, Moves, r
  <2>2. ~flight_failed(run[r].frame.flight) => run[r].node # "failed"
    BY <1>f, <1>k DEF Lost
  <2>3. Doomed(e)'
    BY <2>1, <2>2 DEF Doomed, flight_failed
  <2> QED BY <1>q, <2>1, <2>3
<1>7. CASE cancel_children(e)
  <2>1. /\ eng[e].phase = "cancel"
        /\ \/ /\ \A f \in run[r].frame.flight : ~Active(f[2])
              /\ UNCHANGED run /\ Settles(e, "failed")
           \/ \E c \in Runs : /\ Active(c) /\ UNCHANGED eng /\ Keeps(c, {"status"}) /\ Apart(c)
    BY <1>7, CancelChildrenEffect DEF r
  <2>2. CASE (\A f \in run[r].frame.flight : ~Active(f[2])) /\ UNCHANGED run /\ Settles(e, "failed")
    <3>1. \A f \in run[r].frame.flight : run[f[2]].status \in Terminal
      BY <1>f, <2>2, OnRecord DEF Active
    <3>2. Lost(r)
      BY <1>k, <2>1, <3>1 DEF Doomed, Lost, r
    <3>3. eng'[e].phase = "settle" /\ eng'[e].run = r
      BY <2>2 DEF Settles, Moves, r
    <3>4. Lost(eng[e].run)'
      BY <2>2, <3>2, <3>3 DEF Lost, flight_failed
    <3> QED BY <1>q, <2>2, <3>3, <3>4 DEF Doomed
  <2>3. CASE \E c \in Runs : /\ Active(c) /\ UNCHANGED eng /\ Keeps(c, {"status"}) /\ Apart(c)
    <3>1. PICK c \in Runs : /\ Active(c) /\ UNCHANGED eng /\ Keeps(c, {"status"}) /\ Apart(c)
      BY <2>3
    <3>2. EndsHeld
      BY <3>1, EndsApart, ApartIsLike DEF Active
    <3>3. \A q \in Runs : run'[q].node = run[q].node /\ run'[q].frame = run[q].frame
      BY <3>1 DEF Keeps, Apart, Fields
    <3> QED BY <1>u, <3>1, <3>2, <3>3, FailureQuiet
  <2> QED BY <2>1, <2>2, <2>3
<1>8. CASE FanOut(e)
  <2>1. /\ eng[e].phase = "fan" /\ eng'[e].run = r
        /\ \/ \E c \in Runs : Spawns(r, c, eng[e].frame.next) /\ eng'[e].phase = "fan"
           \/ /\ UNCHANGED run
              /\ (eng'[e].phase = "settle" /\ eng'[e].verdict = "succeeded") \/ eng'[e].phase = "node"
    BY <1>8, FanOutEffect DEF r, Settles, Goes, Moves
  <2>2. run[r].node # "failed"
    BY <1>k, <2>1 DEF Doomed, r
  <2>3. CASE UNCHANGED run /\ ((eng'[e].phase = "settle" /\ eng'[e].verdict = "succeeded") \/ eng'[e].phase = "node")
    BY <1>q, <2>1, <2>2, <2>3 DEF Doomed
  <2>4. CASE \E c \in Runs : Spawns(r, c, eng[e].frame.next) /\ eng'[e].phase = "fan"
    <3>1. PICK c \in Runs : Spawns(r, c, eng[e].frame.next) /\ eng'[e].phase = "fan"
      BY <2>4
    <3>2. /\ ~Present(c) /\ Apart(c) /\ run'[c].node \in {"none", "succeeded"} /\ c # r
          /\ run[c].status \notin Terminal
      BY <1>f, <3>1 DEF Spawns, Present, Terminal
    <3>3. EndsHeld
      BY <3>2, EndsApart, ApartIsLike
    <3>4. \A q \in Runs : run'[q].node = "failed" => run[q].node = "failed" /\ run'[q].frame = run[q].frame
      BY <3>2 DEF Apart
    <3>5. Doomed(e)'
      BY <1>f, <2>1, <2>2, <3>1, <3>2 DEF Doomed, Apart
    <3> QED BY <1>s, <3>3, <3>4, <3>5
  <2> QED BY <2>1, <2>3, <2>4
<1>9. CASE process_subflow_node(e) \/ CreateSubflow(e)
  BY <1>9 DEF process_subflow_node, AtNode, CreateSubflow
<1>10. CASE ReuseRun(e) \/ create_subflow_run(e) \/ LinkSubflow(e)
  BY <1>10, <1>f DEF ReuseRun, create_subflow_run, LinkSubflow, PhaseFits
<1> QED BY <1>1, <1>2, <1>3, <1>4, <1>5, <1>6, <1>7, <1>8, <1>9, <1>10 DEF ChildStep

LEMMA NextFailure ==
    ASSUME TypeOK, Shape, Kindred, OneDrive, MapsArePlain, FailureKnown, [Next]_vars
    PROVE  FailureKnown'
<1>u. UNCHANGED def
  BY NextTypes
<1> SUFFICES ASSUME def.kind = "map" PROVE FailureKnown'
  BY <1>u DEF FailureKnown
<1>1. CASE \E e \in Engines : EngineStep(e)
  <2>1. PICK e \in Engines : EngineStep(e)
    BY <1>1
  <2>2. CASE WaitingStep(e) \/ SharedStep(e)
    BY <2>2, WaitingShape, SharedShape DEF Parents
  <2> QED BY <2>1, <2>2, CommonFailure, ChildFailure DEF EngineStep
<1>2. CASE WebService \/ (\E c \in Runs : BodyEnds(c)) \/ Operator \/ Faulty \/ Tick
  <2>1. /\ EndsHeld
        /\ \A q \in Runs : run'[q].node = run[q].node /\ run'[q].frame = run[q].frame
        /\ \/ UNCHANGED eng
           \/ \E e \in Engines : eng'[e] = Idle
    BY <1>2, OutsideFates DEF Parents, OutsideFate, Dropped
  <2>2. CASE UNCHANGED eng
    BY <1>u, <2>1, <2>2, FailureQuiet
  <2>3. CASE \E e \in Engines : eng'[e] = Idle
    <3>1. \A e \in Engines : eng'[e].phase = "idle"
      BY <2>3 DEF OneDrive, Idle
    <3>2. \A e \in Engines : Doomed(e)'
      BY <3>1 DEF Doomed
    <3> QED BY <1>u, <2>1, <3>2, FailureKept DEF FailureKnown
  <2> QED BY <2>1, <2>2, <2>3
<1>3. CASE UNCHANGED vars
  <2>1. UNCHANGED <<run, eng>>
    BY <1>3 DEF vars
  <2>2. EndsHeld
    BY <2>1, EndsSame
  <2> QED BY <1>u, <2>1, <2>2, FailureQuiet
<1> QED BY <1>1, <1>2, <1>3 DEF Next

LEMMA InitFailure == Init => FailureKnown
<1> SUFFICES ASSUME Init PROVE FailureKnown
  OBVIOUS
<1>1. /\ \A r \in Runs : run[r] = NewRun(def, r)
      /\ \A e \in Engines : eng[e] = Idle
  BY InitFacts
<1>2. ASSUME NEW r \in Runs PROVE run[r].node = "none"
  <2>1. run[r] = NewRun(def, r)
    BY <1>1
  <2> QED BY <2>1 DEF NewRun
<1>3. \A e \in Engines : eng[e].phase = "idle"
  BY <1>1 DEF Idle
<1> QED BY <1>2, <1>3 DEF FailureKnown, Doomed

\* A map node that failed has left no recorded child running, whatever its items and its
\* width, and whatever crashes, cancellations and pauses come between two of its writes:
\* with one drive at a time, and for bodies that keep the state of their run.
THEOREM FailsFast ==
    ASSUME OneDrive, MapsArePlain
    PROVE  Spec => []FailFast
<1>1. Init => TypeOK /\ Shape /\ Kindred /\ FailureKnown
  BY InitTypes, InitShape, InitKindred, InitFailure
<1>2. TypeOK /\ Shape /\ Kindred /\ FailureKnown /\ [Next]_vars => (TypeOK /\ Shape /\ Kindred /\ FailureKnown)'
  BY NextTypes, NextShape, NextKindred, NextFailure
<1>3. FailureKnown => FailFast
  BY DEF FailureKnown, FailFast, Lost
<1> QED BY <1>1, <1>2, <1>3, PTL DEF Spec

-------------------------------------------------------------------------------
(***************************************************************************)
(* What a success stands for.  First the waiting nodes.                    *)
(***************************************************************************)

LEMMA LiveKept ==
    ASSUME OneDrive, LiveKnown, NEW e \in Engines, Proceeds(e)
    PROVE  LiveKnown'
<1>1. \A d \in Engines : d = e
  BY DEF OneDrive
<1>2. Mid(e)' => run[eng[e].run].status # "succeeded"
  BY DEF LiveKnown, Proceeds, AtStep, Active, Terminal
<1> QED BY <1>1, <1>2 DEF LiveKnown, Proceeds

LEMMA CommonLive ==
    ASSUME TypeOK, Shape, OneDrive, LiveKnown, NEW e \in Engines, CommonStep(e)
    PROVE  LiveKnown'
<1>1. DriveFate(e)
  BY CommonFate
<1>2. \A d \in Engines : d = e
  BY DEF OneDrive
<1> QED BY <1>1, <1>2 DEF DriveFate, LiveKnown

LEMMA OutsideLive ==
    ASSUME TypeOK, Shape, OneDrive, LiveKnown,
           WebService \/ (\E c \in Runs : BodyEnds(c)) \/ Operator \/ Faulty \/ Tick
    PROVE  LiveKnown'
<1>1. /\ \A q \in Runs : run'[q].status = "succeeded" => run[q].status = "succeeded"
      /\ UNCHANGED eng \/ \E e \in Engines : eng'[e] = Idle
  BY OutsideFates DEF OutsideFate, Dropped
<1>2. CASE UNCHANGED eng
  <2>1. \A e \in Engines : eng[e].run \in Runs
    BY Typed
  <2> QED BY <1>1, <1>2, <2>1 DEF LiveKnown, Mid
<1>3. CASE \E e \in Engines : eng'[e] = Idle
  BY <1>3 DEF OneDrive, LiveKnown, Mid, Idle
<1> QED BY <1>1, <1>2, <1>3

LEMMA WaitingFate ==
    ASSUME TypeOK, Shape, NEW e \in Engines, WaitingStep(e), NEW r, r = eng[e].run
    PROVE  /\ Proceeds(e) /\ UNCHANGED def /\ LikeApart(r) /\ Keeps(r, {"node", "tries", "age", "hole"})
           /\ run'[r].node \in {run[r].node, "queued"}
           /\ run'[r].age = run[r].age \/ eng[e].phase = "create"
           /\ Passing(e)' => Due(e)
<1>f. r \in Runs /\ Present(r)
  BY Facts
<1>s. UNCHANGED run => /\ LikeApart(r) /\ Keeps(r, {"node", "tries", "age", "hole"})
                       /\ run'[r].node \in {run[r].node, "queued"} /\ run'[r].age = run[r].age
                       /\ run'[r].status = run[r].status
  BY <1>f, AllLike DEF LikeApart, Keeps
<1>1. CASE process_signal_node(e) \/ process_approval_node(e)
  <2>1. /\ UNCHANGED def /\ AtStep(e) /\ def.kind \in {"signal", "approval"} /\ eng'[e].run = r
        /\ \/ run' = run /\ eng'[e].phase = "settle" /\ eng'[e].verdict = "timed_out"
           \/ run' = run /\ eng'[e].phase \in {"hook", "create"}
           \/ run[r].node = "succeeded" /\ run' = run /\ eng'[e].phase = "settle"
           \/ Like(r) /\ LikeApart(r) /\ eng'[e].phase = "hook"
    BY <1>1, StampedEffect DEF Goes, Settles, Moves
  <2>2. CASE run' = run
    BY <1>s, <2>1, <2>2 DEF Proceeds, Passing, Due, Answered
  <2>3. CASE Like(r) /\ LikeApart(r) /\ eng'[e].phase = "hook"
    BY <2>1, <2>3 DEF Proceeds, Passing, Like, Keeps, Fields, Mid
  <2> QED BY <2>1, <2>2, <2>3
<1>2. CASE process_input_node(e)
  <2>1. /\ UNCHANGED <<def, run>> /\ AtStep(e) /\ def.kind = "input" /\ eng'[e].run = r
        /\ \/ eng'[e].phase = "settle" /\ eng'[e].verdict = "timed_out"
           \/ eng'[e].phase \in {"hook", "create"}
           \/ run[r].node = "succeeded" /\ eng'[e].phase = "settle"
    BY <1>2, InputEffect DEF Goes, Settles, Moves
  <2> QED BY <1>s, <2>1 DEF Proceeds, Passing, Due, Answered
<1>3. CASE \/ process_wait_node(e) \/ process_debounce_node(e) \/ process_gate_node(e)
           \/ process_await_run_node(e) \/ process_event_source_node(e) \/ process_collect_node(e)
  <2>1. /\ UNCHANGED <<def, run>> /\ AtStep(e) /\ def.kind \in Watchers /\ eng'[e].run = r
        /\ \/ eng'[e].phase = "settle" /\ eng'[e].verdict = "timed_out"
           \/ eng'[e].phase \in {"create", "done", "repoll"}
           \/ /\ def.kind # "event_source" /\ (def.kind = "collect" => timed_out(r))
              /\ def.kind \in {"wait", "debounce"} => run[r].age >= Timeout
    BY <1>3, WatchedEffect DEF Goes, Settles, Moves
  <2> QED BY <1>s, <2>1 DEF Proceeds, Passing, Due, Answered, Watchers
<1>4. CASE CreateWaiting(e)
  <2>1. /\ UNCHANGED def /\ eng[e].phase = "create" /\ eng'[e].run = r
        /\ Keeps(r, {"node", "tries", "age"}) /\ Apart(r) /\ run'[r].node = "queued"
        /\ eng'[e].phase \in {"record", "node"} \/ def.kind = "await_run"
    BY <1>4, CreateWaitingEffect DEF Goes, Settles, Moves
  <2>2. LikeApart(r) /\ Keeps(r, {"node", "tries", "age", "hole"}) /\ run'[r].status = run[r].status
    BY <1>f, <2>1, ApartIsLike DEF Keeps, Fields
  <2> QED BY <2>1, <2>2 DEF Proceeds, Passing, Due, Answered, Mid
<1>5. CASE CreateRecord(e)
  <2>1. UNCHANGED <<def, run>> /\ eng[e].phase = "record" /\ eng'[e].run = r /\ eng'[e].phase = "node"
    BY <1>5, CreateRecordEffect DEF Goes, Moves
  <2> QED BY <1>s, <2>1 DEF Proceeds, Passing, Mid
<1> QED BY <1>1, <1>2, <1>3, <1>4, <1>5 DEF WaitingStep

LEMMA WaitingWaits ==
    ASSUME TypeOK, Shape, OneDrive, LiveKnown, WaitsKnown, NEW e \in Engines, WaitingStep(e)
    PROVE  WaitsKnown'
<1> DEFINE r == eng[e].run
<1>f. r \in Runs /\ Timeout \in Nat /\ \A q \in Runs : run[q].age \in 0..Timeout
  BY Facts, TimeAssumption, Typed DEF RunRecords
<1>o. \A d \in Engines : d = e
  BY DEF OneDrive
<1> HIDE DEF r
<1>1. /\ eng'[e].run = r /\ UNCHANGED def /\ LikeApart(r) /\ Keeps(r, {"node", "tries", "age", "hole"})
      /\ run'[r].node \in {run[r].node, "queued"}
      /\ run'[r].age = run[r].age \/ eng[e].phase = "create"
      /\ Passing(e)' => Due(e)
  BY WaitingFate DEF r, Proceeds
<1>2. \A q \in Runs : /\ run'[q].status = run[q].status /\ run'[q].answered = run[q].answered
                      /\ run'[q].node \in {run[q].node, "queued"}
                      /\ run'[q].age = run[q].age \/ (q = r /\ eng[e].phase = "create")
  BY <1>1 DEF LikeApart, Like, Keeps, Fields
<1>3. ASSUME NEW q \in Runs, Success(q)'
      PROVE  Success(q) \/ (q = r /\ Due(e))
  BY <1>o, <1>1, <1>2, <1>3 DEF Success
<1>4. eng[e].phase = "create" => ~Success(r)
  BY <1>o DEF LiveKnown, Success, Passing, Mid, r
<1>5. def.kind \in Answered => \A q \in Runs : Success(q)' \/ run'[q].node = "succeeded" => run'[q].answered
  BY <1>2, <1>3 DEF WaitsKnown, Due, r
<1>6. ASSUME def.kind \in {"wait", "debounce", "collect"}, NEW q \in Runs, Success(q)'
      PROVE  run'[q].age = Timeout
  <2>1. CASE eng[e].phase = "create" /\ q = r
    <3>1. def.kind # "await_run" /\ ~Passing(e)'
      <4>1. ~Passing(e)' \/ def.kind = "await_run"
        <5>1. CreateWaiting(e)
          BY <2>1 DEF WaitingStep, process_signal_node, process_approval_node, process_input_node, process_wait_node,
             process_debounce_node, process_gate_node, process_await_run_node, process_event_source_node,
             process_collect_node, CreateRecord, AtNode
        <5> QED BY <5>1, CreateWaitingEffect DEF Goes, Moves, Passing
      <4> QED BY <1>6, <4>1
    <3>2. ~Success(q)'
      BY <1>o, <1>2, <1>4, <2>1, <3>1 DEF Success
    <3> QED BY <1>6, <3>2
  <2>2. CASE ~(eng[e].phase = "create" /\ q = r)
    <3>1. run'[q].age = run[q].age
      BY <1>2, <2>2
    <3>2. CASE Success(q)
      BY <1>6, <3>1, <3>2 DEF WaitsKnown
    <3>3. CASE q = r /\ Due(e)
      <4>1. run[r].age >= Timeout
        BY <1>6, <3>3 DEF Due, timed_out, r
      <4> QED BY <1>f, <3>1, <3>3, <4>1
    <3> QED BY <1>3, <1>6, <3>2, <3>3
  <2> QED BY <2>1, <2>2
<1>7. def.kind = "collect" /\ ~def.timed => \A q \in Runs : ~Success(q)'
  BY <1>3 DEF WaitsKnown, Due, timed_out
<1>8. def.kind = "event_source" => \A q \in Runs : ~Success(q)'
  BY <1>3 DEF WaitsKnown, Due
<1> QED BY <1>1, <1>5, <1>6, <1>7, <1>8 DEF WaitsKnown

LEMMA CommonWaits ==
    ASSUME TypeOK, Shape, OneDrive, WaitsKnown, NEW e \in Engines, CommonStep(e)
    PROVE  WaitsKnown'
<1>1. UNCHANGED def /\ \A q \in Runs : NodeFate(e, q) /\ RunFate(e, q)
  BY CommonTypes, CommonFate DEF Fate
<1>2. ASSUME def.kind \in Answered, NEW q \in Runs, Success(q)' \/ run'[q].node = "succeeded"
      PROVE  run'[q].answered
  <2>1. run'[q].node = "succeeded" => run[q].node = "succeeded" \/ Success(q)
    BY <1>1 DEF NodeFate, Success, Passing
  <2>2. run[q].answered
    BY <1>1, <1>2, <2>1 DEF WaitsKnown, RunFate
  <2> QED BY <1>1, <2>2 DEF RunFate
<1>3. \A q \in Runs : /\ Success(q)' => Success(q)
                      /\ def.kind # "map" => run'[q].age = run[q].age
  BY <1>1 DEF RunFate
<1> QED BY <1>1, <1>2, <1>3 DEF WaitsKnown

LEMMA OutsideWaits ==
    ASSUME TypeOK, Shape, OneDrive, WaitsKnown,
           WebService \/ (\E c \in Runs : BodyEnds(c)) \/ Operator \/ Faulty \/ Tick
    PROVE  WaitsKnown'
<1>1. UNCHANGED def /\ (\A q \in Runs : OutsideFate(q)) /\ (UNCHANGED eng \/ \E e \in Engines : eng'[e] = Idle)
  BY OutsideTypes, OutsideFates DEF Dropped
<1>2. ASSUME NEW q \in Runs, Success(q)' PROVE Success(q)
  <2>1. run'[q].status = "succeeded" => run[q].status = "succeeded"
    BY <1>1 DEF OutsideFate
  <2>2. CASE UNCHANGED eng
    BY <1>2, <2>1, <2>2 DEF Success, Passing
  <2>3. CASE \E e \in Engines : eng'[e] = Idle
    BY <1>2, <2>1, <2>3 DEF Success, Passing, OneDrive, Idle
  <2> QED BY <1>1, <2>2, <2>3
<1>3. \A q \in Runs : /\ run[q].answered => run'[q].answered
                      /\ run'[q].node = "succeeded" => run[q].node = "succeeded" \/ run'[q].answered
                      /\ run[q].age = Timeout => run'[q].age = Timeout
  BY <1>1, TimeAssumption DEF OutsideFate, Older
<1> QED BY <1>1, <1>2, <1>3 DEF WaitsKnown

-------------------------------------------------------------------------------

LEMMA SharedFate ==
    ASSUME TypeOK, Shape, NEW e \in Engines, SharedStep(e), NEW r, r = eng[e].run
    PROVE  /\ Proceeds(e) /\ UNCHANGED def /\ Apart(r) /\ Keeps(r, {"node", "tries", "age", "since", "status"})
           /\ run'[r].status = run[r].status \/ (eng[e].phase = "skip_run" /\ def.kind = "cooldown")
           /\ def.kind = "barrier" => BarrierFate(e)
           /\ def.kind = "cooldown" => CooldownFate(e)
<1>f. r \in Runs /\ Present(r) /\ PhaseFits(eng[e].phase)
  BY Facts
<1>s. UNCHANGED run => /\ Apart(r) /\ Keeps(r, {"node", "tries", "age", "since", "status"})
                       /\ run'[r].status = run[r].status
  BY <1>f DEF Apart, Keeps
<1>1. CASE process_barrier_node(e) \/ process_throttle_node(e)
  <2>1. /\ UNCHANGED <<def, run, record>> /\ AtStep(e) /\ def.kind \in {"barrier", "throttle"} /\ eng'[e].run = r
        /\ \/ eng'[e].phase = "settle" /\ eng'[e].verdict = "timed_out"
           \/ eng'[e].phase = def.kind
    BY <1>1, LookEffect DEF Goes, Settles, Moves
  <2> QED BY <1>s, <2>1 DEF Proceeds, BarrierFate, Passing
<1>2. CASE register_arrival(e)
  <2>1. /\ UNCHANGED <<def, run>> /\ eng[e].phase = "barrier" /\ eng'[e].run = r
        /\ record'.arrivals = record.arrivals \cup {r}
        /\ \/ arrivals_complete(record'.arrivals)
           \/ eng'[e].phase = "create" /\ eng'[e].verdict = "none"
           \/ eng'[e].phase = "repoll"
    BY <1>2, ArrivalEffect DEF Goes, Creates, Settles, Moves
  <2>2. def.kind = "barrier"
    BY <1>f, <2>1 DEF PhaseFits
  <2>3. BarrierFate(e)
    BY <2>1 DEF BarrierFate, Met, Passing
  <2> QED BY <1>s, <2>1, <2>2, <2>3 DEF Proceeds, Mid
<1>3. CASE consume_token(e)
  <2>1. UNCHANGED def /\ eng[e].phase = "throttle" /\ Keeps(r, {"since"}) /\ Apart(r) /\ eng'[e].run = r
    BY <1>3, TokenEffect DEF Goes, Creates, Settles, Moves
  <2>2. def.kind = "throttle"
    BY <1>f, <2>1 DEF PhaseFits
  <2>3. Keeps(r, {"node", "tries", "age", "since", "status"}) /\ run'[r].status = run[r].status
    BY <2>1 DEF Keeps, Fields
  <2> QED BY <2>1, <2>2, <2>3 DEF Proceeds, Mid
<1>4. CASE CreateShared(e)
  <2>1. /\ UNCHANGED <<def, record>> /\ eng[e].phase = "create" /\ eng'[e].run = r
        /\ Keeps(r, {"node", "tries", "age"}) /\ Apart(r)
        /\ \/ def.kind = "cooldown" /\ eng'[e].phase = "cooldown"
           \/ def.kind # "cooldown" /\ eng[e].verdict = "succeeded" /\ eng'[e].phase = "settle"
           \/ def.kind # "cooldown" /\ eng'[e].phase = "node"
    BY <1>4, CreateSharedEffect DEF Goes, Moves
  <2>2. Keeps(r, {"node", "tries", "age", "since", "status"}) /\ run'[r].status = run[r].status
    BY <2>1 DEF Keeps, Fields
  <2> QED BY <2>1, <2>2 DEF Proceeds, BarrierFate, CooldownFate, Met, Passing, Mid
<1>5. CASE process_cooldown_node(e)
  <2>1. UNCHANGED <<def, run, record>> /\ AtStep(e) /\ def.kind = "cooldown" /\ eng'[e].run = r /\ eng'[e].phase = "create"
    BY <1>5, CooldownEffect DEF Goes, Moves
  <2> QED BY <1>s, <2>1 DEF Proceeds, CooldownFate, AtStep
<1>6. CASE stamp_cooldown(e)
  <2>1. /\ UNCHANGED def /\ eng[e].phase = "cooldown" /\ Keeps(r, {"since"}) /\ Apart(r) /\ eng'[e].run = r
        /\ \/ eng'[e].phase = "settle" /\ eng'[e].verdict = "succeeded"
           \/ record.status # "none" /\ record' = record /\ eng'[e].phase = "skip"
    BY <1>6, StampEffect DEF Goes, Settles, Moves
  <2>2. Keeps(r, {"node", "tries", "age", "since", "status"}) /\ run'[r].status = run[r].status
    BY <2>1 DEF Keeps, Fields
  <2>3. def.kind = "cooldown"
    BY <1>f, <2>1 DEF PhaseFits
  <2> QED BY <2>1, <2>2, <2>3 DEF Proceeds, CooldownFate, Passing, Mid
<1>7. CASE SkipNode(e)
  <2>1. /\ UNCHANGED <<def, record>> /\ eng[e].phase = "skip" /\ eng'[e].phase = "skip_run" /\ eng'[e].run = r
        /\ Keeps(r, {"node"}) /\ Apart(r)
    BY <1>7, SkipNodeEffect DEF Goes, Moves
  <2>2. Keeps(r, {"node", "tries", "age", "since", "status"}) /\ run'[r].status = run[r].status
    BY <2>1 DEF Keeps, Fields
  <2>3. def.kind = "cooldown"
    BY <1>f, <2>1 DEF PhaseFits
  <2> QED BY <2>1, <2>2, <2>3 DEF Proceeds, CooldownFate, Mid
<1>8. CASE SkipRun(e)
  <2>1. /\ UNCHANGED <<def, record>> /\ eng[e].phase = "skip_run" /\ eng'[e].phase = "hook" /\ eng'[e].run = r
        /\ Keeps(r, {"status"}) /\ Apart(r)
    BY <1>8, SkipRunEffect DEF Goes, Moves
  <2>2. Keeps(r, {"node", "tries", "age", "since", "status"})
    BY <2>1 DEF Keeps, Fields
  <2>3. def.kind = "cooldown"
    BY <1>f, <2>1 DEF PhaseFits
  <2> QED BY <2>1, <2>2, <2>3 DEF Proceeds, CooldownFate, Mid
<1> QED BY <1>1, <1>2, <1>3, <1>4, <1>5, <1>6, <1>7, <1>8 DEF SharedStep

\* Whoever counts as many arrivals as there are parties has seen them all.
LEMMA AllArrived ==
    ASSUME TypeOK, NEW A, A \subseteq Started(def), arrivals_complete(A)
    PROVE  A = Started(def)
<1>1. def.parties \in Nat \ {0}
  BY ScenariosAssumption DEF TypeOK, Scenario
<1>2. IsFiniteSet(Started(def)) /\ Cardinality(Started(def)) = def.parties
  <2>1. PICK n \in Nat : n = def.parties - 1 /\ n + 1 = def.parties
    BY <1>1
  <2>2. IsFiniteSet(0..n) /\ Cardinality(0..n) = n + 1
    BY FS_Interval
  <2> QED BY <2>1, <2>2 DEF Started
<1>3. IsFiniteSet(A) /\ Cardinality(A) <= Cardinality(Started(def))
  BY <1>2, FS_Subset
<1>4. Cardinality(A) >= def.parties /\ Cardinality(A) \in Nat
  BY <1>3, FS_CardinalityType DEF arrivals_complete, Expected
<1> QED BY <1>1, <1>2, <1>3, <1>4, FS_Subset

LEMMA BarrierArrivals ==
    ASSUME TypeOK, Shape, OneDrive, BarrierKnown, def.kind = "barrier", NEW e \in Engines, SharedStep(e)
    PROVE  BarrierKnown'
<1> DEFINE r == eng[e].run
<1>f. r \in Runs /\ Present(r)
  BY Facts
<1>o. \A d \in Engines : d = e
  BY DEF OneDrive
<1>r. r \in Started(def)
  BY <1>f DEF Shape, Kinship, Parents
<1> HIDE DEF r
<1>1. /\ eng'[e].run = r /\ UNCHANGED def /\ Apart(r) /\ run'[r].status = run[r].status
      /\ record'.arrivals = record.arrivals \/ record'.arrivals = record.arrivals \cup {r}
      /\ Passing(e)' => Met(e)
      /\ (eng[e].phase = "create" /\ eng[e].verdict = "succeeded")' => Met(e)
  BY SharedFate DEF r, Proceeds, BarrierFate
<1>2. record'.arrivals \subseteq Started(def)
  BY <1>r, <1>1 DEF BarrierKnown
<1>3. record.arrivals = Started(def) \/ Met(e) => record'.arrivals = Started(def)
  <2>1. record.arrivals = Started(def) => record'.arrivals = Started(def)
    BY <1>r, <1>1
  <2>2. Met(e) => record'.arrivals = Started(def)
    BY <1>2, <2>1, AllArrived DEF Met, BarrierKnown
  <2> QED BY <2>1, <2>2
<1>4. \A q \in Runs : run'[q].status = run[q].status
  BY <1>1 DEF Apart
<1>5. ASSUME NEW q \in Runs, Success(q)' PROVE record'.arrivals = Started(def)
  <2>1. Success(q) \/ Met(e)
    BY <1>o, <1>1, <1>4, <1>5 DEF Success
  <2> QED BY <1>3, <2>1 DEF BarrierKnown
<1>6. Started(def)' = Started(def)
  BY <1>1 DEF Started
<1> QED BY <1>o, <1>1, <1>2, <1>3, <1>5, <1>6 DEF BarrierKnown

LEMMA BarrierKept ==
    ASSUME OneDrive, BarrierKnown, UNCHANGED def, def.kind = "barrier" => record'.arrivals = record.arrivals,
           \A q \in Runs : Success(q)' => Success(q),
           \A e \in Engines : eng'[e].phase = "create" => eng[e].phase = "create" /\ eng'[e].verdict = eng[e].verdict
    PROVE  BarrierKnown'
<1>1. Started(def)' = Started(def)
  BY DEF Started
<1> QED BY <1>1 DEF BarrierKnown

LEMMA CooldownPasses ==
    ASSUME TypeOK, Shape, OneDrive, CooldownKnown, def.kind = "cooldown", NEW e \in Engines, SharedStep(e)
    PROVE  CooldownKnown'
<1> DEFINE r == eng[e].run
<1>f. r \in Runs
  BY Facts
<1>o. \A d \in Engines : d = e
  BY DEF OneDrive
<1> HIDE DEF r
<1>1. /\ eng'[e].run = r /\ UNCHANGED def /\ Apart(r) /\ Keeps(r, {"node", "tries", "age", "since", "status"})
      /\ run'[r].status = run[r].status \/ eng[e].phase = "skip_run"
      /\ CooldownFate(e)
  BY SharedFate DEF r, Proceeds
<1>2. \A q \in Runs : run'[q].passed = run[q].passed /\ run'[q].hole = run[q].hole
  BY <1>1 DEF Apart, Keeps, Fields
<1>3. SomebodyPassed => SomebodyPassed'
  BY <1>2 DEF SomebodyPassed
<1>4. ~Passing(e)
  BY <1>1 DEF CooldownFate, Passing
<1>5. record.status # "none" => SomebodyPassed
  BY <1>o, <1>4 DEF CooldownKnown
<1>6. record'.status # "none" => SomebodyPassed' \/ Passing(e)'
  BY <1>1, <1>3, <1>5 DEF CooldownFate
<1>7. eng'[e].phase \in {"skip", "skip_run"} => SomebodyPassed'
  BY <1>1, <1>3, <1>5 DEF CooldownFate, CooldownKnown
<1>8. \A q \in Runs : run'[q].status = "succeeded" => run[q].status = "succeeded" \/ eng[e].phase = "skip_run"
  BY <1>1 DEF Apart
<1>9. \A q \in Runs : run'[q].status = "succeeded" => SomebodyPassed'
  BY <1>3, <1>8 DEF CooldownKnown
<1> QED BY <1>o, <1>6, <1>7, <1>9 DEF CooldownKnown

LEMMA CommonShared ==
    ASSUME TypeOK, Shape, OneDrive, BarrierKnown, CooldownKnown, NEW e \in Engines, CommonStep(e)
    PROVE  BarrierKnown' /\ CooldownKnown'
<1>o. \A d \in Engines : d = e
  BY DEF OneDrive
<1>1. UNCHANGED <<def, record>> /\ DriveFate(e) /\ \A q \in Runs : RunFate(e, q)
  BY CommonTypes, CommonFate DEF Fate
<1>2. eng'[e].phase \notin {"create", "skip", "skip_run"}
  BY <1>1 DEF DriveFate
<1>3. BarrierKnown'
  <2>1. \A q \in Runs : Success(q)' => Success(q)
    BY <1>1 DEF RunFate
  <2> QED BY <1>o, <1>1, <1>2, <2>1, BarrierKept
<1>4. SomebodyPassed => SomebodyPassed'
  BY <1>1 DEF SomebodyPassed, RunFate
<1>5. Passing(e) => Passing(e)' \/ SomebodyPassed'
  <2>1. eng[e].run \in Runs
    BY Facts
  <2> QED BY <1>1, <2>1 DEF DriveFate, SomebodyPassed
<1>6. \A q \in Runs : run'[q].status = "succeeded" => run[q].status = "succeeded" \/ run'[q].passed
  BY <1>1 DEF RunFate
<1>7. \A q \in Runs : run'[q].passed => SomebodyPassed'
  BY DEF SomebodyPassed
<1>8. def.kind = "cooldown" => \A q \in Runs : run'[q].status = "succeeded" => SomebodyPassed'
  BY <1>4, <1>6, <1>7 DEF CooldownKnown
<1>9. CooldownKnown'
  BY <1>o, <1>1, <1>2, <1>4, <1>5, <1>8 DEF CooldownKnown
<1> QED BY <1>3, <1>9

LEMMA OutsideShared ==
    ASSUME TypeOK, Shape, OneDrive, BarrierKnown, CooldownKnown,
           WebService \/ (\E c \in Runs : BodyEnds(c)) \/ Operator \/ Faulty \/ Tick
    PROVE  BarrierKnown' /\ CooldownKnown'
<1>1. /\ UNCHANGED def /\ \A q \in Runs : OutsideFate(q)
      /\ UNCHANGED eng \/ \E e \in Engines : Dropped(e)
      /\ def.kind \in {"barrier", "cooldown"} =>
            record'.arrivals = record.arrivals /\ record'.status = record.status
  BY OutsideTypes, OutsideFates
<1>2. \A q \in Runs : /\ run[q].hole => run'[q].hole
                      /\ run[q].passed => run'[q].passed
                      /\ run'[q].status = "succeeded" => run[q].status = "succeeded"
  BY <1>1 DEF OutsideFate
<1>3. SomebodyPassed => SomebodyPassed'
  BY <1>2 DEF SomebodyPassed
<1>4. CASE UNCHANGED eng
  <2>1. \A q \in Runs : Success(q)' => Success(q)
    BY <1>2, <1>4 DEF Success, Passing
  <2>2. BarrierKnown'
    BY <1>1, <1>4, <2>1, BarrierKept
  <2>3. \A e \in Engines : Passing(e) => Passing(e)'
    BY <1>4 DEF Passing
  <2>4. CooldownKnown'
    BY <1>1, <1>2, <1>3, <1>4, <2>3 DEF CooldownKnown
  <2> QED BY <2>2, <2>4
<1>5. CASE \E e \in Engines : Dropped(e)
  <2>1. PICK e \in Engines : Dropped(e)
    BY <1>5
  <2>2. \A d \in Engines : d = e /\ eng'[d].phase = "idle"
    BY <2>1 DEF OneDrive, Dropped, Idle
  <2>3. \A q \in Runs : Success(q)' => Success(q)
    BY <1>2, <2>2 DEF Success, Passing
  <2>4. BarrierKnown'
    BY <1>1, <2>2, <2>3, BarrierKept
  <2>5. def.kind = "cooldown" /\ Passing(e) => SomebodyPassed'
    <3>1. eng[e].run \in Runs
      BY Facts
    <3> QED BY <2>1, <3>1 DEF Dropped, SomebodyPassed
  <2>6. CooldownKnown'
    BY <1>1, <1>2, <1>3, <2>2, <2>5 DEF CooldownKnown
  <2> QED BY <2>4, <2>6
<1> QED BY <1>1, <1>4, <1>5

-------------------------------------------------------------------------------

LEMMA SolidKept ==
    ASSUME TypeOK, Shape, Kindred, MapsArePlain, def.kind \in Parents, Steadfast, NEW c \in Runs, Solid(c)
    PROVE  Solid(c)' /\ run'[c].parent = run[c].parent /\ run'[c].index = run[c].index
<1>1. run[c].status = "succeeded" /\ IsChild(c) /\ ~Driven(c)
  BY DEF Solid
<1>2. Child(c)
  BY <1>1, PlainMaps DEF Parents, Child
<1>3. rows[c] = NoRows
  BY <1>1, <1>2 DEF Kindred, ChildrenRest, Terminal
<1>4. run'[c].status = "succeeded"
  BY <1>1, <1>2 DEF Steadfast, EndsHeld, Terminal
<1>5. IsChild(c)' /\ run'[c].parent = run[c].parent /\ run'[c].index = run[c].index /\ ~Driven(c)'
  BY <1>1, <1>3 DEF Steadfast
<1> QED BY <1>4, <1>5 DEF Solid

LEMMA ItemKept ==
    ASSUME TypeOK, Shape, Kindred, MapsArePlain, def.kind \in Parents, Steadfast, NEW r, NEW i, ItemDone(r, i)
    PROVE  ItemDone(r, i)'
<1>1. PICK c \in Runs : run[c].parent = r /\ run[c].index = i /\ Solid(c)
  BY DEF ItemDone
<1>2. Solid(c)' /\ run'[c].parent = r /\ run'[c].index = i
  BY <1>1, SolidKept
<1> QED BY <1>2 DEF ItemDone

LEMMA MapKept ==
    ASSUME TypeOK, Shape, Kindred, MapsArePlain, UNCHANGED def, Steadfast,
           def.kind = "map" =>
              /\ \A q \in Runs : \A i \in run'[q].frame.done : ItemDone(q, i)
              /\ \A d \in Engines : \A i \in eng'[d].frame.done : ItemDone(eng'[d].run, i)
              /\ \A q \in Runs : Success(q)' /\ ~IsChild(q)' => \A i \in 0..(def.items - 1) : ItemDone(q, i)
    PROVE  MapKnown'
<1> SUFFICES ASSUME def.kind = "map"
             PROVE  /\ \A q \in Runs : \A i \in run'[q].frame.done : ItemDone(q, i)'
                    /\ \A d \in Engines : \A i \in eng'[d].frame.done : ItemDone(eng[d].run, i)'
                    /\ \A q \in Runs : Success(q)' /\ ~IsChild(q)' => \A i \in 0..(def.items - 1) : ItemDone(q, i)'
  BY DEF MapKnown
<1>p. def.kind \in Parents
  BY DEF Parents
<1>1. \A q \in Runs : \A i \in run'[q].frame.done : ItemDone(q, i)'
  BY <1>p, ItemKept
<1>2. ASSUME NEW d \in Engines, NEW i \in eng'[d].frame.done PROVE ItemDone(eng[d].run, i)'
  <2>1. PICK q : q = eng'[d].run
    OBVIOUS
  <2>2. ItemDone(q, i)'
    BY <1>p, <1>2, <2>1, ItemKept
  <2> QED BY <2>1, <2>2 DEF ItemDone
<1>3. \A q \in Runs : Success(q)' /\ ~IsChild(q)' => \A i \in 0..(def.items - 1) : ItemDone(q, i)'
  BY <1>p, ItemKept
<1> QED BY <1>1, <1>2, <1>3

LEMMA SubflowKept ==
    ASSUME TypeOK, Shape, Kindred, MapsArePlain, UNCHANGED def, Steadfast,
           def.kind = "subflow" /\ def.body # "detached" =>
              \A q \in Runs : Success(q)' /\ ~IsChild(q)' =>
                 run'[q].frame = run[q].frame /\ \A f \in run[q].frame.flight : Solid(f[2])
    PROVE  SubflowKnown'
<1> SUFFICES ASSUME def.kind = "subflow", def.body # "detached", NEW q \in Runs, Success(q)', ~IsChild(q)',
                    NEW f \in run'[q].frame.flight
             PROVE  Solid(f[2])'
  BY DEF SubflowKnown
<1>1. f \in run[q].frame.flight /\ Solid(f[2])
  OBVIOUS
<1>2. f[2] \in Runs
  BY <1>1, FlightType
<1> QED BY <1>1, <1>2, SolidKept DEF Parents

\* What the frames say is done is as it was.
LEMMA DoneInherited ==
    ASSUME TypeOK, MapKnown, def.kind = "map", Inherits
    PROVE  /\ \A q \in Runs : \A i \in run'[q].frame.done : ItemDone(q, i)
           /\ \A d \in Engines : \A i \in eng'[d].frame.done : ItemDone(eng'[d].run, i)
<1>1. NoFrame.done = {}
  BY DEF NoFrame
<1>2. /\ \A q \in Runs : \A i \in run[q].frame.done : ItemDone(q, i)
      /\ \A d \in Engines : \A i \in eng[d].frame.done : ItemDone(eng[d].run, i)
  BY DEF MapKnown
<1>3. ASSUME NEW q \in Runs, NEW i \in run'[q].frame.done PROVE ItemDone(q, i)
  BY <1>1, <1>2, <1>3 DEF Inherits, RunsInherit
<1>4. ASSUME NEW d \in Engines, NEW i \in eng'[d].frame.done PROVE ItemDone(eng'[d].run, i)
  BY <1>1, <1>2, <1>4 DEF Inherits, DriveInherits
<1> QED BY <1>3, <1>4

\* A step after which nobody has succeeded who had not before.
LEMMA ParentsKept ==
    ASSUME TypeOK, Shape, Kindred, MapsArePlain, UNCHANGED def, MapKnown, SubflowKnown, Steadfast, Inherits,
           \A q \in Runs : Success(q)' => Success(q),
           def.kind = "subflow" => \A q \in Runs : Success(q) => run'[q].frame = run[q].frame
    PROVE  MapKnown' /\ SubflowKnown'
<1>c. \A q \in Runs : ~IsChild(q)' => ~IsChild(q)
  BY DEF Steadfast
<1>1. MapKnown'
  <2>1. def.kind = "map" =>
           \A q \in Runs : Success(q)' /\ ~IsChild(q)' => \A i \in 0..(def.items - 1) : ItemDone(q, i)
    BY <1>c DEF MapKnown
  <2> QED BY <2>1, DoneInherited, MapKept
<1>2. SubflowKnown'
  <2>1. def.kind = "subflow" /\ def.body # "detached" =>
           \A q \in Runs : Success(q)' /\ ~IsChild(q)' =>
              run'[q].frame = run[q].frame /\ \A f \in run[q].frame.flight : Solid(f[2])
    BY <1>c DEF SubflowKnown
  <2> QED BY <2>1, SubflowKept
<1> QED BY <1>1, <1>2

\* A drive that goes on is no new one.
LEMMA DrivenOn ==
    ASSUME NEW e \in Engines, eng[e].phase # "idle", NEW p, NEW v, NEW fr, Moves(e, p, v, fr)
    PROVE  \A q \in Runs : Driven(q)' => Driven(q) \/ rows[q] # NoRows
  BY DEF Driven, Moves

LEMMA DriveEnded ==
    ASSUME NEW e \in Engines, eng'[e] = Idle, \A d \in Engines : d # e => eng'[d] = eng[d]
    PROVE  \A q \in Runs : Driven(q)' => Driven(q) \/ rows[q] # NoRows
<1>1. eng'[e].phase = "idle"
  BY DEF Idle
<1> QED BY <1>1 DEF Driven

LEMMA CommonDriven ==
    ASSUME TypeOK, NEW e \in Engines, CommonStep(e)
    PROVE  \A q \in Runs : Driven(q)' => Driven(q) \/ rows[q] # NoRows
<1>1. CASE \E q \in Runs : process_ready_node(e, q)
  <2>1. PICK q \in Runs : process_ready_node(e, q)
    BY <1>1
  <2>2. /\ rows[q].due > 0 /\ eng'[e].run = q
        /\ \A d \in Engines : d # e => eng'[d] = eng[d]
    BY <2>1, ClaimEffect
  <2>3. rows[q] # NoRows
    BY <2>2 DEF NoRows
  <2> QED BY <2>2, <2>3 DEF Driven
<1>2. CASE drive_ready_node(e)
  BY <1>2, DriveEndsEffect, DriveEnded
<1>3. CASE \/ StepStopped(e) \/ ParkNode(e) \/ ParkRun(e) \/ EnqueuePoll(e) \/ arm_node_timeout(e)
           \/ EnqueueNextPoll(e)
  <2>1. eng[e].phase # "idle" /\ \E p, v, fr : Moves(e, p, v, fr)
    BY <1>3, StepStoppedEffect, ParkNodeEffect, ParkRunEffect, EnqueuePollEffect, ArmEffect, RepollEffect
  <2> QED BY <2>1, DrivenOn
<1>4. CASE \/ SettleNode(e) \/ FinishRun(e) \/ RetryRun(e) \/ schedule_node_retry(e)
           \/ maybe_wake_subflow_parent(e)
  <2>1. eng[e].phase # "idle" /\ \E p, v, fr : Moves(e, p, v, fr)
    BY <1>4, SettleNodeEffect, FinishRunEffect, RetryRunEffect, BackoffEffect, HookEffect
  <2> QED BY <2>1, DrivenOn
<1> QED BY <1>1, <1>2, <1>3, <1>4 DEF CommonStep

LEMMA CommonParents ==
    ASSUME TypeOK, Shape, Kindred, OneDrive, MapsArePlain, LiveKnown, MapKnown, SubflowKnown,
           NEW e \in Engines, CommonStep(e)
    PROVE  MapKnown' /\ SubflowKnown'
<1>1. UNCHANGED def /\ EndsHeld /\ (\A q \in Runs : Fate(e, q)) /\ KinStable /\ Inherits
  BY CommonTypes, CommonFate, CommonKin
<1>2. Steadfast
  BY <1>1, CommonDriven DEF Steadfast, KinStable
<1>3. \A q \in Runs : Success(q)' => Success(q)
  BY <1>1 DEF Fate, RunFate
<1>4. ASSUME def.kind = "subflow", NEW q \in Runs, Success(q) PROVE run'[q].frame = run[q].frame
  <2>1. q = eng[e].run => eng[e].phase # "node"
    BY <1>4 DEF OneDrive, LiveKnown, Success, Passing, Mid
  <2> QED BY <1>1, <1>4, <2>1 DEF Fate, FrameFate
<1> QED BY <1>1, <1>2, <1>3, <1>4, ParentsKept

LEMMA OutsideParents ==
    ASSUME TypeOK, Shape, Kindred, OneDrive, MapsArePlain, MapKnown, SubflowKnown,
           WebService \/ (\E c \in Runs : BodyEnds(c)) \/ Operator \/ Faulty \/ Tick
    PROVE  MapKnown' /\ SubflowKnown'
<1>1. /\ UNCHANGED def /\ EndsHeld /\ (\A q \in Runs : OutsideFate(q))
      /\ (UNCHANGED eng \/ \E e \in Engines : Dropped(e))
  BY OutsideTypes, OutsideFates
<1>2. \A q \in Runs : Driven(q)' => Driven(q) \/ rows[q] # NoRows
  <2>1. CASE UNCHANGED eng
    BY <2>1 DEF Driven
  <2>2. CASE \E e \in Engines : Dropped(e)
    BY <2>2, DriveEnded DEF Dropped
  <2> QED BY <1>1, <2>1, <2>2
<1>3. Steadfast
  BY <1>1, <1>2 DEF Steadfast, OutsideFate
<1>4. Inherits
  <2>1. \A d \in Engines : eng'[d] = eng[d] \/ eng'[d].frame = NoFrame
    BY <1>1 DEF Dropped, Idle
  <2>2. \A q \in Runs : run'[q].frame = run[q].frame
    BY <1>1 DEF OutsideFate
  <2> QED BY <2>1, <2>2 DEF Inherits, RunsInherit, DriveInherits
<1>5. ASSUME NEW q \in Runs, Success(q)' PROVE Success(q)
  <2>1. run'[q].status = "succeeded" => run[q].status = "succeeded"
    BY <1>1 DEF OutsideFate
  <2>2. CASE UNCHANGED eng
    BY <1>5, <2>1, <2>2 DEF Success, Passing
  <2>3. CASE \E e \in Engines : Dropped(e)
    BY <1>5, <2>1, <2>3 DEF Success, Passing, OneDrive, Dropped, Idle
  <2> QED BY <1>1, <2>2, <2>3
<1>6. \A q \in Runs : run'[q].frame = run[q].frame
  BY <1>1 DEF OutsideFate
<1> QED BY <1>1, <1>3, <1>4, <1>5, <1>6, ParentsKept

-------------------------------------------------------------------------------
\* A handler that lets no run pass that is not a child.
LEMMA NobodyPasses ==
    ASSUME TypeOK, Shape, Kindred, OneDrive, MapsArePlain, LiveKnown, MapKnown, SubflowKnown, UNCHANGED def,
           NEW e \in Engines, Steadfast, eng'[e].run = eng[e].run, ~Passing(e)',
           \A q \in Runs : run'[q].status = "succeeded" => run[q].status = "succeeded" \/ IsChild(q)',
           \A q \in Runs : \/ run'[q].frame = run[q].frame
                           \/ q = eng[e].run /\ Mid(e) /\ run'[q].frame = NoFrame,
           def.kind = "map" => \A i \in eng'[e].frame.done : ItemDone(eng[e].run, i)
    PROVE  MapKnown' /\ SubflowKnown'
<1>o. \A d \in Engines : d = e
  BY DEF OneDrive
<1>1. ASSUME NEW q \in Runs, Success(q)', ~IsChild(q)'
      PROVE  Success(q) /\ ~IsChild(q) /\ run'[q].frame = run[q].frame
  <2>1. run[q].status = "succeeded"
    BY <1>o, <1>1 DEF Success
  <2>2. q = eng[e].run => ~Mid(e)
    BY <2>1 DEF LiveKnown
  <2> QED BY <1>1, <2>1, <2>2 DEF Success, Steadfast
<1>2. MapKnown'
  <2>1. ASSUME def.kind = "map"
        PROVE  /\ \A q \in Runs : \A i \in run'[q].frame.done : ItemDone(q, i)
               /\ \A d \in Engines : \A i \in eng'[d].frame.done : ItemDone(eng'[d].run, i)
               /\ \A q \in Runs : Success(q)' /\ ~IsChild(q)' => \A i \in 0..(def.items - 1) : ItemDone(q, i)
    <3>1. \A q \in Runs : \A i \in run'[q].frame.done : ItemDone(q, i)
      BY <2>1 DEF MapKnown, NoFrame
    <3>2. \A d \in Engines : \A i \in eng'[d].frame.done : ItemDone(eng'[d].run, i)
      BY <1>o, <2>1
    <3>3. \A q \in Runs : Success(q)' /\ ~IsChild(q)' => \A i \in 0..(def.items - 1) : ItemDone(q, i)
      BY <1>1, <2>1 DEF MapKnown
    <3> QED BY <3>1, <3>2, <3>3
  <2> QED BY <2>1, MapKept
<1>3. SubflowKnown'
  <2>1. def.kind = "subflow" /\ def.body # "detached" =>
           \A q \in Runs : Success(q)' /\ ~IsChild(q)' =>
              run'[q].frame = run[q].frame /\ \A f \in run[q].frame.flight : Solid(f[2])
    BY <1>1 DEF SubflowKnown
  <2> QED BY <2>1, SubflowKept
<1> QED BY <1>2, <1>3

\* A handler that has seen all children of its node succeed.
LEMMA ParentPasses ==
    ASSUME TypeOK, Shape, Kindred, OneDrive, MapsArePlain, MapKnown, SubflowKnown, UNCHANGED <<def, run>>,
           NEW e \in Engines, eng[e].phase # "idle", Settles(e, "succeeded"),
           def.kind = "map" => \A i \in 0..(def.items - 1) : ItemDone(eng[e].run, i),
           def.kind = "subflow" /\ def.body # "detached" =>
              \A f \in run[eng[e].run].frame.flight : Solid(f[2])
    PROVE  MapKnown' /\ SubflowKnown'
<1>o. \A d \in Engines : d = e
  BY DEF OneDrive
<1>e. eng'[e].run = eng[e].run /\ eng'[e].frame = eng[e].frame
  BY DEF Settles, Moves
<1>s. Steadfast
  <2>1. \A q \in Runs : Driven(q)' => Driven(q) \/ rows[q] # NoRows
    BY DrivenOn DEF Settles
  <2> QED BY <2>1, EndsSame DEF Steadfast, IsChild
<1>1. \A q \in Runs : Success(q)' => Success(q) \/ q = eng[e].run
  BY <1>o, <1>e DEF Success
<1>2. MapKnown'
  <2>1. ASSUME def.kind = "map"
        PROVE  /\ \A q \in Runs : \A i \in run'[q].frame.done : ItemDone(q, i)
               /\ \A d \in Engines : \A i \in eng'[d].frame.done : ItemDone(eng'[d].run, i)
               /\ \A q \in Runs : Success(q)' /\ ~IsChild(q)' => \A i \in 0..(def.items - 1) : ItemDone(q, i)
    <3>1. \A q \in Runs : \A i \in run'[q].frame.done : ItemDone(q, i)
      BY <2>1 DEF MapKnown
    <3>2. \A d \in Engines : \A i \in eng'[d].frame.done : ItemDone(eng'[d].run, i)
      BY <1>o, <1>e, <2>1 DEF MapKnown
    <3>3. \A q \in Runs : ~IsChild(q)' => ~IsChild(q)
      BY DEF IsChild
    <3>4. \A q \in Runs : Success(q)' /\ ~IsChild(q)' => \A i \in 0..(def.items - 1) : ItemDone(q, i)
      BY <1>1, <2>1, <3>3 DEF MapKnown
    <3> QED BY <3>1, <3>2, <3>4
  <2> QED BY <1>s, <2>1, MapKept
<1>3. SubflowKnown'
  <2>1. \A q \in Runs : run'[q].frame = run[q].frame /\ (~IsChild(q)' => ~IsChild(q))
    BY DEF IsChild
  <2>2. def.kind = "subflow" /\ def.body # "detached" =>
           \A q \in Runs : Success(q)' /\ ~IsChild(q)' =>
              run'[q].frame = run[q].frame /\ \A f \in run[q].frame.flight : Solid(f[2])
    BY <1>1, <2>1 DEF SubflowKnown
  <2> QED BY <1>s, <2>2, SubflowKept
<1> QED BY <1>2, <1>3

\* A child on record that has succeeded: its parent's drive leaves it alone.
LEMMA SolidOnRecord ==
    ASSUME TypeOK, Shape, Kindred, OneDrive, def.kind \in Parents, NEW e \in Engines, NEW r, r = eng[e].run,
           r \in Runs, eng[e].phase # "idle",
           NEW f \in run[r].frame.flight, run[f[2]].status = "succeeded"
    PROVE  Solid(f[2]) /\ f[2] \in Runs /\ (def.kind = "map" => run[f[2]].parent = r /\ run[f[2]].index = f[1])
<1>1. Family(r, run[r].frame.flight) /\ f[2] \in Runs
  BY FlightType DEF Kindred, Families
<1>2. f[2] # r /\ IsChild(f[2]) /\ (def.kind = "map" => run[f[2]].parent = r /\ run[f[2]].index = f[1])
  BY <1>1 DEF Family
<1>3. ~Driven(f[2])
  BY <1>2 DEF Driven, OneDrive
<1> QED BY <1>1, <1>2, <1>3 DEF Solid

\* A frame with no child in flight and nothing to come has all items done.
LEMMA AllDone ==
    ASSUME TypeOK, NEW fr \in Frames, Tally(fr), fr.flight = {}, fr.next >= def.items
    PROVE  \A i \in 0..(def.items - 1) : i \in fr.done
<1>1. fr.next \in Nat /\ def.items \in Nat
  BY ScenariosAssumption DEF Frames, TypeOK, Scenario
<1> TAKE i \in 0..(def.items - 1)
<1>2. i \in Nat /\ i < fr.next
  BY <1>1
<1> QED BY <1>2 DEF Tally

\* What a handler that starts no child does to the others.
LEMMA HandlerSteadfast ==
    ASSUME NEW e \in Engines, eng[e].phase # "idle", NEW p, NEW v, NEW fr, Moves(e, p, v, fr),
           EndsHeld, \A q \in Runs : /\ run'[q].parent = run[q].parent /\ run'[q].index = run[q].index
                                     /\ IsChild(q) => IsChild(q)'
    PROVE  Steadfast
  BY DrivenOn DEF Steadfast

LEMMA SpawnSteadfast ==
    ASSUME TypeOK, Shape, NEW e \in Engines, eng[e].phase # "idle", NEW p, NEW v, NEW fr, Moves(e, p, v, fr),
           NEW r, NEW c, NEW i, Spawns(r, c, i)
    PROVE  Steadfast /\ \A q \in Runs : run'[q].frame = run[q].frame
                                        /\ (run'[q].status = "succeeded" => run[q].status = "succeeded")
<1>1. /\ c \in Runs /\ ~Present(c) /\ Apart(c) /\ run'[c].status = "queued"
      /\ Keeps(c, {"status", "parent", "linked", "body", "index", "node"})
  BY DEF Spawns
<1>2. ~IsChild(c) /\ run[c].status \notin Terminal /\ run'[c].frame = run[c].frame
  BY <1>1 DEF Shape, Presence, Blank, IsChild, Present, Terminal, Keeps, Fields
<1>3. EndsHeld
  BY <1>1, <1>2, EndsApart, ApartIsLike
<1>4. \A q \in Runs : IsChild(q) => /\ IsChild(q)'
                                    /\ run'[q].parent = run[q].parent /\ run'[q].index = run[q].index
  BY <1>1, <1>2 DEF Apart, IsChild
<1>5. Steadfast
  BY <1>3, <1>4, DrivenOn DEF Steadfast
<1> QED BY <1>1, <1>2, <1>5 DEF Apart

LEMMA ChildProceeds ==
    ASSUME TypeOK, Shape, Kindred, NEW e \in Engines, ChildStep(e)
    PROVE  Proceeds(e)
<1> DEFINE r == eng[e].run
<1>f. r \in Runs /\ Present(r) /\ PhaseFits(eng[e].phase)
  BY Facts
<1>h. ASSUME eng'[e].run = r, eng'[e].phase = "hook" PROVE Proceeds(e)
  BY <1>h DEF Proceeds, Mid
<1>d. ASSUME eng'[e].run = r, AtStep(e) \/ Mid(e), run'[r].status = run[r].status PROVE Proceeds(e)
  BY <1>d DEF Proceeds
<1> HIDE DEF r
<1>1. CASE StartBody(e) \/ FinishChild(e) \/ AwaitBody(e)
  BY <1>1, <1>h, StartBodyEffect, FinishChildEffect, AwaitBodyEffect DEF Goes, Moves, r
<1>2. CASE process_map_node(e) \/ process_subflow_node(e)
  <2>1. AtStep(e) /\ UNCHANGED run /\ \E p, v : Moves(e, p, v, eng[e].frame)
    BY <1>2, MapEffect, SubflowEffect DEF Goes, Settles
  <2> QED BY <1>d, <2>1 DEF Moves, r
<1>3. CASE CreateMap(e)
  <2>1. /\ eng[e].phase = "create" /\ Goes(e, "harvest") /\ Keeps(r, {"node", "tries", "age"})
    BY <1>3, CreateMapEffect DEF r
  <2> QED BY <1>d, <2>1 DEF Goes, Moves, Keeps, Fields, Mid, r
<1>4. CASE Harvest(e)
  <2>1. UNCHANGED run /\ eng[e].phase = "harvest" /\ eng'[e].run = eng[e].run
    BY <1>4, HarvestEffect DEF Goes, Moves
  <2> QED BY <1>d, <2>1 DEF Mid, r
<1>5. CASE cancel_children(e)
  <2>1. /\ eng[e].phase = "cancel"
        /\ \/ UNCHANGED run /\ eng'[e].run = eng[e].run
           \/ \E c \in Runs : /\ \E f \in run[r].frame.flight : f[2] = c
                              /\ UNCHANGED eng /\ Apart(c)
    BY <1>5, CancelChildrenEffect DEF r, Settles, Moves
  <2>2. Family(r, run[r].frame.flight)
    BY <1>f, <2>1 DEF Kindred, Families, PhaseFits, Parents
  <2>3. run'[r].status = run[r].status /\ eng'[e].run = eng[e].run
    BY <1>f, <2>1, <2>2 DEF Family, Apart
  <2> QED BY <1>d, <2>1, <2>3 DEF Mid, r
<1>6. CASE FanOut(e)
  <2>1. /\ eng[e].phase = "fan" /\ eng'[e].run = eng[e].run
        /\ UNCHANGED run \/ \E c \in Runs : Spawns(r, c, eng[e].frame.next)
    BY <1>6, FanOutEffect DEF r, Settles, Goes, Moves
  <2>2. run'[r].status = run[r].status
    BY <1>f, <2>1 DEF Spawns, Apart
  <2> QED BY <1>d, <2>1, <2>2 DEF Mid, r
<1>7. CASE ReuseRun(e)
  <2>1. eng[e].phase = "spawn" /\ eng'[e].run = eng[e].run /\ Like(r)
    BY <1>7, ReuseRunEffect DEF r, Links, Moves
  <2> QED BY <1>d, <2>1 DEF Like, Keeps, Fields, Mid, r
<1>8. CASE create_subflow_run(e)
  <2>1. eng[e].phase = "spawn" /\ eng'[e].run = eng[e].run /\ \E c \in Runs : Spawns(r, c, 0)
    BY <1>8, CreateSubflowRunEffect DEF r, Links, Moves
  <2>2. run'[r].status = run[r].status
    BY <1>f, <2>1 DEF Spawns, Apart
  <2> QED BY <1>d, <2>1, <2>2 DEF Mid, r
<1>9. CASE CreateSubflow(e)
  <2>1. /\ eng[e].phase = "create" /\ Keeps(r, {"node", "tries", "age", "frame"}) /\ eng'[e].run = eng[e].run
    BY <1>9, CreateSubflowEffect DEF r, Goes, Moves
  <2> QED BY <1>d, <2>1 DEF Keeps, Fields, Mid, r
<1>10. CASE LinkSubflow(e)
  <2>1. /\ eng[e].phase = "link" /\ Keeps(r, {"node", "frame"}) /\ eng'[e].run = eng[e].run
    BY <1>10, LinkSubflowEffect DEF r, Settles, Moves
  <2> QED BY <1>d, <2>1 DEF Keeps, Fields, Mid, r
<1> QED BY <1>1, <1>2, <1>3, <1>4, <1>5, <1>6, <1>7, <1>8, <1>9, <1>10 DEF ChildStep

LEMMA ChildParents ==
    ASSUME TypeOK, Shape, Kindred, OneDrive, MapsArePlain, LiveKnown, MapKnown, SubflowKnown,
           NEW e \in Engines, ChildStep(e)
    PROVE  MapKnown' /\ SubflowKnown'
<1> DEFINE r == eng[e].run
<1>f. r \in Runs /\ Present(r) /\ PhaseFits(eng[e].phase)
  BY Facts
<1>u. UNCHANGED def
  BY ChildTypes
<1>k. def.kind = "map" => \A i \in eng[e].frame.done : ItemDone(eng[e].run, i)
  BY DEF MapKnown
<1>n. ASSUME Steadfast, eng'[e].run = eng[e].run, eng'[e].frame.done = eng[e].frame.done, ~Passing(e)',
             \A q \in Runs : run'[q].status = "succeeded" => run[q].status = "succeeded" \/ IsChild(q)',
             \A q \in Runs : run'[q].frame = run[q].frame \/ (q = eng[e].run /\ Mid(e) /\ run'[q].frame = NoFrame)
      PROVE  MapKnown' /\ SubflowKnown'
  BY <1>n, <1>u, <1>k, NobodyPasses
<1>q. ASSUME UNCHANGED run, eng[e].phase # "idle", NEW p, NEW v, Moves(e, p, v, eng[e].frame),
             p # "settle" \/ v # "succeeded", p # "finish"
      PROVE  MapKnown' /\ SubflowKnown'
  <2>1. Steadfast
    BY <1>q, EndsSame, HandlerSteadfast DEF IsChild
  <2>2. eng'[e].run = eng[e].run /\ eng'[e].frame = eng[e].frame /\ ~Passing(e)'
    BY <1>q DEF Moves, Passing
  <2> QED BY <1>n, <1>q, <2>1, <2>2
<1> HIDE DEF r
<1>1. CASE StartBody(e)
  <2>1. /\ AtStep(e) /\ Goes(e, "hook") /\ run'[r].body = "busy"
        /\ \/ Keeps(r, {"body", "linked", "hole"}) /\ LikeApart(r)
           \/ Keeps(r, {"body"}) /\ Apart(r)
    BY <1>1, StartBodyEffect DEF r
  <2>2. \A q \in Runs : /\ run'[q].parent = run[q].parent /\ run'[q].index = run[q].index
                        /\ run'[q].frame = run[q].frame /\ run'[q].status = run[q].status
                        /\ q # r => run'[q].body = run[q].body
    BY <2>1 DEF Keeps, Apart, LikeApart, Like, Fields
  <2>3. \A q \in Runs : IsChild(q) => IsChild(q)'
    BY <2>1, <2>2 DEF IsChild
  <2>4. Steadfast
    BY <2>1, <2>2, <2>3, EndsSame, HandlerSteadfast DEF Goes, AtStep
  <2>5. eng'[e].run = eng[e].run /\ eng'[e].frame = eng[e].frame /\ ~Passing(e)'
    BY <2>1 DEF Goes, Moves, Passing
  <2> QED BY <1>n, <2>2, <2>4, <2>5
<1>2. CASE FinishChild(e)
  <2>1. AtStep(e) /\ Goes(e, "hook") /\ IsChild(r) /\ Keeps(r, {"status"}) /\ Apart(r)
    BY <1>2, FinishChildEffect DEF r
  <2>2. \A q \in Runs : /\ run'[q].parent = run[q].parent /\ run'[q].index = run[q].index
                        /\ run'[q].frame = run[q].frame /\ run'[q].body = run[q].body
                        /\ q # r => run'[q].status = run[q].status
    BY <2>1 DEF Keeps, Apart, Fields
  <2>3. EndsHeld
    BY <1>f, <2>1, EndsApart, ApartIsLike DEF AtStep, Active, r
  <2>4. Steadfast
    BY <2>1, <2>2, <2>3, HandlerSteadfast DEF Goes, AtStep, IsChild
  <2>5. eng'[e].run = eng[e].run /\ eng'[e].frame = eng[e].frame /\ ~Passing(e)'
    BY <2>1 DEF Goes, Moves, Passing
  <2>6. \A q \in Runs : run'[q].status = "succeeded" => run[q].status = "succeeded" \/ IsChild(q)'
    BY <2>1, <2>2 DEF IsChild
  <2> QED BY <1>n, <2>2, <2>4, <2>5, <2>6
<1>3. CASE AwaitBody(e)
  BY <1>3, <1>q, AwaitBodyEffect DEF Goes, AtStep
<1>4. CASE process_map_node(e)
  <2>1. /\ UNCHANGED run /\ AtStep(e)
        /\ \/ Moves(e, "create", eng[e].verdict, eng[e].frame)
           \/ Moves(e, "settle", "timed_out", eng[e].frame)
           \/ Moves(e, "harvest", eng[e].verdict, eng[e].frame)
    BY <1>4, MapEffect DEF Goes, Settles
  <2> QED BY <1>q, <2>1 DEF AtStep
<1>5. CASE CreateMap(e)
  <2>1. /\ eng[e].phase = "create" /\ Goes(e, "harvest") /\ Keeps(r, {"node", "tries", "age"}) /\ Apart(r)
    BY <1>5, CreateMapEffect DEF r
  <2>2. \A q \in Runs : /\ run'[q].parent = run[q].parent /\ run'[q].index = run[q].index
                        /\ run'[q].frame = run[q].frame /\ run'[q].body = run[q].body
                        /\ run'[q].status = run[q].status
    BY <2>1 DEF Keeps, Apart, Fields
  <2>3. Steadfast
    BY <2>1, <2>2, EndsSame, HandlerSteadfast DEF Goes, IsChild
  <2>4. eng'[e].run = eng[e].run /\ eng'[e].frame = eng[e].frame /\ ~Passing(e)'
    BY <2>1 DEF Goes, Moves, Passing
  <2> QED BY <1>n, <2>2, <2>3, <2>4
<1>6. CASE Harvest(e)
  <2>1. /\ UNCHANGED run /\ eng[e].phase = "harvest"
        /\ \/ Goes(e, "cancel")
           \/ /\ ~flight_failed(run[r].frame.flight)
              /\ Moves(e, "fan", eng[e].verdict, eng'[e].frame)
              /\ Harvested(eng'[e].frame, run[r].frame)
    BY <1>6, HarvestEffect DEF r
  <2>2. CASE Goes(e, "cancel")
    BY <1>q, <2>1, <2>2 DEF Goes
  <2>3. CASE /\ ~flight_failed(run[r].frame.flight)
             /\ Moves(e, "fan", eng[e].verdict, eng'[e].frame)
             /\ Harvested(eng'[e].frame, run[r].frame)
    <3>1. Steadfast
      BY <2>1, <2>3, EndsSame, HandlerSteadfast DEF IsChild
    <3>2. eng'[e].run = eng[e].run /\ ~Passing(e)'
      BY <2>3 DEF Moves, Passing
    <3>3. ASSUME def.kind = "map", NEW i \in eng'[e].frame.done PROVE ItemDone(r, i)
      <4>1. CASE i \in run[r].frame.done
        BY <1>f, <3>3, <4>1 DEF MapKnown
      <4>2. CASE \E f \in run[r].frame.flight : f[1] = i /\ run[f[2]].status \in Terminal
        <5>1. PICK f \in run[r].frame.flight : f[1] = i /\ run[f[2]].status \in Terminal
          BY <4>2
        <5>2. run[f[2]].status = "succeeded"
          BY <2>3, <5>1 DEF flight_failed, Failed
        <5>3. Solid(f[2]) /\ f[2] \in Runs /\ run[f[2]].parent = r /\ run[f[2]].index = i
          BY <1>f, <2>1, <3>3, <5>1, <5>2, SolidOnRecord DEF Parents, r
        <5> QED BY <5>3 DEF ItemDone
      <4> QED BY <2>3, <3>3, <4>1, <4>2 DEF Harvested
    <3> QED BY <1>u, <2>1, <3>1, <3>2, <3>3, NobodyPasses DEF r
  <2> QED BY <2>1, <2>2, <2>3
<1>7. CASE cancel_children(e)
  <2>1. /\ eng[e].phase = "cancel"
        /\ \/ UNCHANGED run /\ Settles(e, "failed")
           \/ \E c \in Runs : /\ Active(c) /\ UNCHANGED eng /\ Keeps(c, {"status"}) /\ Apart(c)
                              /\ run'[c].status = "canceled"
    BY <1>7, CancelChildrenEffect DEF r
  <2>2. CASE UNCHANGED run /\ Settles(e, "failed")
    BY <1>q, <2>1, <2>2 DEF Settles
  <2>3. CASE \E c \in Runs : /\ Active(c) /\ UNCHANGED eng /\ Keeps(c, {"status"}) /\ Apart(c)
                             /\ run'[c].status = "canceled"
    <3>1. PICK c \in Runs : /\ Active(c) /\ UNCHANGED eng /\ Keeps(c, {"status"}) /\ Apart(c)
                            /\ run'[c].status = "canceled"
      BY <2>3
    <3>2. EndsHeld
      BY <3>1, EndsApart, ApartIsLike DEF Active
    <3>3. \A q \in Runs : /\ run'[q].parent = run[q].parent /\ run'[q].index = run[q].index
                          /\ run'[q].frame = run[q].frame /\ run'[q].body = run[q].body
                          /\ q # c => run'[q].status = run[q].status
      BY <3>1 DEF Keeps, Apart, Fields
    <3>4. Steadfast
      BY <3>1, <3>2, <3>3 DEF Steadfast, Driven, IsChild
    <3>5. eng'[e] = eng[e] /\ ~Passing(e)'
      BY <2>1, <3>1 DEF Passing
    <3>6. \A q \in Runs : run'[q].status = "succeeded" => run[q].status = "succeeded"
      BY <3>1, <3>3
    <3> QED BY <1>n, <3>3, <3>4, <3>5, <3>6
  <2> QED BY <2>1, <2>2, <2>3
<1>8. CASE FanOut(e)
  <2>1. /\ eng[e].phase = "fan"
        /\ \/ \E c \in Runs :
                 /\ Spawns(r, c, eng[e].frame.next) /\ Moves(e, "fan", eng[e].verdict, eng'[e].frame)
                 /\ eng'[e].frame.done = eng[e].frame.done
           \/ UNCHANGED run /\ Goes(e, "node")
           \/ UNCHANGED run /\ Settles(e, "succeeded") /\ eng[e].frame.flight = {} /\ eng[e].frame.next >= def.items
    BY <1>8, FanOutEffect DEF r
  <2>2. CASE \E c \in Runs :
                 /\ Spawns(r, c, eng[e].frame.next) /\ Moves(e, "fan", eng[e].verdict, eng'[e].frame)
                 /\ eng'[e].frame.done = eng[e].frame.done
    <3>1. PICK c \in Runs :
                 /\ Spawns(r, c, eng[e].frame.next) /\ Moves(e, "fan", eng[e].verdict, eng'[e].frame)
                 /\ eng'[e].frame.done = eng[e].frame.done
      BY <2>2
    <3>2. Steadfast /\ \A q \in Runs : run'[q].frame = run[q].frame
                                       /\ (run'[q].status = "succeeded" => run[q].status = "succeeded")
      BY <2>1, <3>1, SpawnSteadfast
    <3>3. eng'[e].run = eng[e].run /\ ~Passing(e)'
      BY <3>1 DEF Moves, Passing
    <3> QED BY <1>n, <3>1, <3>2, <3>3
  <2>3. CASE UNCHANGED run /\ Goes(e, "node")
    BY <1>q, <2>1, <2>3 DEF Goes
  <2>4. CASE UNCHANGED run /\ Settles(e, "succeeded") /\ eng[e].frame.flight = {} /\ eng[e].frame.next >= def.items
    <3>1. def.kind = "map"
      BY <1>f, <2>1 DEF PhaseFits
    <3>2. eng[e].frame \in Frames /\ Tally(eng[e].frame)
      BY <3>1, FlightType DEF Kindred, Tallies
    <3>3. \A i \in 0..(def.items - 1) : ItemDone(eng[e].run, i)
      BY <1>k, <2>4, <3>1, <3>2, AllDone
    <3> QED BY <1>u, <2>1, <2>4, <3>1, <3>3, ParentPasses
  <2> QED BY <2>1, <2>2, <2>3, <2>4
<1>9. CASE process_subflow_node(e)
  <2>1. /\ UNCHANGED run /\ AtStep(e) /\ def.kind = "subflow"
        /\ \/ Moves(e, "spawn", eng[e].verdict, eng[e].frame)
           \/ Moves(e, "settle", "failed", eng[e].frame)
           \/ Moves(e, "settle", "timed_out", eng[e].frame)
           \/ Moves(e, "hook", eng[e].verdict, eng[e].frame)
           \/ /\ Settles(e, "succeeded")
              /\ def.body = "detached" \/ \A f \in run[r].frame.flight : run[f[2]].status = "succeeded"
    BY <1>9, SubflowEffect DEF Goes, Settles, r
  <2>2. CASE \/ Moves(e, "spawn", eng[e].verdict, eng[e].frame)
             \/ Moves(e, "settle", "failed", eng[e].frame)
             \/ Moves(e, "settle", "timed_out", eng[e].frame)
             \/ Moves(e, "hook", eng[e].verdict, eng[e].frame)
    BY <1>q, <2>1, <2>2 DEF AtStep
  <2>3. CASE /\ Settles(e, "succeeded")
             /\ def.body = "detached" \/ \A f \in run[r].frame.flight : run[f[2]].status = "succeeded"
    <3>1. eng[e].phase # "idle" /\ def.kind \in Parents
      BY <2>1 DEF AtStep, Parents
    <3>2. def.body # "detached" => \A f \in run[r].frame.flight : Solid(f[2])
      BY <1>f, <2>3, <3>1, SolidOnRecord DEF r
    <3> QED BY <1>u, <2>1, <2>3, <3>1, <3>2, ParentPasses DEF r
  <2> QED BY <2>1, <2>2, <2>3
<1>10. CASE ReuseRun(e)
  <2>1. eng[e].phase = "spawn" /\ (\E c \in Reusable : Links(e, c)) /\ Like(r) /\ LikeApart(r)
    BY <1>10, ReuseRunEffect DEF r
  <2>2. def.kind = "subflow" /\ Moves(e, "create", eng[e].verdict, eng'[e].frame)
    BY <1>f, <2>1 DEF PhaseFits, Links
  <2>3. \A q \in Runs : /\ run'[q].parent = run[q].parent /\ run'[q].index = run[q].index
                        /\ run'[q].frame = run[q].frame /\ run'[q].body = run[q].body
                        /\ run'[q].status = run[q].status
    BY <1>f, <2>1 DEF LikeApart, Like, Keeps, Fields
  <2>4. Steadfast
    BY <2>1, <2>2, <2>3, EndsSame, HandlerSteadfast DEF IsChild
  <2>5. eng'[e].run = eng[e].run /\ ~Passing(e)'
    BY <2>2 DEF Moves, Passing
  <2> QED BY <1>u, <2>2, <2>3, <2>4, <2>5, NobodyPasses
<1>11. CASE create_subflow_run(e)
  <2>1. eng[e].phase = "spawn" /\ \E c \in Runs : Links(e, c) /\ Spawns(r, c, 0)
    BY <1>11, CreateSubflowRunEffect DEF r
  <2>2. PICK c \in Runs : Spawns(r, c, 0) /\ Moves(e, "create", eng[e].verdict, eng'[e].frame)
    BY <2>1 DEF Links
  <2>3. Steadfast /\ \A q \in Runs : run'[q].frame = run[q].frame
                                     /\ (run'[q].status = "succeeded" => run[q].status = "succeeded")
    BY <2>1, <2>2, SpawnSteadfast
  <2>4. eng'[e].run = eng[e].run /\ ~Passing(e)' /\ def.kind = "subflow"
    BY <1>f, <2>1, <2>2 DEF Moves, Passing, PhaseFits
  <2> QED BY <1>u, <2>3, <2>4, NobodyPasses
<1>12. CASE CreateSubflow(e)
  <2>1. /\ eng[e].phase = "create" /\ Keeps(r, {"node", "tries", "age", "frame"}) /\ Apart(r)
        /\ run'[r].frame = NoFrame /\ (Goes(e, "link") \/ Goes(e, "node"))
    BY <1>12, CreateSubflowEffect DEF r
  <2>2. \A q \in Runs : /\ run'[q].parent = run[q].parent /\ run'[q].index = run[q].index
                        /\ run'[q].body = run[q].body /\ run'[q].status = run[q].status
                        /\ run'[q].frame = run[q].frame \/ (q = r /\ run'[q].frame = NoFrame)
    BY <2>1 DEF Keeps, Apart, Fields
  <2>3. Steadfast
    BY <2>1, <2>2, EndsSame, HandlerSteadfast DEF IsChild, Goes
  <2>4. eng'[e].run = eng[e].run /\ eng'[e].frame = eng[e].frame /\ ~Passing(e)' /\ Mid(e)
    BY <2>1 DEF Moves, Passing, Goes, Mid
  <2> QED BY <1>n, <2>2, <2>3, <2>4 DEF r
<1>13. CASE LinkSubflow(e)
  <2>1. eng[e].phase = "link"
    BY <1>13 DEF LinkSubflow
  <2>2. def.kind = "subflow" /\ def.body = "detached"
    BY <1>f, <2>1 DEF PhaseFits
  <2> QED BY <1>u, <2>2 DEF MapKnown, SubflowKnown
<1> QED BY <1>1, <1>2, <1>3, <1>4, <1>5, <1>6, <1>7, <1>8, <1>9, <1>10, <1>11, <1>12, <1>13 DEF ChildStep

-------------------------------------------------------------------------------
LEMMA WaitingKinds ==
    ASSUME TypeOK, Shape, NEW e \in Engines, WaitingStep(e)
    PROVE  def.kind \notin {"barrier", "cooldown"}
<1>1. CASE CreateRecord(e)
  <2>1. eng[e].phase = "record" /\ PhaseFits(eng[e].phase)
    BY <1>1, CreateRecordEffect, Facts
  <2> QED BY <2>1 DEF PhaseFits
<1>2. CASE CreateWaiting(e)
  BY <1>2 DEF CreateWaiting, Waits
<1>3. CASE process_signal_node(e) \/ process_approval_node(e) \/ process_input_node(e)
  BY <1>3, StampedEffect, InputEffect
<1>4. CASE \/ process_wait_node(e) \/ process_debounce_node(e) \/ process_gate_node(e)
           \/ process_await_run_node(e) \/ process_event_source_node(e) \/ process_collect_node(e)
  BY <1>4, WatchedEffect DEF Watchers
<1> QED BY <1>1, <1>2, <1>3, <1>4 DEF WaitingStep

LEMMA NextSuccess ==
    ASSUME TypeOK, Shape, Kindred, OneDrive, MapsArePlain, SuccessKnown, [Next]_vars
    PROVE  SuccessKnown'
<1>u. UNCHANGED def
  BY NextTypes
<1>k. LiveKnown /\ WaitsKnown /\ BarrierKnown /\ CooldownKnown /\ MapKnown /\ SubflowKnown
  BY DEF SuccessKnown
<1>1. CASE \E e \in Engines : EngineStep(e)
  <2>1. PICK e \in Engines : EngineStep(e)
    BY <1>1
  <2>2. CASE CommonStep(e)
    BY <1>k, <2>2, CommonLive, CommonWaits, CommonShared, CommonParents DEF SuccessKnown
  <2>3. CASE WaitingStep(e)
    <3>1. LiveKnown' /\ WaitsKnown'
      BY <1>k, <2>3, WaitingFate, LiveKept, WaitingWaits
    <3>2. def.kind \notin Parents \cup {"barrier", "cooldown"}
      BY <2>3, WaitingShape, WaitingKinds
    <3> QED BY <1>u, <3>1, <3>2 DEF SuccessKnown, BarrierKnown, CooldownKnown, MapKnown, SubflowKnown, Parents
  <2>4. CASE SharedStep(e)
    <3>1. LiveKnown' /\ (def.kind = "barrier" => BarrierKnown') /\ (def.kind = "cooldown" => CooldownKnown')
      BY <1>k, <2>4, SharedFate, LiveKept, BarrierArrivals, CooldownPasses
    <3>2. def.kind \in {"barrier", "throttle", "cooldown"}
      BY <2>4, SharedShape
    <3> QED BY <1>u, <3>1, <3>2 DEF SuccessKnown, BarrierKnown, CooldownKnown, MapKnown, SubflowKnown, WaitsKnown, Answered
  <2>5. CASE ChildStep(e)
    <3>1. LiveKnown' /\ MapKnown' /\ SubflowKnown'
      BY <1>k, <2>5, ChildProceeds, LiveKept, ChildParents
    <3>2. def.kind \in Parents
      BY <2>5, ChildShape
    <3> QED BY <1>u, <3>1, <3>2 DEF SuccessKnown, BarrierKnown, CooldownKnown, WaitsKnown, Answered, Parents
  <2> QED BY <2>1, <2>2, <2>3, <2>4, <2>5 DEF EngineStep
<1>2. CASE WebService \/ (\E c \in Runs : BodyEnds(c)) \/ Operator \/ Faulty \/ Tick
  BY <1>2, <1>k, OutsideLive, OutsideWaits, OutsideShared, OutsideParents DEF SuccessKnown
<1>3. CASE UNCHANGED vars
  <2>1. UNCHANGED <<def, run, eng, rows, record>>
    BY <1>3 DEF vars
  <2>2. LiveKnown' /\ WaitsKnown'
    BY <1>k, <2>1 DEF LiveKnown, WaitsKnown, Mid, Success, Passing
  <2>3. BarrierKnown' /\ CooldownKnown'
    BY <1>k, <2>1 DEF BarrierKnown, CooldownKnown, Success, Passing, SomebodyPassed, Started
  <2>4. MapKnown' /\ SubflowKnown'
    BY <1>k, <2>1 DEF MapKnown, SubflowKnown, Success, Passing, ItemDone, Solid, Driven, IsChild
  <2> QED BY <2>2, <2>3, <2>4 DEF SuccessKnown
<1> QED BY <1>1, <1>2, <1>3 DEF Next

LEMMA InitSuccess == Init => SuccessKnown
<1> SUFFICES ASSUME Init PROVE SuccessKnown
  OBVIOUS
<1>1. /\ \A r \in Runs : run[r] = NewRun(def, r)
      /\ \A r \in Runs : run[r].status \in {"absent", "queued", "running"}
      /\ \A e \in Engines : eng[e] = Idle
      /\ record.status = "none" /\ record.arrivals = {}
  BY InitFacts DEF Init
<1>2. ASSUME NEW r \in Runs PROVE run[r].node = "none" /\ run[r].frame = NoFrame
  <2>1. run[r] = NewRun(def, r)
    BY <1>1
  <2> QED BY <2>1 DEF NewRun
<1>3. \A e \in Engines : eng[e].phase = "idle" /\ eng[e].frame = NoFrame
  BY <1>1 DEF Idle
<1>4. \A r \in Runs : ~Success(r)
  BY <1>1, <1>3 DEF Success, Passing
<1>5. LiveKnown /\ WaitsKnown
  BY <1>2, <1>3, <1>4 DEF LiveKnown, WaitsKnown, Mid
<1>6. BarrierKnown /\ CooldownKnown
  BY <1>1, <1>3, <1>4 DEF BarrierKnown, CooldownKnown
<1>7. NoFrame.done = {}
  BY DEF NoFrame
<1>8. MapKnown /\ SubflowKnown
  BY <1>2, <1>3, <1>4, <1>7 DEF MapKnown, SubflowKnown
<1> QED BY <1>5, <1>6, <1>8 DEF SuccessKnown

LEMMA SuccessIsKnown ==
    ASSUME SuccessKnown
    PROVE  SuccessIsBacked
<1> SUFFICES ASSUME NEW r \in Runs, run[r].status = "succeeded", ~IsChild(r)
             PROVE  /\ def.kind \in Answered => run[r].answered
                    /\ def.kind \in {"wait", "debounce"} => run[r].age = Timeout
                    /\ def.kind = "collect" => def.timed /\ run[r].age = Timeout
                    /\ def.kind # "event_source"
                    /\ def.kind = "barrier" => record.arrivals = Started(def)
                    /\ def.kind = "cooldown" => \E s \in Runs : run[s].passed \/ run[s].hole
                    /\ def.kind = "map" => \A i \in 0..(def.items - 1) : \E c \in Runs :
                          run[c].parent = r /\ run[c].index = i /\ run[c].status = "succeeded"
                    /\ def.kind = "subflow" /\ def.body # "detached" =>
                          \A f \in run[r].frame.flight : run[f[2]].status = "succeeded"
  BY DEF SuccessIsBacked, Answered
<1>1. Success(r)
  BY DEF Success
<1>2. /\ def.kind \in Answered => run[r].answered
      /\ def.kind \in {"wait", "debounce"} => run[r].age = Timeout
      /\ def.kind = "collect" => def.timed /\ run[r].age = Timeout
      /\ def.kind # "event_source"
  BY <1>1 DEF SuccessKnown, WaitsKnown
<1>3. /\ def.kind = "barrier" => record.arrivals = Started(def)
      /\ def.kind = "cooldown" => \E s \in Runs : run[s].passed \/ run[s].hole
  BY <1>1 DEF SuccessKnown, BarrierKnown, CooldownKnown, SomebodyPassed
<1>4. /\ def.kind = "map" => \A i \in 0..(def.items - 1) : \E c \in Runs :
            run[c].parent = r /\ run[c].index = i /\ run[c].status = "succeeded"
      /\ def.kind = "subflow" /\ def.body # "detached" =>
            \A f \in run[r].frame.flight : run[f[2]].status = "succeeded"
  BY <1>1 DEF SuccessKnown, MapKnown, SubflowKnown, ItemDone, Solid
<1> QED BY <1>2, <1>3, <1>4

\* A run that succeeded got what it waited for: its answer, its delay, everybody's arrival,
\* the success of every item's child, and a skipped one had somebody pass; for any number of
\* runs, items, parties and times, and whatever crashes, cancellations, pauses and late
\* answers come between two writes of a drive: with one drive at a time, and for maps whose
\* bodies keep the state of their run.
THEOREM SuccessBacked ==
    ASSUME OneDrive, MapsArePlain
    PROVE  Spec => []SuccessIsBacked
<1>1. Init => TypeOK /\ Shape /\ Kindred /\ SuccessKnown
  BY InitTypes, InitShape, InitKindred, InitSuccess
<1>2. TypeOK /\ Shape /\ Kindred /\ SuccessKnown /\ [Next]_vars => (TypeOK /\ Shape /\ Kindred /\ SuccessKnown)'
  BY NextTypes, NextShape, NextKindred, NextSuccess
<1>3. SuccessKnown => SuccessIsBacked
  BY SuccessIsKnown
<1> QED BY <1>1, <1>2, <1>3, PTL DEF Spec

-------------------------------------------------------------------------------
(***************************************************************************)
(* Nobody is left behind.                                                  *)
(***************************************************************************)

\* A step that is about run r: another run is kept, if it waits for r because r goes on, has
\* its hook to come, or has woken it.
LEMMA Elsewhere ==
    ASSUME TypeOK, Shape, Kindred, UNCHANGED <<def, api>>, NEW r \in Runs, LikeApart(r),
           \A q \in Runs : q # r /\ HasRow(q) => HasRow(q)',
           \A c \in Runs : c # r /\ AtHook(c) => AtHook(c)',
           Child(r) /\ run[r].linked /\ (Active(r) \/ AtHook(r)) =>
              \/ Active(r)' \/ AtHook(r)'
              \/ run'[run[r].parent].hole \/ (\E p \in Runs : p = run[r].parent /\ HasRow(p)'),
           NEW q \in Runs, q # r, Kept(q)
    PROVE  Kept(q)'
<1>1. /\ Like(q) /\ (run[q].hole => run'[q].hole)
      /\ run'[q].status = run[q].status /\ run'[q].node = run[q].node
      /\ run'[q].body = run[q].body /\ run'[q].frame = run[q].frame
  BY DEF LikeApart, Like, Keeps, Fields
<1>2. AnswerComes(q) => AnswerComes(q)'
  BY DEF AnswerComes
<1>3. ASSUME def.kind \in Parents, ~run'[q].hole, ~HasRow(q)',
             NEW f \in run[q].frame.flight, Working(f)
      PROVE  Working(f)'
  <2>1. f[2] \in Runs
    BY FlightType
  <2>2. /\ Present(f[2]) /\ IsChild(f[2]) /\ run[f[2]].parent = q /\ run[f[2]].linked
    BY <1>1, <1>3 DEF Kindred, Families, Family
  <2>3. CASE f[2] = r
    <3>1. Child(r)
      BY <2>2, <2>3 DEF Child
    <3>2. Active(r) \/ AtHook(r)
      BY <1>3, <2>3 DEF Working
    <3>3. Active(r)' \/ AtHook(r)'
      BY <1>3, <2>2, <2>3, <3>1, <3>2
    <3> QED BY <2>3, <3>3 DEF Working, Active, Present, AtHook
  <2>4. CASE f[2] # r
    <3>1. run'[f[2]].status = run[f[2]].status
      BY <2>1, <2>4 DEF LikeApart, Like, Keeps, Fields
    <3> QED BY <1>3, <2>1, <2>4, <3>1 DEF Working, Active, Present
  <2> QED BY <2>3, <2>4
<1>4. Awaits(q) => Awaits(q)' \/ run'[q].hole \/ HasRow(q)'
  BY <1>1, <1>3 DEF Awaits
<1> QED BY <1>1, <1>2, <1>4 DEF Kept, Excused

\* The steps that change nothing that matters here, or one status, or one body.
LEMMA StaysApart ==
    ASSUME TypeOK, Shape, Kindred, UNCHANGED <<def, api, eng>>, NEW r \in Runs, LikeApart(r),
           \A q \in Runs : q # r => (HasRow(q) => HasRow(q)') /\ rows'[q].claimed = rows[q].claimed,
           run[r].hole => run'[r].hole,
           Child(r) /\ (Active(r) \/ AtHook(r)) =>
              Active(r)' \/ AtHook(r)' \/ run'[run[r].parent].hole,
           Stays(r)
    PROVE  \A q \in Runs : Stays(q)
<1> SUFFICES ASSUME NEW q \in Runs, q # r PROVE Stays(q)
  OBVIOUS
<1>0. \A c \in Runs : AtHook(c) => AtHook(c)'
  BY DEF AtHook
<1>1. Kept(q) => Kept(q)'
  BY <1>0, Elsewhere
<1>2. /\ run[q].hole => run'[q].hole
      /\ run'[q].status = run[q].status /\ run'[q].node = run[q].node
      /\ run'[q].frame = run[q].frame
  BY DEF LikeApart, Like, Keeps, Fields
<1>3. AnswerComes(q) => AnswerComes(q)'
  BY DEF AnswerComes
<1>4. Assured(q) => Assured(q)'
  BY <1>2, <1>3 DEF Assured
<1>5. Active(q) => Active(q)'
  BY <1>2 DEF Active, Present
<1> QED BY <1>1, <1>2, <1>4, <1>5 DEF Stays

LEMMA OperatorStays ==
    ASSUME TypeOK, Shape, Kindred, Operator
    PROVE  UNCHANGED eng /\ \A q \in Runs : Stays(q)
<1>1. PICK r \in Runs : cancel_workflow_run(r) \/ pause_workflow_run(r) \/ resume_workflow_run(r)
  BY DEF Operator
<1>2. CASE cancel_workflow_run(r)
  <2>1. /\ UNCHANGED <<def, eng, api>> /\ RowsApart(r) /\ LikeApart(r) /\ Holed(r)
        /\ Keeps(r, {"status", "hole"}) /\ run'[r].status = "canceled"
    BY <1>2, CancelEffect
  <2>2. run'[r].frame = run[r].frame
    BY <2>1 DEF Keeps, Fields
  <2>3. Stays(r)
    BY <2>1, <2>2 DEF Stays, Holed, Kept, Excused, Assured
  <2>4. \A q \in Runs : q # r => (HasRow(q) => HasRow(q)') /\ rows'[q].claimed = rows[q].claimed
    BY <2>1 DEF RowsApart, HasRow
  <2> QED BY <2>1, <2>3, <2>4, StaysApart DEF Holed
<1>3. CASE pause_workflow_run(r) \/ resume_workflow_run(r)
  <2>1. /\ UNCHANGED <<def, rows, eng, api>> /\ Apart(r)
        /\ Active(r) /\ Keeps(r, {"status"}) /\ run'[r].status \in {"paused", "running"}
    BY <1>3, PauseEffect
  <2>2. /\ run'[r].hole = run[r].hole /\ run'[r].node = run[r].node /\ run'[r].body = run[r].body
        /\ run'[r].frame = run[r].frame
    BY <2>1 DEF Keeps, Fields
  <2>3. Active(r)'
    BY <2>1 DEF Active, Present, Terminal
  <2>4. \A q \in Runs : HasRow(q) => HasRow(q)'
    BY <2>1 DEF HasRow
  <2>5. ASSUME NEW f \in run[r].frame.flight, Working(f), def.kind \in Parents PROVE Working(f)'
    <3>1. f[2] \in Runs /\ f[2] # r
      BY <2>5, FlightType DEF Kindred, Families, Family
    <3>2. run'[f[2]] = run[f[2]]
      BY <2>1, <3>1 DEF Apart
    <3> QED BY <2>1, <2>5, <3>2 DEF Working, Active, Present, AtHook
  <2>6. Kept(r) => Kept(r)'
    BY <2>1, <2>2, <2>4, <2>5 DEF Kept, Excused, Awaits, AnswerComes, Active, Present
  <2>7. Assured(r) => Assured(r)'
    BY <2>1, <2>2, <2>4 DEF Assured, AnswerComes
  <2>8. Stays(r)
    BY <2>1, <2>2, <2>3, <2>4, <2>6, <2>7 DEF Stays, Active
  <2> QED BY <2>1, <2>2, <2>3, <2>4, <2>8, StaysApart, ApartIsLike
<1> QED BY <1>1, <1>2, <1>3

LEMMA BodyStays ==
    ASSUME TypeOK, Shape, Kindred, NEW c \in Runs, BodyEnds(c)
    PROVE  UNCHANGED eng /\ \A q \in Runs : Stays(q)
<1>1. /\ UNCHANGED <<def, eng, api>> /\ Active(c) /\ Keeps(c, {"body"}) /\ Apart(c)
      /\ RowsApart(c) /\ HasRow(c)'
  BY BodyEndsEffect
<1>2. /\ run'[c].hole = run[c].hole /\ run'[c].status = run[c].status /\ run'[c].frame = run[c].frame
  BY <1>1 DEF Keeps, Fields
<1>3. Active(c)'
  BY <1>1, <1>2 DEF Active, Present
<1>4. Stays(c)
  BY <1>1, <1>2, <1>3 DEF Stays, Kept, Assured
<1>5. \A q \in Runs : q # c => (HasRow(q) => HasRow(q)') /\ rows'[q].claimed = rows[q].claimed
  BY <1>1 DEF RowsApart, HasRow
<1> QED BY <1>1, <1>2, <1>3, <1>4, <1>5, StaysApart, ApartIsLike

LEMMA TickStays ==
    ASSUME TypeOK, Shape, Kindred, Tick
    PROVE  UNCHANGED eng /\ \A q \in Runs : Stays(q)
<1>1. UNCHANGED <<def, eng, api>>
  BY TickEffect
<1>2. ASSUME NEW q \in Runs
      PROVE  /\ run'[q].hole = run[q].hole /\ run'[q].status = run[q].status /\ run'[q].node = run[q].node
             /\ run'[q].body = run[q].body /\ run'[q].frame = run[q].frame
             /\ HasRow(q) => HasRow(q)'
             /\ rows'[q].claimed = rows[q].claimed
  BY TickEffect DEF Keeps, Fields
<1>3. ASSUME NEW q \in Runs PROVE Stays(q)
  <2>0. /\ run'[q].hole = run[q].hole /\ run'[q].status = run[q].status /\ run'[q].node = run[q].node
        /\ run'[q].body = run[q].body /\ run'[q].frame = run[q].frame
        /\ HasRow(q) => HasRow(q)'
        /\ rows'[q].claimed = rows[q].claimed
    BY <1>2
  <2>1. ASSUME NEW f \in run[q].frame.flight, Working(f) PROVE Working(f)'
    <3>1. f[2] \in Runs
      BY FlightType
    <3> QED BY <1>1, <1>2, <2>1, <3>1 DEF Working, Active, Present, AtHook
  <2>2. Awaits(q) => Awaits(q)'
    BY <1>1, <2>0, <2>1 DEF Awaits
  <2>3. AnswerComes(q) => AnswerComes(q)'
    BY <1>1 DEF AnswerComes
  <2>4. Kept(q) => Kept(q)'
    BY <2>0, <2>2, <2>3 DEF Kept, Excused
  <2>5. Assured(q) => Assured(q)'
    BY <2>0, <2>3 DEF Assured
  <2> QED BY <2>0, <2>4, <2>5 DEF Stays, Active, Present
<1> QED BY <1>1, <1>3

\* The web service answers nodes without children.
LEMMA AnswerStays ==
    ASSUME TypeOK, UNCHANGED <<def, eng>>, def.kind \notin Parents, NEW r \in Runs, Apart(r),
           RowsApart(r), \A q \in Runs : q # r /\ AnswerComes(q) => AnswerComes(q)',
           Stays(r)
    PROVE  \A q \in Runs : Stays(q)
<1> SUFFICES ASSUME NEW q \in Runs, q # r PROVE Stays(q)
  OBVIOUS
<1>1. run'[q] = run[q] /\ rows'[q] = rows[q]
  BY DEF Apart, RowsApart
<1>2. AnswerComes(q) => AnswerComes(q)'
  OBVIOUS
<1>3. Kept(q) => Kept(q)'
  BY <1>1, <1>2 DEF Kept, Excused, Awaits, HasRow
<1>4. Assured(q) => Assured(q)'
  BY <1>1, <1>2 DEF Assured, HasRow
<1> QED BY <1>1, <1>3, <1>4 DEF Stays, HasRow

LEMMA WebStays ==
    ASSUME TypeOK, Shape, WebService
    PROVE  UNCHANGED eng /\ \A q \in Runs : Stays(q)
<1>0. def.kind \notin Parents
  BY WebFates
<1>1. CASE Asks
  <2>1. UNCHANGED <<def, run, rows, eng>> /\ api.phase = "idle"
    BY <1>1, AskEffect
  <2>2. \A q \in Runs : ~AnswerComes(q)
    BY <2>1 DEF AnswerComes
  <2>3. ASSUME NEW q \in Runs PROVE Stays(q)
    <3>1. Kept(q) => Kept(q)'
      BY <1>0, <2>1, <2>2 DEF Kept, Excused, Awaits, HasRow
    <3>2. Assured(q) => Assured(q)'
      BY <2>1, <2>2 DEF Assured, HasRow
    <3> QED BY <1>0, <2>1, <3>1, <3>2 DEF Stays, HasRow
  <2> QED BY <2>1, <2>3
<1>2. CASE AnswerNode
  <2>0. PICK r \in Runs : r = api.run
    BY Typed
  <2>1. /\ UNCHANGED <<def, rows, eng>> /\ r \in Runs /\ api.phase = "node"
        /\ api.verdict \in {"succeeded", "blocked"}
        /\ api'.phase = "run" /\ api'.run = r /\ api'.verdict = api.verdict
        /\ Keeps(r, {"node", "answered"}) /\ Apart(r) /\ run'[r].node = api.verdict
    BY <1>2, <2>0, AnswerNodeEffect
  <2>2. \A q \in Runs : ~AnswerComes(q)
    BY <2>1 DEF AnswerComes
  <2>3. run'[r].hole = run[r].hole /\ run'[r].status = run[r].status
    BY <2>1 DEF Keeps, Fields
  <2>4. run'[r].node = "blocked" \/ (run'[r].node = "succeeded" /\ AnswerComes(r)')
    BY <2>1 DEF AnswerComes
  <2>5. Stays(r)
    BY <1>0, <2>1, <2>3, <2>4 DEF Stays, Kept, Assured, HasRow
  <2>6. RowsApart(r)
    BY <2>1 DEF RowsApart
  <2> QED BY <1>0, <2>1, <2>2, <2>5, <2>6, AnswerStays
<1>3. CASE AnswerRun
  <2>0. PICK r \in Runs : r = api.run
    BY Typed
  <2>1. /\ UNCHANGED <<def, rows, eng>> /\ r \in Runs /\ api.phase = "run"
        /\ \/ api.verdict = "succeeded" /\ api'.phase = "row" /\ api'.run = r
           \/ api.verdict = "blocked" /\ api' = NoAnswer
        /\ Keeps(r, {"status", "hole"}) /\ Apart(r)
        /\ run'[r].hole = (run[r].hole \/ ~Active(r))
    BY <1>3, <2>0, AnswerRunEffect
  <2>2. \A q \in Runs : q # r => ~AnswerComes(q)
    BY <2>0 DEF AnswerComes
  <2>3. run'[r].node = run[r].node /\ run'[r].body = run[r].body
    BY <2>1 DEF Keeps, Fields
  <2>4. AnswerComes(r) => AnswerComes(r)'
    BY <2>1 DEF AnswerComes
  <2>5. Kept(r) => Kept(r)'
    BY <1>0, <2>1, <2>3, <2>4 DEF Kept, Excused, Awaits, HasRow, Active, Present
  <2>6. Assured(r) => Assured(r)'
    BY <2>1, <2>3, <2>4 DEF Assured, HasRow
  <2>7. Stays(r)
    BY <1>0, <2>1, <2>5, <2>6 DEF Stays, HasRow, Active
  <2>8. RowsApart(r)
    BY <2>1 DEF RowsApart
  <2> QED BY <1>0, <2>1, <2>2, <2>7, <2>8, AnswerStays
<1>4. CASE AnswerRow
  <2>0. PICK r \in Runs : r = api.run
    BY Typed
  <2>1. /\ UNCHANGED <<def, run, eng>> /\ r \in Runs /\ RowsApart(r) /\ HasRow(r)'
    BY <1>4, <2>0, AnswerRowEffect
  <2>2. \A q \in Runs : q # r => ~AnswerComes(q)
    BY <2>0 DEF AnswerComes
  <2>3. Stays(r)
    BY <1>0, <2>1 DEF Stays, Kept, Assured
  <2>4. Apart(r)
    BY <2>1 DEF Apart
  <2> QED BY <1>0, <2>1, <2>2, <2>3, <2>4, AnswerStays
<1>5. CASE resolve_gate \/ AwaitedEnd
  <2>1. /\ UNCHANGED <<def, run, rows, eng>>
        /\ \/ api' = api
           \/ api.phase = "idle"
    BY <1>5, GateEffect
  <2>2. \A q \in Runs : AnswerComes(q) => AnswerComes(q)'
    BY <2>1 DEF AnswerComes
  <2>3. ASSUME NEW q \in Runs PROVE Stays(q)
    <3>1. Kept(q) => Kept(q)'
      BY <1>0, <2>1, <2>2 DEF Kept, Excused, Awaits, HasRow
    <3>2. Assured(q) => Assured(q)'
      BY <2>1, <2>2 DEF Assured, HasRow
    <3> QED BY <1>0, <2>1, <3>1, <3>2 DEF Stays, HasRow
  <2> QED BY <2>1, <2>3
<1> QED BY <1>1, <1>2, <1>3, <1>4, <1>5 DEF WebService, Asks

-------------------------------------------------------------------------------
LEMMA ChildOnRecord ==
    ASSUME TypeOK, Kindred, def.kind \in Parents, NEW r \in Runs,
           NEW fl, fl = run[r].frame.flight \/ \E e \in Engines : eng[e].run = r /\ fl = eng[e].frame.flight,
           NEW f \in fl
    PROVE  /\ f[2] \in Runs /\ f[2] # r /\ Present(f[2]) /\ IsChild(f[2])
           /\ ~run[r].hole => run[f[2]].parent = r /\ run[f[2]].linked
           /\ def.kind = "map" => run[f[2]].parent = r
<1>1. CASE fl = run[r].frame.flight
  BY <1>1, FlightType DEF Kindred, Families, Family
<1>2. CASE \E e \in Engines : eng[e].run = r /\ fl = eng[e].frame.flight
  <2>1. PICK e \in Engines : eng[e].run = r /\ fl = eng[e].frame.flight
    BY <1>2
  <2>2. f[2] \in Runs
    BY <2>1, FlightType
  <2> QED BY <2>1, <2>2 DEF Kindred, Families, Family
<1> QED BY <1>1, <1>2

\* What has decided a subflow node goes on deciding it.
LEMMA DecidedStays ==
    ASSUME TypeOK, Kindred, Unblocked, UNCHANGED def, def.kind = "subflow", EndsHeld,
           NEW r \in Runs, run'[r].frame = run[r].frame, run'[r].age \in {run[r].age, Older(run[r].age)},
           DecidedSubflow(r)
    PROVE  DecidedSubflow(r)'
<1>1. ASSUME NEW f \in run[r].frame.flight
      PROVE  /\ run[f[2]].status = "succeeded" => run'[f[2]].status \in {"succeeded", "failed"}
             /\ run[f[2]].status \in Failed => run'[f[2]].status \in Failed
             /\ run[f[2]].status # "blocked"
  <2>1. f[2] \in Runs /\ Child(f[2])
    BY ChildOnRecord DEF Parents, Child
  <2> QED BY <2>1 DEF EndsHeld, Failed, Terminal, Unblocked, Parents
<1>2. timed_out(r) => timed_out(r)'
  BY TimeAssumption DEF timed_out, Older, TypeOK, RunRecords
<1>3. CASE \A f \in run[r].frame.flight : run[f[2]].status = "succeeded"
  <2>1. \A f \in run[r].frame.flight : run'[f[2]].status \in {"succeeded", "failed"}
    BY <1>1, <1>3
  <2> QED BY <2>1 DEF DecidedSubflow, Failed, Terminal
<1>4. CASE \E f \in run[r].frame.flight : run[f[2]].status \in Failed \cup {"blocked"}
  <2>1. \E f \in run[r].frame.flight : run'[f[2]].status \in Failed
    BY <1>1, <1>4
  <2> QED BY <2>1 DEF DecidedSubflow
<1> QED BY <1>2, <1>3, <1>4 DEF DecidedSubflow

\* A step that leaves the drives alone.
LEMMA BackedStays ==
    ASSUME UNCHANGED <<def, eng>>, \A q \in Runs : Stays(q), NEW e \in Engines, eng[e].run \in Runs, Backed(e)
    PROVE  Backed(e)'
<1> DEFINE r == eng[e].run
<1>0. r \in Runs /\ eng'[e].run = r /\ eng'[e].phase = eng[e].phase /\ eng'[e].keep = eng[e].keep
  OBVIOUS
<1>1. Stays(r)
  OBVIOUS
<1>2. /\ Busy(e) => run[r].hole \/ e \in rows[r].claimed \/ HasRow(r)
                    \/ (run[r].status \in Terminal /\ eng[e].phase \in {"step", "hook", "done"})
      /\ eng[e].phase = "hook" \/ (eng[e].phase = "done" /\ ~eng[e].keep) => Kept(r)
      /\ eng[e].phase \in {"run", "poll", "arm"} => Assured(r)
      /\ eng[e].phase = "arm" => run[r].hole \/ PollAfter = 0 \/ HasRow(r)
  BY DEF Backed, Assured
<1>3. PollAfter' = PollAfter
  BY DEF PollAfter
<1> QED BY <1>0, <1>1, <1>2, <1>3 DEF Stays, Backed, Assured, Busy

LEMMA NursedStays ==
    ASSUME TypeOK, Shape, Kindred, UNCHANGED <<def, eng>>, \A q \in Runs : Stays(q), NEW e \in Engines, Nursed(e)
    PROVE  Nursed(e)'
<1>0. PICK r \in Runs : r = eng[e].run
  BY Typed
<1>1. ASSUME def.kind \in Parents, ~run'[r].hole,
             NEW fl, fl \in {run[r].frame.flight, eng[e].frame.flight}, NEW f \in fl, Active(f[2])
      PROVE  Active(f[2])'
  <2>1. ~run[r].hole
    BY <1>1 DEF Stays
  <2>2. f[2] \in Runs /\ run[f[2]].parent = r
    <3>1. fl = run[r].frame.flight \/ \E d \in Engines : eng[d].run = r /\ fl = eng[d].frame.flight
      BY <1>0, <1>1
    <3> QED BY <1>1, <2>1, <3>1, ChildOnRecord
  <2> QED BY <1>1, <2>2 DEF Stays
<1>2. run[r].hole => run'[r].hole
  BY DEF Stays
<1>3. def.kind \in Parents => run'[r].frame = run[r].frame
  BY DEF Stays
<1>4. eng'[e].run = r /\ eng' = eng /\ def' = def
  BY <1>0
<1>5. eng[e].phase = "fan" => def.kind = "map"
  BY DEF Shape, PhaseKinds, PhaseFits
<1>6. def.kind \in Parents /\ ~run'[r].hole =>
         /\ \A f \in eng[e].frame.flight : Active(f[2]) => Active(f[2])'
         /\ \A f \in run[r].frame.flight : Active(f[2]) => Active(f[2])'
  BY <1>1
<1> QED BY <1>0, <1>2, <1>3, <1>4, <1>5, <1>6 DEF Nursed, Parents

LEMMA QuietStrands ==
    ASSUME TypeOK, Shape, Kindred, Strands, UNCHANGED <<def, eng>>, \A q \in Runs : Stays(q),
           EndsHeld, \A q \in Runs : OutsideFate(q), Unblocked'
    PROVE  Strands'
<1>1. \A q \in Runs : Driven(q)' <=> Driven(q)
  BY DEF Driven
<1>2. \A q \in Runs : (~Driven(q) => Kept(q))'
  BY <1>1 DEF Strands, Stays
<1>3. ASSUME NEW e \in Engines PROVE Backed(e)' /\ Nursed(e)'
  BY BackedStays, NursedStays, Typed DEF Strands
<1>4. ASSUME def.kind = "subflow", NEW r \in Runs, DecidedSubflow(r) PROVE DecidedSubflow(r)'
  <2>1. run'[r].frame = run[r].frame /\ run'[r].age \in {run[r].age, Older(run[r].age)}
    BY DEF OutsideFate
  <2> QED BY <1>4, <2>1, DecidedStays DEF Strands
<1>5. def.kind = "subflow" => \A q \in Runs : run'[q].node = run[q].node /\ (run[q].hole => run'[q].hole)
  BY DEF OutsideFate, Parents
<1>6. \A e \in Engines : eng[e].run \in Runs
  BY Typed
<1>7. SubflowDecided'
  BY <1>4, <1>5, <1>6 DEF Strands, SubflowDecided
<1> QED BY <1>2, <1>3, <1>7 DEF Strands

\* A drive that stops on its way leaves its run with its row, or with a hole.
LEMMA FaultyStrands ==
    ASSUME TypeOK, Shape, Kindred, OneDrive, Strands, Faulty
    PROVE  Strands'
<1>1. PICK e \in Engines : EngineCrash(e) \/ fail_driven_ready_node(e)
  BY DEF Faulty
<1>2. PICK r \in Runs : r = eng[e].run
  BY Typed
<1>3. /\ UNCHANGED <<def, api>> /\ eng[e].phase # "idle" /\ eng'[e] = Idle /\ RowsApart(r)
      /\ LikeApart(r) /\ Keeps(r, {"status", "hole"}) /\ (run[r].hole => run'[r].hole)
      /\ run'[r].status = run[r].status \/ run'[r].status = "failed"
      /\ \/ Holed(r)
         \/ /\ HasRow(r) \/ e \in rows[r].claimed => HasRow(r)'
            /\ run'[r].status = run[r].status /\ eng[e].phase # "hook"
  <2>1. CASE EngineCrash(e)
    <3>1. /\ UNCHANGED <<def, api>> /\ eng[e].phase # "idle" /\ eng'[e] = Idle /\ RowsApart(r)
          /\ HasRow(r) \/ e \in rows[r].claimed => HasRow(r)'
          /\ \/ Unrepaired(e) /\ Like(r) /\ LikeApart(r) /\ Holed(r)
             \/ ~Unrepaired(e) /\ run' = run
      BY <1>2, <2>1, CrashEffect
    <3>2. CASE Unrepaired(e)
      BY <3>1, <3>2 DEF Like, Keeps, Fields
    <3>3. CASE ~Unrepaired(e)
      <4>1. LikeApart(r) /\ Keeps(r, {})
        BY <3>1, <3>3, Unmoved
      <4>2. eng[e].phase # "hook"
        BY <3>3 DEF Unrepaired
      <4> QED BY <3>1, <3>3, <4>1, <4>2 DEF Keeps
    <3> QED BY <3>2, <3>3
  <2>2. CASE fail_driven_ready_node(e)
    BY <1>2, <2>2, FailEffect DEF Holed
  <2> QED BY <1>1, <2>1, <2>2
<1>4. \A d \in Engines : d = e
  BY DEF OneDrive
<1>5. /\ run'[r].node = run[r].node /\ run'[r].frame = run[r].frame /\ run'[r].age = run[r].age
  BY <1>3 DEF Keeps, Fields
<1>6. ASSUME NEW q \in Runs, q # r PROVE Kept(q)'
  <2>1. Kept(q)
    BY <1>2, <1>4, <1>6 DEF Strands, Driven
  <2>2. \A c \in Runs : c # r => ~AtHook(c)
    BY <1>2, <1>4 DEF AtHook
  <2>3. \A c \in Runs : c # r /\ HasRow(c) => HasRow(c)'
    BY <1>3 DEF RowsApart, HasRow
  <2>4. Child(r) /\ (Active(r) \/ AtHook(r)) => Active(r)' \/ run'[run[r].parent].hole
    BY <1>2, <1>3, <1>4 DEF Holed, AtHook, Active, Present
  <2> QED BY <1>3, <1>6, <2>1, <2>2, <2>3, <2>4, Elsewhere
<1>7. Kept(r)'
  <2>1. \/ run[r].hole \/ e \in rows[r].claimed \/ HasRow(r) \/ run[r].status \in Terminal
    BY <1>2, <1>3 DEF Strands, Backed, Busy
  <2> QED BY <1>3, <2>1 DEF Kept, Excused, Holed
<1>8. eng'[e].phase = "idle" /\ eng'[e].run \in Runs
  BY <1>3, RunsAssumption DEF Idle
<1>9. \A d \in Engines : Backed(d)' /\ Nursed(d)'
  BY <1>4, <1>8 DEF Backed, Nursed, Busy
<1>10. EndsHeld /\ \A q \in Runs : OutsideFate(q)
  BY OutsideFates
<1>11. Unblocked'
  <2>1. \A q \in Runs : run'[q].status = run[q].status \/ run'[q].status = "failed"
    BY <1>3 DEF LikeApart, Like, Keeps, Fields
  <2> QED BY <1>3, <2>1 DEF Strands, Unblocked
<1>12. SubflowDecided'
  <2>1. ASSUME def.kind = "subflow", NEW q \in Runs, DecidedSubflow(q) PROVE DecidedSubflow(q)'
    <3>1. run'[q].frame = run[q].frame /\ run'[q].age \in {run[q].age, Older(run[q].age)}
      BY <1>10 DEF OutsideFate
    <3> QED BY <1>3, <1>10, <2>1, <3>1, DecidedStays DEF Strands
  <2>2. def.kind = "subflow" => \A q \in Runs : run'[q].node = run[q].node /\ (run[q].hole => run'[q].hole)
    BY <1>10 DEF OutsideFate, Parents
  <2> QED BY <1>3, <1>4, <1>8, <2>1, <2>2 DEF Strands, SubflowDecided
<1> QED BY <1>6, <1>7, <1>9, <1>11, <1>12 DEF Strands

LEMMA OutsideStrands ==
    ASSUME TypeOK, Shape, Kindred, OneDrive, Strands,
           WebService \/ (\E c \in Runs : BodyEnds(c)) \/ Operator \/ Faulty \/ Tick
    PROVE  Strands'
<1>1. CASE Faulty
  BY <1>1, FaultyStrands
<1>2. CASE WebService \/ (\E c \in Runs : BodyEnds(c)) \/ Operator \/ Tick
  <2>1. UNCHANGED eng /\ \A q \in Runs : Stays(q)
    BY <1>2, WebStays, BodyStays, OperatorStays, TickStays
  <2>2. UNCHANGED def
    BY OutsideTypes
  <2>3. EndsHeld /\ \A q \in Runs : OutsideFate(q)
    BY OutsideFates
  <2>4. ASSUME def.kind \in Parents, NEW q \in Runs
        PROVE  run'[q].status \in {run[q].status, "canceled", "paused", "running"}
    <3>1. CASE WebService
      BY <2>4, <3>1, WebFates
    <3>2. CASE \E c \in Runs : BodyEnds(c)
      <4>1. PICK c \in Runs : Keeps(c, {"body"}) /\ Apart(c)
        BY <3>2, BodyEndsEffect
      <4> QED BY <4>1 DEF Keeps, Apart, Fields
    <3>3. CASE Operator
      <4>1. PICK r \in Runs : cancel_workflow_run(r) \/ pause_workflow_run(r) \/ resume_workflow_run(r)
        BY <3>3 DEF Operator
      <4>2. run'[r].status \in {"canceled", "paused", "running"} /\ LikeApart(r)
        BY <4>1, CancelEffect, PauseEffect, ApartIsLike
      <4> QED BY <4>2 DEF LikeApart, Like, Keeps, Fields
    <3>4. CASE Tick
      <4>1. /\ Present(q) => Keeps(q, {"age", "since"})
            /\ ~Present(q) => run'[q] = run[q]
        BY <3>4, TickEffect
      <4> QED BY <4>1 DEF Keeps, Fields
    <3> QED BY <1>2, <3>1, <3>2, <3>3, <3>4
  <2>5. Unblocked'
    BY <2>2, <2>4 DEF Strands, Unblocked
  <2> QED BY <2>1, <2>2, <2>3, <2>5, QuietStrands
<1> QED BY <1>1, <1>2

-------------------------------------------------------------------------------
\* A drive goes on: the other runs are kept, and the drive still has what it leaves behind.
LEMMA DriveStrands ==
    ASSUME TypeOK, Shape, Kindred, OneDrive, Strands, UNCHANGED <<def, api>>,
           NEW e \in Engines, NEW r \in Runs, r = eng[e].run, eng[e].phase # "idle",
           eng'[e].run = r, eng'[e].phase # "idle",
           LikeApart(r), \A q \in Runs : q # r /\ HasRow(q) => HasRow(q)',
           Child(r) /\ run[r].linked /\ (Active(r) \/ eng[e].phase = "hook") =>
              \/ Active(r)' \/ eng'[e].phase = "hook"
              \/ run'[run[r].parent].hole \/ (\E p \in Runs : p = run[r].parent /\ HasRow(p)'),
           Backed(e)', Nursed(e)', SubflowDecided', Unblocked'
    PROVE  Strands'
<1>1. \A d \in Engines : d = e
  BY DEF OneDrive
<1>2. ASSUME NEW q \in Runs, ~Driven(q)' PROVE Kept(q)'
  <2>1. q # r
    BY <1>2 DEF Driven
  <2>2. Kept(q)
    BY <1>1, <2>1 DEF Strands, Driven
  <2>3. \A c \in Runs : c # r => ~AtHook(c)
    BY <1>1 DEF AtHook
  <2>4. Child(r) /\ run[r].linked /\ (Active(r) \/ AtHook(r)) =>
           \/ Active(r)' \/ AtHook(r)'
           \/ run'[run[r].parent].hole \/ (\E p \in Runs : p = run[r].parent /\ HasRow(p)')
    BY <1>1 DEF AtHook
  <2> QED BY <2>1, <2>2, <2>3, <2>4, Elsewhere
<1>3. \A d \in Engines : (Backed(d) /\ Nursed(d))'
  BY <1>1
<1>4. \A q \in Runs : (~Driven(q) => Kept(q))'
  BY <1>2
<1> QED BY <1>3, <1>4 DEF Strands

\* The row of a drive in its handler is there, or the run has a hole.
LEMMA Secured ==
    ASSUME NEW e \in Engines, NEW r, r = eng[e].run, Backed(e), AtStep(e) \/ Mid(e),
           run[r].hole => run'[r].hole, rows'[r] = rows[r] \/ HasRow(r)'
    PROVE  run'[r].hole \/ e \in rows'[r].claimed \/ HasRow(r)'
<1>1. run[r].hole \/ e \in rows[r].claimed \/ HasRow(r)
  BY DEF Backed, AtStep, Mid, Active, Busy
<1> QED BY <1>1 DEF HasRow

LEMMA PlainBacked ==
    ASSUME NEW e \in Engines, NEW r, eng'[e].run = r,
           eng'[e].phase \notin {"hook", "run", "poll", "arm"},
           eng'[e].phase = "done" => eng'[e].keep,
           run'[r].hole \/ e \in rows'[r].claimed \/ HasRow(r)'
    PROVE  Backed(e)'
  BY DEF Backed

LEMMA HookBacked ==
    ASSUME NEW e \in Engines, NEW r, eng'[e].run = r, eng'[e].phase = "hook", Kept(r)',
           \/ run'[r].hole \/ e \in rows'[r].claimed \/ HasRow(r)'
           \/ run'[r].status \in Terminal
    PROVE  Backed(e)'
  BY DEF Backed

LEMMA NobodyNursed ==
    ASSUME NEW e \in Engines,
           \/ eng'[e].phase \notin {"fan", "node", "run", "poll", "arm", "create"}
           \/ eng'[e].phase # "fan" /\ def.kind \notin Parents /\ UNCHANGED def
    PROVE  Nursed(e)'
  BY DEF Nursed, Parents

\* Another kind of node.
LEMMA OtherStrands ==
    ASSUME UNCHANGED def, def.kind \notin Parents
    PROVE  SubflowDecided' /\ Unblocked'
  BY DEF SubflowDecided, Unblocked, Parents

LEMMA DecidedOn ==
    ASSUME TypeOK, Kindred, OneDrive, Strands, UNCHANGED def, NEW e \in Engines, NEW r \in Runs, r = eng[e].run,
           def.kind = "subflow" => EndsHeld,
           \A q \in Runs : run[q].hole => run'[q].hole,
           def.kind = "subflow" => \A q \in Runs :
              \/ run'[q].node = "parked" \/ run'[q].frame = NoFrame
              \/ /\ run'[q].node = run[q].node \/ (q = r /\ eng[e].phase = "settle")
                 /\ run'[q].frame = run[q].frame /\ run'[q].age = run[q].age,
           eng'[e].phase # "settle"
              \/ (def.kind = "subflow" /\ def.body # "detached" => eng'[e].run = r /\ UNCHANGED run /\ DecidedSubflow(r))
    PROVE  SubflowDecided'
<1>0. \A d \in Engines : d = e
  BY DEF OneDrive
<1> SUFFICES ASSUME def.kind = "subflow", def.body # "detached" PROVE SubflowDecided'
  BY DEF SubflowDecided
<1>1. ASSUME NEW q \in Runs, ~run'[q].hole, run'[q].node # "parked" PROVE DecidedSubflow(q)'
  <2>1. CASE run'[q].frame = NoFrame
    BY <2>1 DEF DecidedSubflow, NoFrame
  <2>2. CASE /\ run'[q].node = run[q].node \/ (q = r /\ eng[e].phase = "settle")
             /\ run'[q].frame = run[q].frame /\ run'[q].age = run[q].age
    <3>1. DecidedSubflow(q)
      BY <1>1, <2>2 DEF Strands, SubflowDecided
    <3> QED BY <2>2, <3>1, DecidedStays DEF Strands
  <2> QED BY <1>1, <2>1, <2>2
<1>2. eng'[e].phase = "settle" => DecidedSubflow(r)' /\ eng'[e].run = r
  BY DEF DecidedSubflow, timed_out
<1> QED BY <1>0, <1>1, <1>2 DEF SubflowDecided

-------------------------------------------------------------------------------
\* The steps that every kind shares: what they do for a subflow node and for statuses.
LEMMA CommonStatuses ==
    ASSUME TypeOK, Shape, NEW e \in Engines, CommonStep(e), NEW q \in Runs
    PROVE  run'[q].status # "blocked" \/ run[q].status = "blocked"
<1>0. PICK r \in Runs : r = eng[e].run
  BY Typed
<1>1. ASSUME NEW p \in Runs, process_ready_node(e, p) PROVE run'[q].status # "blocked" \/ run[q].status = "blocked"
  <2>1. Apart(p) /\ run'[p].status = IF run[p].status = "queued" THEN "running" ELSE run[p].status
    BY <1>1, ClaimEffect
  <2> QED BY <2>1 DEF Apart
<1>2. CASE StepStopped(e)
  <2>1. (LikeApart(r) /\ Like(r)) \/ run' = run
    BY <1>0, <1>2, StepStoppedEffect
  <2> QED BY <2>1 DEF LikeApart, Like, Keeps, Fields
<1>3. CASE ParkNode(e)
  <2>1. Keeps(r, {"node", "tries", "age", "frame", "hole"}) /\ LikeApart(r)
    BY <1>0, <1>3, NodeParked
  <2> QED BY <2>1 DEF LikeApart, Like, Keeps, Fields
<1>4. CASE ParkRun(e) \/ RetryRun(e) \/ FinishRun(e)
  <2>1. Apart(r) /\ run'[r].status \in {"waiting"} \cup Terminal
    BY <1>0, <1>4, ParkRunEffect, RetryRunEffect, FinishRunEffect
  <2> QED BY <2>1 DEF Apart, Terminal
<1>5. CASE SettleNode(e)
  <2>1. Keeps(r, {"node"}) /\ Apart(r)
    BY <1>0, <1>5, SettleNodeEffect
  <2> QED BY <2>1 DEF Apart, Keeps, Fields
<1>6. CASE \/ EnqueuePoll(e) \/ arm_node_timeout(e) \/ EnqueueNextPoll(e) \/ schedule_node_retry(e)
           \/ maybe_wake_subflow_parent(e) \/ drive_ready_node(e)
  <2>1. run' = run
    BY <1>6 DEF EnqueuePoll, arm_node_timeout, EnqueueNextPoll, schedule_node_retry,
                maybe_wake_subflow_parent, drive_ready_node
  <2> QED BY <2>1
<1> QED BY <1>1, <1>2, <1>3, <1>4, <1>5, <1>6 DEF CommonStep

LEMMA CommonDecided ==
    ASSUME TypeOK, Shape, Kindred, OneDrive, Strands, NEW e \in Engines, CommonStep(e)
    PROVE  SubflowDecided' /\ Unblocked' /\ UNCHANGED def
<1>0. PICK r \in Runs : r = eng[e].run
  BY Typed
<1>1. UNCHANGED def
  BY CommonTypes
<1>2. EndsHeld /\ DriveFate(e) /\ \A q \in Runs : Fate(e, q)
  BY CommonFate
<1>3. Unblocked'
  BY <1>1, CommonStatuses DEF Strands, Unblocked
<1>4. ASSUME def.kind = "subflow", NEW q \in Runs
      PROVE  \/ run'[q].node = "parked"
             \/ /\ run'[q].node = run[q].node \/ (q = r /\ eng[e].phase = "settle")
                /\ run'[q].frame = run[q].frame /\ run'[q].age = run[q].age
  <2>1. NodeFate(e, q) /\ FrameFate(e, q) /\ RunFate(e, q)
    BY <1>2 DEF Fate
  <2>2. eng[e].phase = "node" => ParkNode(e)
    BY DEF CommonStep, process_ready_node, StepStopped, ParkRun, EnqueuePoll, arm_node_timeout,
           EnqueueNextPoll, SettleNode, FinishRun, RetryRun, schedule_node_retry,
           maybe_wake_subflow_parent, drive_ready_node
  <2>3. eng[e].phase = "node" => run'[r].node = "parked"
    BY <1>0, <2>2, NodeParked
  <2> QED BY <1>0, <1>4, <2>1, <2>3 DEF NodeFate, FrameFate, RunFate
<1>5. eng'[e].phase # "settle"
  BY <1>2 DEF DriveFate
<1>6. \A q \in Runs : run[q].hole => run'[q].hole
  BY <1>2 DEF Fate, RunFate
<1>7. SubflowDecided'
  BY <1>0, <1>1, <1>2, <1>4, <1>5, <1>6, DecidedOn
<1> QED BY <1>1, <1>3, <1>7

\* The children on record of a drive in its handler are not the run's own.
LEMMA StillActive ==
    ASSUME TypeOK, Kindred, def.kind \in Parents, NEW r \in Runs, LikeApart(r),
           NEW fl, fl = run[r].frame.flight \/ \E e \in Engines : eng[e].run = r /\ fl = eng[e].frame.flight
    PROVE  \A f \in fl : Active(f[2]) => Active(f[2])'
<1> SUFFICES ASSUME NEW f \in fl, Active(f[2]) PROVE Active(f[2])'
  OBVIOUS
<1>1. f[2] \in Runs /\ f[2] # r
  BY ChildOnRecord
<1>2. run'[f[2]].status = run[f[2]].status
  BY <1>1 DEF LikeApart, Like, Keeps, Fields
<1> QED BY <1>2 DEF Active, Present

LEMMA ClaimStrands ==
    ASSUME TypeOK, Shape, Kindred, OneDrive, Strands, NEW e \in Engines, NEW r \in Runs, process_ready_node(e, r)
    PROVE  Strands'
<1>1. /\ UNCHANGED <<def, api>> /\ eng[e].phase = "idle" /\ eng'[e].phase = "step" /\ eng'[e].run = r
      /\ Keeps(r, {"status"}) /\ Apart(r)
      /\ run'[r].status = IF run[r].status = "queued" THEN "running" ELSE run[r].status
      /\ RowsApart(r) /\ rows'[r].claimed = rows[r].claimed \cup {e}
  BY ClaimEffect
<1>2. \A d \in Engines : d = e
  BY DEF OneDrive
<1>3. LikeApart(r)
  BY <1>1, ApartIsLike
<1>4. ASSUME NEW q \in Runs, ~Driven(q)' PROVE Kept(q)'
  <2>1. q # r
    BY <1>1, <1>4 DEF Driven
  <2>2. Kept(q)
    BY <1>1, <1>2 DEF Strands, Driven
  <2>3. \A c \in Runs : ~AtHook(c)
    BY <1>1, <1>2 DEF AtHook
  <2>4. \A c \in Runs : c # r /\ HasRow(c) => HasRow(c)'
    BY <1>1 DEF RowsApart, HasRow
  <2>5. Active(r) => Active(r)'
    BY <1>1 DEF Active, Present, Terminal
  <2> QED BY <1>1, <1>3, <2>1, <2>2, <2>3, <2>4, <2>5, Elsewhere
<1>5. Backed(e)' /\ Nursed(e)'
  BY <1>1, PlainBacked, NobodyNursed
<1>6. \A d \in Engines : (Backed(d) /\ Nursed(d))'
  BY <1>2, <1>5
<1>7. \A q \in Runs : (~Driven(q) => Kept(q))'
  BY <1>4
<1>8. SubflowDecided' /\ Unblocked'
  BY CommonDecided DEF CommonStep
<1> QED BY <1>6, <1>7, <1>8 DEF Strands

LEMMA DriveEndsStrands ==
    ASSUME TypeOK, Shape, Kindred, OneDrive, Strands, NEW e \in Engines, drive_ready_node(e)
    PROVE  Strands'
<1>0. PICK r \in Runs : r = eng[e].run
  BY Typed
<1>1. /\ UNCHANGED <<def, api, run>> /\ eng[e].phase = "done" /\ eng'[e] = Idle
      /\ RowsApart(r) /\ (HasRow(r) \/ (e \in rows[r].claimed /\ eng[e].keep) => HasRow(r)')
  BY <1>0, DriveEndsEffect
<1>2. \A d \in Engines : d = e
  BY DEF OneDrive
<1>3. LikeApart(r)
  BY <1>1, Unmoved
<1>4. \A c \in Runs : ~AtHook(c)
  BY <1>1, <1>2 DEF AtHook
<1>5. ASSUME NEW q \in Runs, q # r PROVE Kept(q)'
  <2>1. Kept(q)
    BY <1>0, <1>2, <1>5 DEF Strands, Driven
  <2>2. \A c \in Runs : c # r /\ HasRow(c) => HasRow(c)'
    BY <1>1 DEF RowsApart, HasRow
  <2>3. Active(r) => Active(r)'
    BY <1>1 DEF Active, Present
  <2> QED BY <1>1, <1>3, <1>4, <1>5, <2>1, <2>2, <2>3, Elsewhere
<1>6. Kept(r)'
  <2>1. CASE eng[e].keep
    <3>1. run[r].hole \/ e \in rows[r].claimed \/ HasRow(r) \/ run[r].status \in Terminal
      BY <1>0, <1>1 DEF Strands, Backed, Busy
    <3> QED BY <1>1, <2>1, <3>1 DEF Kept, Excused
  <2>2. CASE ~eng[e].keep
    <3>1. Kept(r)
      BY <1>0, <1>1, <2>2 DEF Strands, Backed
    <3>2. def.kind \in Parents => \A f \in run[r].frame.flight : Working(f) => Working(f)'
      <4>1. \A f \in run[r].frame.flight : f[2] \in Runs
        BY FlightType
      <4> QED BY <1>1, <1>4, <4>1 DEF Working, Active, Present
    <3>3. Awaits(r) => Awaits(r)'
      BY <1>1, <3>2 DEF Awaits
    <3> QED BY <1>1, <3>1, <3>3 DEF Kept, Excused, AnswerComes
  <2> QED BY <2>1, <2>2
<1>7. eng'[e].phase = "idle"
  BY <1>1 DEF Idle
<1>8. \A d \in Engines : (Backed(d) /\ Nursed(d))'
  BY <1>2, <1>7 DEF Backed, Nursed, Busy
<1>9. SubflowDecided' /\ Unblocked'
  BY CommonDecided DEF CommonStep
<1> QED BY <1>5, <1>6, <1>8, <1>9 DEF Strands

-------------------------------------------------------------------------------
\* A drive parks its run, writes the rows it is owed, and comes to its hook.
LEMMA ParkStrands ==
    ASSUME TypeOK, Shape, Kindred, OneDrive, Strands, NEW e \in Engines, ParkNode(e) \/ ParkRun(e)
    PROVE  Strands'
<1>0. PICK r \in Runs : r = eng[e].run
  BY Typed
<1>1. SubflowDecided' /\ Unblocked' /\ UNCHANGED def
  BY CommonDecided DEF CommonStep
<1>2. /\ UNCHANGED <<rows, api>> /\ LikeApart(r) /\ (run[r].hole => run'[r].hole)
      /\ eng'[e].run = r /\ eng'[e].frame = eng[e].frame
      /\ \/ /\ eng[e].phase = "node" /\ eng'[e].phase = "run" /\ run'[r].node = "parked"
            /\ run'[r].frame = IF def.kind = "subflow" THEN eng[e].frame ELSE run[r].frame
         \/ /\ eng[e].phase = "run" /\ eng'[e].phase = "poll" /\ run'[r].node = run[r].node
            /\ run'[r].frame = IF def.kind = "map" THEN eng[e].frame ELSE run[r].frame
  <2>1. CASE ParkNode(e)
    BY <1>0, <2>1, ParkNodeEffect, NodeParked DEF Moves
  <2>2. CASE ParkRun(e)
    <3>1. /\ UNCHANGED <<rows, api>> /\ Apart(r) /\ Keeps(r, {"status", "frame"})
          /\ Moves(e, "poll", eng[e].verdict, eng[e].frame) /\ eng[e].phase = "run"
          /\ run'[r].frame = IF def.kind = "map" THEN eng[e].frame ELSE run[r].frame
      BY <1>0, <2>2, ParkRunEffect
    <3>2. run'[r].node = run[r].node /\ run'[r].hole = run[r].hole
      BY <3>1 DEF Keeps, Fields
    <3> QED BY <1>0, <3>1, <3>2, ApartIsLike DEF Moves
  <2> QED BY <2>1, <2>2
<1>3. Mid(e) /\ ~Child(r)
  BY <1>0, <1>2, Facts DEF Mid
<1>4. Backed(e) /\ Nursed(e)
  BY DEF Strands
<1>5. run'[r].hole \/ e \in rows'[r].claimed \/ HasRow(r)'
  BY <1>0, <1>2, <1>3, <1>4, Secured
<1>6. Backed(e)'
  <2>1. AnswerComes(r) => AnswerComes(r)'
    BY <1>2 DEF AnswerComes
  <2>2. HasRow(r) => HasRow(r)'
    BY <1>2 DEF HasRow
  <2>3. \/ run'[r].hole \/ run'[r].node \in {"blocked", "parked"} \/ HasRow(r)'
        \/ run'[r].node = "succeeded" /\ AnswerComes(r)'
    BY <1>0, <1>2, <1>4, <2>1, <2>2 DEF Backed
  <2> QED BY <1>2, <1>5, <2>3 DEF Backed
<1>7. Nursed(e)'
  <2>1. CASE def.kind \notin Parents
    BY <1>1, <1>2, <2>1, NobodyNursed
  <2>2. CASE def.kind \in Parents
    <3>1. /\ \A f \in eng[e].frame.flight : Active(f[2]) => Active(f[2])'
          /\ \A f \in run[r].frame.flight : Active(f[2]) => Active(f[2])'
      BY <1>0, <1>2, <2>2, StillActive
    <3> QED BY <1>0, <1>1, <1>2, <1>4, <3>1 DEF Nursed
  <2> QED BY <2>1, <2>2
<1>8. \A q \in Runs : q # r /\ HasRow(q) => HasRow(q)'
  BY <1>2 DEF HasRow
<1> QED BY <1>0, <1>1, <1>2, <1>3, <1>6, <1>7, <1>8, DriveStrands

LEMMA PollStrands ==
    ASSUME TypeOK, Shape, Kindred, OneDrive, Strands, NEW e \in Engines, EnqueuePoll(e)
    PROVE  Strands'
<1>0. PICK r \in Runs : r = eng[e].run
  BY Typed
<1>1. SubflowDecided' /\ Unblocked' /\ UNCHANGED def
  BY CommonDecided DEF CommonStep
<1>2. /\ UNCHANGED <<run, api>> /\ RowsApart(r) /\ eng[e].phase = "poll"
      /\ eng'[e].run = r /\ eng'[e].frame = eng[e].frame /\ eng'[e].phase = "arm"
      /\ PollAfter = 0 => rows' = rows
      /\ PollAfter # 0 => HasRow(r)'
  BY <1>0, EnqueuePollEffect DEF Moves
<1>3. Mid(e) /\ ~Child(r)
  BY <1>0, <1>2, Facts DEF Mid
<1>4. Backed(e) /\ Nursed(e)
  BY DEF Strands
<1>5. run'[r].hole \/ e \in rows'[r].claimed \/ HasRow(r)'
  BY <1>0, <1>2, <1>3, <1>4, Secured
<1>6. Backed(e)'
  <2>1. AnswerComes(r) => AnswerComes(r)'
    BY <1>2 DEF AnswerComes
  <2>2. HasRow(r) => HasRow(r)'
    BY <1>2 DEF HasRow
  <2>3. \/ run'[r].hole \/ run'[r].node \in {"blocked", "parked"} \/ HasRow(r)'
        \/ run'[r].node = "succeeded" /\ AnswerComes(r)'
    BY <1>0, <1>2, <1>4, <2>1, <2>2 DEF Backed
  <2>4. PollAfter' = PollAfter
    BY <1>1 DEF PollAfter
  <2> QED BY <1>2, <1>5, <2>3, <2>4 DEF Backed
<1>7. Nursed(e)'
  BY <1>0, <1>1, <1>2, <1>4 DEF Nursed, Active, Present
<1>8. \A q \in Runs : q # r /\ HasRow(q) => HasRow(q)'
  BY <1>2 DEF HasRow, RowsApart
<1>9. LikeApart(r)
  BY <1>2, Unmoved
<1> QED BY <1>0, <1>1, <1>2, <1>3, <1>6, <1>7, <1>8, <1>9, DriveStrands

\* The last row is written: whoever has none is answered from outside, or by a child.
LEMMA ArmStrands ==
    ASSUME TypeOK, Shape, Kindred, OneDrive, Strands, NEW e \in Engines, arm_node_timeout(e)
    PROVE  Strands'
<1>0. PICK r \in Runs : r = eng[e].run
  BY Typed
<1>1. SubflowDecided' /\ Unblocked' /\ UNCHANGED def
  BY CommonDecided DEF CommonStep
<1>2. /\ UNCHANGED <<run, api>> /\ RowsApart(r) /\ eng[e].phase = "arm"
      /\ eng'[e].run = r /\ eng'[e].phase = "hook"
      /\ ~Arms => rows' = rows
      /\ Arms => HasRow(r)'
  BY <1>0, ArmEffect DEF Moves
<1>3. Mid(e) /\ ~Child(r) /\ def.kind # "cooldown"
  BY <1>0, <1>2, Facts DEF Mid, PhaseFits
<1>4. Backed(e) /\ Nursed(e)
  BY DEF Strands
<1>5. run'[r].hole \/ e \in rows'[r].claimed \/ HasRow(r)'
  BY <1>0, <1>2, <1>3, <1>4, Secured
<1>6. Kept(r)'
  <2> SUFFICES ASSUME ~run[r].hole, ~HasRow(r)', ~Arms PROVE Kept(r)'
    BY <1>2 DEF Kept, Excused
  <2>1. ~HasRow(r) /\ PollAfter = 0
    BY <1>0, <1>2, <1>4 DEF Backed, HasRow
  <2>2. run[r].node \in {"blocked", "parked"} \/ (run[r].node = "succeeded" /\ AnswerComes(r))
    BY <1>0, <1>2, <1>4, <2>1 DEF Backed
  <2>3. CASE run[r].node = "parked"
    <3>1. def.kind \in Kinds
      BY ScenariosAssumption DEF TypeOK, Scenario
    <3>2. \/ def.kind \in Answered \/ def.kind \in Parents
          \/ def.kind \in {"event_source", "collect"} /\ ~def.timed
      BY <1>3, <2>1, <3>1, TimeAssumption DEF Kinds, Answered, Parents, PollAfter, Arms
    <3>3. def.kind \in Parents => \E f \in run[r].frame.flight : Active(f[2])
      BY <1>0, <1>2, <1>4 DEF Nursed, Parents
    <3>4. Awaits(r)'
      BY <1>1, <1>2, <2>3, <3>2, <3>3 DEF Awaits, Working, Active, Present
    <3> QED BY <3>4 DEF Kept
  <2>4. CASE AnswerComes(r)
    BY <1>2, <2>4 DEF Kept, AnswerComes
  <2> QED BY <1>2, <2>2, <2>3, <2>4 DEF Kept
<1>7. Backed(e)' /\ Nursed(e)'
  BY <1>2, <1>5, <1>6, HookBacked, NobodyNursed
<1>8. \A q \in Runs : q # r /\ HasRow(q) => HasRow(q)'
  BY <1>2 DEF HasRow, RowsApart
<1>9. LikeApart(r)
  BY <1>2, Unmoved
<1> QED BY <1>0, <1>1, <1>2, <1>3, <1>7, <1>8, <1>9, DriveStrands

\* A poll is repeated, a node run is settled, a run ends or is tried again.
LEMMA SettleStrands ==
    ASSUME TypeOK, Shape, Kindred, OneDrive, Strands, NEW e \in Engines,
           EnqueueNextPoll(e) \/ SettleNode(e) \/ FinishRun(e) \/ RetryRun(e) \/ schedule_node_retry(e)
    PROVE  Strands'
<1>0. PICK r \in Runs : r = eng[e].run
  BY Typed
<1>1. SubflowDecided' /\ Unblocked' /\ UNCHANGED def
  BY CommonDecided DEF CommonStep
<1>2. /\ UNCHANGED api /\ RowsApart(r) /\ Apart(r) /\ run'[r].hole = run[r].hole
      /\ eng[e].phase \in {"repoll", "settle", "finish", "retry", "backoff"} /\ eng'[e].run = r
      /\ \/ eng'[e].phase = "done" /\ eng'[e].keep /\ HasRow(r)'
         \/ eng'[e].phase \in {"retry", "finish", "backoff"} /\ rows' = rows
         \/ eng'[e].phase = "hook" /\ (HasRow(r)' \/ run'[r].status \in Terminal)
  <2>1. CASE EnqueueNextPoll(e)
    BY <1>0, <2>1, RepollEffect DEF Moves, Apart
  <2>2. CASE SettleNode(e)
    BY <1>0, <2>2, SettleNodeEffect DEF Moves, RowsApart, Keeps, Fields
  <2>3. CASE FinishRun(e)
    BY <1>0, <2>3, FinishRunEffect DEF Moves, Keeps, Fields
  <2>4. CASE RetryRun(e)
    BY <1>0, <2>4, RetryRunEffect DEF Moves, RowsApart, Keeps, Fields
  <2>5. CASE schedule_node_retry(e)
    BY <1>0, <2>5, BackoffEffect DEF Moves, Apart
  <2> QED BY <2>1, <2>2, <2>3, <2>4, <2>5
<1>3. Mid(e) /\ ~Child(r)
  BY <1>0, <1>2, Facts DEF Mid
<1>4. Backed(e)
  BY DEF Strands
<1>5. Backed(e)'
  <2>1. CASE eng'[e].phase = "done" /\ eng'[e].keep /\ HasRow(r)'
    BY <1>2, <2>1, PlainBacked
  <2>2. CASE eng'[e].phase \in {"retry", "finish", "backoff"} /\ rows' = rows
    <3>1. run'[r].hole \/ e \in rows'[r].claimed \/ HasRow(r)'
      BY <1>0, <1>2, <1>3, <1>4, <2>2, Secured
    <3> QED BY <1>2, <2>2, <3>1, PlainBacked
  <2>3. CASE eng'[e].phase = "hook" /\ (HasRow(r)' \/ run'[r].status \in Terminal)
    <3>1. Kept(r)'
      BY <2>3 DEF Kept, Excused
    <3> QED BY <1>2, <2>3, <3>1, HookBacked
  <2> QED BY <1>2, <2>1, <2>2, <2>3
<1>6. Nursed(e)'
  BY <1>2, NobodyNursed
<1>7. \A q \in Runs : q # r /\ HasRow(q) => HasRow(q)'
  BY <1>2 DEF HasRow, RowsApart
<1>8. LikeApart(r)
  BY <1>2, ApartIsLike
<1> QED BY <1>0, <1>1, <1>2, <1>3, <1>5, <1>6, <1>7, <1>8, DriveStrands

LEMMA StopStrands ==
    ASSUME TypeOK, Shape, Kindred, OneDrive, Strands, NEW e \in Engines, StepStopped(e)
    PROVE  Strands'
<1>0. PICK r \in Runs : r = eng[e].run
  BY Typed
<1>1. SubflowDecided' /\ Unblocked' /\ UNCHANGED def
  BY CommonDecided DEF CommonStep
<1>2. /\ UNCHANGED <<rows, api>> /\ eng[e].phase = "step" /\ eng'[e].phase = "hook" /\ eng'[e].run = r
      /\ ~Active(r) \/ run[r].status = "paused"
      /\ \/ run[r].status = "paused" /\ Like(r) /\ LikeApart(r) /\ Holed(r)
         \/ run[r].status # "paused" /\ run' = run
  BY <1>0, StepStoppedEffect DEF Moves
<1>3. /\ LikeApart(r) /\ run'[r].status = run[r].status /\ (run[r].hole => run'[r].hole)
  BY <1>2, Unmoved DEF Like, Keeps, Fields
<1>4. Kept(r)'
  BY <1>2, <1>3 DEF Kept, Excused, Active, Present, Holed
<1>5. \/ run'[r].hole \/ e \in rows'[r].claimed \/ HasRow(r)' \/ run'[r].status \in Terminal
  BY <1>0, <1>2, <1>3 DEF Strands, Backed, Busy, HasRow
<1>6. Backed(e)' /\ Nursed(e)'
  BY <1>2, <1>4, <1>5, HookBacked, NobodyNursed
<1>7. \A q \in Runs : q # r /\ HasRow(q) => HasRow(q)'
  BY <1>2 DEF HasRow
<1> QED BY <1>0, <1>1, <1>2, <1>3, <1>6, <1>7, DriveStrands

\* The hook wakes the parent that waits for this run.
LEMMA HookStrands ==
    ASSUME TypeOK, Shape, Kindred, OneDrive, Strands, NEW e \in Engines, maybe_wake_subflow_parent(e)
    PROVE  Strands'
<1>0. PICK r \in Runs : r = eng[e].run
  BY Typed
<1>1. SubflowDecided' /\ Unblocked' /\ UNCHANGED def
  BY CommonDecided DEF CommonStep
<1>2. /\ UNCHANGED <<run, api>> /\ eng[e].phase = "hook" /\ eng'[e].phase = "done" /\ eng'[e].run = r
      /\ ~eng'[e].keep /\ run[r].parent \in Runs
      /\ \/ /\ run[r].status \in Terminal /\ run[r].linked
            /\ RowsApart(run[r].parent) /\ \E p \in Runs : p = run[r].parent /\ HasRow(p)'
         \/ /\ ~(run[r].status \in Terminal /\ run[r].linked) /\ rows' = rows
  <2>1. PICK p \in Runs : p = run[r].parent
    BY <1>0, HookEffect
  <2> QED BY <1>0, <2>1, HookEffect DEF Moves, HasRow
<1>3. LikeApart(r)
  BY <1>2, Unmoved
<1>4. run[r].linked => run[r].parent # r
  BY DEF Shape, Kinship
<1>5. rows'[r] = rows[r]
  BY <1>2, <1>4 DEF RowsApart
<1>6. Kept(r)'
  <2>1. Kept(r)
    BY <1>0, <1>2 DEF Strands, Backed
  <2>2. ASSUME def.kind \in Parents, NEW f \in run[r].frame.flight, Working(f) PROVE Working(f)'
    <3>1. f[2] # r
      BY <2>2, ChildOnRecord
    <3>2. ~AtHook(f[2])
      BY <1>0, <3>1 DEF AtHook, OneDrive
    <3> QED BY <1>2, <2>2, <3>2 DEF Working, Active, Present
  <2>3. Awaits(r) => Awaits(r)'
    BY <1>1, <1>2, <2>2 DEF Awaits
  <2> QED BY <1>2, <1>5, <2>1, <2>3 DEF Kept, Excused, AnswerComes, HasRow
<1>7. \A q \in Runs : q # r /\ HasRow(q) => HasRow(q)'
  BY <1>2 DEF HasRow, RowsApart
<1>8. \/ run'[r].hole \/ e \in rows'[r].claimed \/ HasRow(r)' \/ run'[r].status \in Terminal
  BY <1>0, <1>2, <1>5 DEF Strands, Backed, Busy, HasRow
<1>9. Backed(e)' /\ Nursed(e)'
  BY <1>2, <1>6, <1>8, NobodyNursed DEF Backed
<1>10. Child(r) /\ run[r].linked =>
         \/ Active(r)'
         \/ run'[run[r].parent].hole \/ (\E p \in Runs : p = run[r].parent /\ HasRow(p)')
  <2>1. Present(r)
    BY <1>0, Facts
  <2> QED BY <1>2, <2>1 DEF Child, Active, Present
<1> QED BY <1>0, <1>1, <1>2, <1>3, <1>7, <1>9, <1>10, DriveStrands

LEMMA CommonStrands ==
    ASSUME TypeOK, Shape, Kindred, OneDrive, Strands, NEW e \in Engines, CommonStep(e)
    PROVE  Strands'
  BY ClaimStrands, StopStrands, ParkStrands, PollStrands, ArmStrands, SettleStrands, HookStrands,
     DriveEndsStrands DEF CommonStep

-------------------------------------------------------------------------------
\* A handler of a node without children: its drive still has its row, or its run is kept.
LEMMA HandlerStrands ==
    ASSUME TypeOK, Shape, Kindred, OneDrive, Strands, UNCHANGED <<def, rows, api>>, def.kind \notin Parents,
           NEW e \in Engines, NEW r \in Runs, r = eng[e].run, AtStep(e) \/ Mid(e), eng'[e].run = r,
           LikeApart(r), run[r].hole => run'[r].hole,
           \/ /\ eng'[e].phase \notin {"idle", "fan", "hook", "run", "poll", "arm"}
              /\ eng'[e].phase = "done" => eng'[e].keep
           \/ eng'[e].phase = "hook" /\ Kept(r)'
    PROVE  Strands'
<1>1. eng[e].phase # "idle" /\ eng'[e].phase # "idle"
  BY DEF AtStep, Mid
<1>2. ~Child(r)
  BY Facts
<1>3. run'[r].hole \/ e \in rows'[r].claimed \/ HasRow(r)'
  BY Secured DEF Strands
<1>4. Backed(e)' /\ Nursed(e)'
  BY <1>3, PlainBacked, HookBacked, NobodyNursed
<1>5. \A q \in Runs : q # r /\ HasRow(q) => HasRow(q)'
  BY DEF HasRow
<1>6. SubflowDecided' /\ Unblocked'
  BY OtherStrands
<1> QED BY <1>1, <1>2, <1>4, <1>5, <1>6, DriveStrands

LEMMA WaitingStrands ==
    ASSUME TypeOK, Shape, Kindred, OneDrive, Strands, NEW e \in Engines, WaitingStep(e)
    PROVE  Strands'
<1>0. PICK r \in Runs : r = eng[e].run
  BY Typed
<1>k. def.kind \notin Parents
  BY WaitingShape
<1>1. CASE process_signal_node(e) \/ process_approval_node(e)
  <2>1. /\ UNCHANGED <<def, rows, api>> /\ AtStep(e) /\ def.kind \in Answered /\ eng'[e].run = r
        /\ LikeApart(r) /\ (run[r].hole => run'[r].hole)
        /\ \/ eng'[e].phase \in {"settle", "create"}
           \/ eng'[e].phase = "hook" /\ (run'[r].hole \/ run'[r].node = "parked")
    <3>1. /\ UNCHANGED <<def, rows, api>> /\ AtStep(e) /\ def.kind \in Answered
          /\ \/ /\ run[r].node = "parked" /\ run' = run
                /\ Settles(e, "timed_out") \/ Goes(e, "hook")
             \/ run[r].node = "succeeded" /\ run' = run /\ Settles(e, "succeeded")
             \/ run[r].node = "none" /\ run' = run /\ Goes(e, "create")
             \/ Like(r) /\ LikeApart(r) /\ Holed(r) /\ Goes(e, "hook")
      BY <1>0, <1>1, StampedEffect DEF Answered
    <3>2. run' = run => LikeApart(r)
      BY Unmoved
    <3> QED BY <1>0, <3>1, <3>2 DEF Settles, Goes, Moves, Holed
  <2>2. run'[r].hole \/ run'[r].node = "parked" => Kept(r)'
    BY <2>1 DEF Kept, Excused, Awaits
  <2> QED BY <1>0, <1>k, <2>1, <2>2, HandlerStrands
<1>2. CASE process_input_node(e)
  <2>1. /\ UNCHANGED <<def, run, rows, api>> /\ AtStep(e) /\ def.kind \in Answered /\ eng'[e].run = r
        /\ \/ eng'[e].phase \in {"settle", "create"}
           \/ eng'[e].phase = "hook" /\ run[r].node = "parked"
    BY <1>0, <1>2, InputEffect DEF Answered, Settles, Goes, Moves
  <2>2. run'[r].node = "parked" => Kept(r)'
    BY <2>1 DEF Kept, Awaits
  <2>3. LikeApart(r)
    BY <2>1, Unmoved
  <2> QED BY <1>0, <1>k, <2>1, <2>2, <2>3, HandlerStrands
<1>3. CASE \/ process_wait_node(e) \/ process_debounce_node(e) \/ process_gate_node(e)
           \/ process_await_run_node(e) \/ process_event_source_node(e) \/ process_collect_node(e)
  <2>1. /\ UNCHANGED <<def, run, rows, api>> /\ AtStep(e) /\ eng'[e].run = r
        /\ \/ eng'[e].phase \in {"settle", "create", "repoll"}
           \/ eng'[e].phase = "done" /\ eng'[e].keep
    BY <1>0, <1>3, WatchedEffect DEF Settles, Goes, Moves
  <2>2. LikeApart(r)
    BY <2>1, Unmoved
  <2> QED BY <1>0, <1>k, <2>1, <2>2, HandlerStrands
<1>4. CASE CreateWaiting(e)
  <2>1. /\ UNCHANGED <<def, rows, api>> /\ eng[e].phase = "create" /\ eng'[e].run = r
        /\ Keeps(r, {"node", "tries", "age"}) /\ Apart(r)
        /\ eng'[e].phase \in {"record", "node", "settle"}
    BY <1>0, <1>4, CreateWaitingEffect DEF Settles, Goes, Moves
  <2>2. Mid(e) /\ LikeApart(r) /\ run'[r].hole = run[r].hole
    BY <2>1, ApartIsLike DEF Mid, Keeps, Fields
  <2> QED BY <1>0, <1>k, <2>1, <2>2, HandlerStrands
<1>5. CASE CreateRecord(e)
  <2>1. /\ UNCHANGED <<def, run, rows, api>> /\ eng[e].phase = "record" /\ eng'[e].run = r
        /\ eng'[e].phase = "node"
    BY <1>0, <1>5, CreateRecordEffect DEF Goes, Moves
  <2>2. Mid(e) /\ LikeApart(r)
    BY <2>1, Unmoved DEF Mid
  <2> QED BY <1>0, <1>k, <2>1, <2>2, HandlerStrands
<1> QED BY <1>1, <1>2, <1>3, <1>4, <1>5 DEF WaitingStep

LEMMA SharedStrands ==
    ASSUME TypeOK, Shape, Kindred, OneDrive, Strands, NEW e \in Engines, SharedStep(e)
    PROVE  Strands'
<1>0. PICK r \in Runs : r = eng[e].run
  BY Typed
<1>k. def.kind \notin Parents
  BY SharedShape DEF Parents
<1>1. CASE process_barrier_node(e) \/ process_throttle_node(e) \/ process_cooldown_node(e)
  <2>1. /\ UNCHANGED <<def, run, rows, api>> /\ AtStep(e) /\ eng'[e].run = r
        /\ eng'[e].phase \in {"settle", "barrier", "throttle", "create"}
    BY <1>0, <1>1, LookEffect, CooldownEffect DEF Settles, Goes, Moves
  <2>2. LikeApart(r)
    BY <2>1, Unmoved
  <2> QED BY <1>0, <1>k, <2>1, <2>2, HandlerStrands
<1>2. CASE register_arrival(e)
  <2>1. /\ UNCHANGED <<def, run, rows, api>> /\ eng[e].phase = "barrier" /\ eng'[e].run = r
        /\ eng'[e].phase \in {"create", "settle", "repoll"}
    BY <1>0, <1>2, ArrivalEffect DEF Creates, Settles, Goes, Moves
  <2>2. LikeApart(r) /\ Mid(e)
    BY <2>1, Unmoved DEF Mid
  <2> QED BY <1>0, <1>k, <2>1, <2>2, HandlerStrands
<1>3. CASE consume_token(e) \/ stamp_cooldown(e)
  <2>1. /\ UNCHANGED <<def, rows, api>> /\ eng[e].phase \in {"throttle", "cooldown"} /\ eng'[e].run = r
        /\ Keeps(r, {"since"}) /\ Apart(r)
        /\ eng'[e].phase \in {"create", "settle", "repoll", "skip"}
    <3>1. CASE consume_token(e)
      BY <1>0, <3>1, TokenEffect DEF Creates, Settles, Goes, Moves
    <3>2. CASE stamp_cooldown(e)
      BY <1>0, <3>2, StampEffect DEF Settles, Goes, Moves
    <3> QED BY <1>3, <3>1, <3>2
  <2>2. Mid(e) /\ LikeApart(r) /\ run'[r].hole = run[r].hole
    BY <2>1, ApartIsLike DEF Mid, Keeps, Fields
  <2> QED BY <1>0, <1>k, <2>1, <2>2, HandlerStrands
<1>4. CASE CreateShared(e)
  <2>1. /\ UNCHANGED <<def, rows, api>> /\ eng[e].phase = "create" /\ eng'[e].run = r
        /\ Keeps(r, {"node", "tries", "age"}) /\ Apart(r)
        /\ eng'[e].phase \in {"cooldown", "node", "settle"}
    BY <1>0, <1>4, CreateSharedEffect DEF Goes, Moves
  <2>2. Mid(e) /\ LikeApart(r) /\ run'[r].hole = run[r].hole
    BY <2>1, ApartIsLike DEF Mid, Keeps, Fields
  <2> QED BY <1>0, <1>k, <2>1, <2>2, HandlerStrands
<1>5. CASE SkipNode(e)
  <2>1. /\ UNCHANGED <<def, rows, api>> /\ eng[e].phase = "skip" /\ eng'[e].run = r
        /\ Keeps(r, {"node"}) /\ Apart(r) /\ eng'[e].phase = "skip_run"
    BY <1>0, <1>5, SkipNodeEffect DEF Goes, Moves
  <2>2. Mid(e) /\ LikeApart(r) /\ run'[r].hole = run[r].hole
    BY <2>1, ApartIsLike DEF Mid, Keeps, Fields
  <2> QED BY <1>0, <1>k, <2>1, <2>2, HandlerStrands
<1>6. CASE SkipRun(e)
  <2>1. /\ UNCHANGED <<def, api>> /\ eng[e].phase = "skip_run" /\ eng'[e].run = r
        /\ eng'[e].phase = "hook" /\ Apart(r) /\ run'[r].status = "succeeded" /\ RowsApart(r)
    BY <1>0, <1>6, SkipRunEffect DEF Goes, Moves
  <2>2. run'[r].status \in Terminal /\ Kept(r)'
    BY <2>1 DEF Kept, Excused, Terminal
  <2>3. Backed(e)' /\ Nursed(e)' /\ SubflowDecided' /\ Unblocked'
    BY <1>k, <2>1, <2>2, HookBacked, NobodyNursed, OtherStrands
  <2>4. \A q \in Runs : q # r /\ HasRow(q) => HasRow(q)'
    BY <2>1 DEF HasRow, RowsApart
  <2>5. LikeApart(r) /\ ~Child(r)
    BY <1>0, <1>k, <2>1, ApartIsLike, Facts
  <2> QED BY <1>0, <2>1, <2>3, <2>4, <2>5, DriveStrands
<1> QED BY <1>1, <1>2, <1>3, <1>4, <1>5, <1>6 DEF SharedStep

-------------------------------------------------------------------------------
\* The same for a node with children, or for a child.
LEMMA ParentStrands ==
    ASSUME TypeOK, Shape, Kindred, OneDrive, Strands, UNCHANGED <<def, rows, api>>,
           NEW e \in Engines, NEW r \in Runs, r = eng[e].run, AtStep(e) \/ Mid(e), eng'[e].run = r,
           LikeApart(r), run[r].hole => run'[r].hole, run'[r].status = run[r].status,
           \/ /\ eng'[e].phase \notin {"idle", "hook", "run", "poll", "arm"}
              /\ eng'[e].phase = "done" => eng'[e].keep
           \/ eng'[e].phase = "hook" /\ Kept(r)',
           Nursed(e)', SubflowDecided'
    PROVE  Strands'
<1>1. eng[e].phase \notin {"idle", "hook"} /\ eng'[e].phase # "idle"
  BY DEF AtStep, Mid
<1>2. Active(r) => Active(r)'
  BY DEF Active, Present
<1>3. run'[r].hole \/ e \in rows'[r].claimed \/ HasRow(r)'
  BY Secured DEF Strands
<1>4. Backed(e)'
  BY <1>3, PlainBacked, HookBacked
<1>5. \A q \in Runs : q # r /\ HasRow(q) => HasRow(q)'
  BY DEF HasRow
<1>6. Unblocked'
  <2>1. \A q \in Runs : run'[q].status = run[q].status
    BY DEF LikeApart, Like, Keeps, Fields
  <2> QED BY <2>1 DEF Strands, Unblocked
<1> QED BY <1>1, <1>2, <1>4, <1>5, <1>6, DriveStrands

LEMMA SubflowQuiet ==
    ASSUME TypeOK, Kindred, OneDrive, Strands, UNCHANGED def, NEW e \in Engines, NEW r \in Runs, r = eng[e].run,
           \A q \in Runs : /\ run'[q].status = run[q].status /\ run'[q].node = run[q].node
                           /\ run'[q].frame = run[q].frame /\ run'[q].age = run[q].age
                           /\ run[q].hole => run'[q].hole,
           eng'[e].phase # "settle"
    PROVE  SubflowDecided'
<1>1. EndsHeld
  BY EndsSame
<1> QED BY <1>1, DecidedOn

\* A child's own steps.
LEMMA BodyStrands ==
    ASSUME TypeOK, Shape, Kindred, OneDrive, Strands, NEW e \in Engines, StartBody(e) \/ AwaitBody(e)
    PROVE  Strands'
<1>0. PICK r \in Runs : r = eng[e].run
  BY Typed
<1>1. /\ UNCHANGED <<def, rows, api>> /\ AtStep(e) /\ eng'[e].run = r /\ eng'[e].phase = "hook"
      /\ run'[r].body = "busy" /\ LikeApart(r)
      /\ run'[r].status = run[r].status /\ run'[r].node = run[r].node
      /\ run'[r].frame = run[r].frame /\ run'[r].age = run[r].age
      /\ run[r].hole => run'[r].hole
  <2>1. CASE StartBody(e)
    <3>1. /\ UNCHANGED <<def, rows, api>> /\ AtStep(e) /\ Goes(e, "hook") /\ run'[r].body = "busy"
          /\ \/ Keeps(r, {"body", "linked", "hole"}) /\ LikeApart(r) /\ Holed(r)
             \/ Keeps(r, {"body"}) /\ Apart(r)
      BY <1>0, <2>1, StartBodyEffect
    <3>2. LikeApart(r) /\ Keeps(r, {"body", "linked", "hole"}) /\ (run[r].hole => run'[r].hole)
      BY <3>1, ApartIsLike DEF Keeps, Fields, Holed
    <3> QED BY <1>0, <3>1, <3>2 DEF Goes, Moves, Keeps, Fields
  <2>2. CASE AwaitBody(e)
    BY <1>0, <2>2, AwaitBodyEffect, Unmoved DEF Goes, Moves
  <2> QED BY <2>1, <2>2
<1>2. Kept(r)'
  BY <1>1 DEF Kept, Awaits
<1>3. \A q \in Runs : /\ run'[q].status = run[q].status /\ run'[q].node = run[q].node
                      /\ run'[q].frame = run[q].frame /\ run'[q].age = run[q].age
                      /\ run[q].hole => run'[q].hole
  BY <1>1 DEF LikeApart, Like, Keeps, Fields
<1>4. SubflowDecided' /\ Nursed(e)'
  BY <1>0, <1>1, <1>3, SubflowQuiet, NobodyNursed
<1> QED BY <1>0, <1>1, <1>2, <1>4, ParentStrands

LEMMA FinishStrands ==
    ASSUME TypeOK, Shape, Kindred, OneDrive, Strands, NEW e \in Engines, FinishChild(e)
    PROVE  Strands'
<1>0. PICK r \in Runs : r = eng[e].run
  BY Typed
<1>1. /\ UNCHANGED <<def, api>> /\ AtStep(e) /\ eng'[e].run = r /\ eng'[e].phase = "hook"
      /\ Keeps(r, {"status"}) /\ Apart(r) /\ run'[r].status \in Terminal /\ RowsApart(r)
  BY <1>0, FinishChildEffect DEF Goes, Moves
<1>2. eng[e].phase # "idle" /\ run[r].status \notin Terminal
  BY <1>0, <1>1 DEF AtStep, Active
<1>3. LikeApart(r) /\ EndsHeld
  BY <1>1, <1>2, ApartIsLike, EndsApart
<1>4. Kept(r)'
  BY <1>1 DEF Kept, Excused
<1>5. Backed(e)' /\ Nursed(e)'
  BY <1>1, <1>4, HookBacked, NobodyNursed
<1>6. \A q \in Runs : /\ run'[q].node = run[q].node /\ (run[q].hole => run'[q].hole)
                      /\ run'[q].frame = run[q].frame /\ run'[q].age = run[q].age
                      /\ run'[q].status = run[q].status \/ run'[q].status \in Terminal
  BY <1>1 DEF Apart, Keeps, Fields
<1>7. SubflowDecided'
  BY <1>0, <1>1, <1>3, <1>6, DecidedOn
<1>8. Unblocked'
  BY <1>1, <1>6 DEF Strands, Unblocked, Terminal
<1>9. \A q \in Runs : q # r /\ HasRow(q) => HasRow(q)'
  BY <1>1 DEF HasRow, RowsApart
<1> QED BY <1>0, <1>1, <1>2, <1>3, <1>5, <1>7, <1>8, <1>9, DriveStrands

\* A child is started, with its row.
LEMMA SpawnStrands ==
    ASSUME TypeOK, Shape, Kindred, OneDrive, Strands, UNCHANGED <<def, api>>, def.kind \in Parents,
           NEW e \in Engines, NEW r \in Runs, r = eng[e].run, Mid(e),
           eng'[e].run = r, eng'[e].phase \in {"fan", "create"},
           NEW c \in Runs, NEW i, Spawns(r, c, i), Nursed(e)'
    PROVE  Strands'
<1>o. \A d \in Engines : d = e
  BY DEF OneDrive
<1>1. /\ ~Present(c) /\ Apart(c) /\ RowsApart(c) /\ rows'[c].due = 1 /\ run'[c].status = "queued"
      /\ Keeps(c, {"status", "parent", "linked", "body", "index", "node"})
  BY DEF Spawns
<1>2. /\ run[c].frame = NoFrame /\ ~IsChild(c) /\ run'[c].frame = NoFrame /\ run'[c].hole = run[c].hole
  BY <1>1 DEF Shape, Presence, Blank, IsChild, Keeps, Fields
<1>3. Present(r) /\ r # c
  BY <1>1, Facts
<1>4. ASSUME NEW q \in Runs, ~Driven(q)' PROVE Kept(q)'
  <2>1. q # r
    BY <1>4 DEF Driven
  <2>2. CASE q = c
    BY <1>1, <2>2 DEF Kept, HasRow
  <2>3. CASE q # c
    <3>1. run'[q] = run[q] /\ rows'[q] = rows[q] /\ Kept(q)
      BY <1>o, <1>1, <2>1, <2>3 DEF Apart, RowsApart, Strands, Driven
    <3>2. ASSUME NEW f \in run[q].frame.flight, Working(f) PROVE Working(f)'
      <4>1. f[2] \in Runs /\ f[2] # c
        BY <1>1, ChildOnRecord
      <4>2. run'[f[2]] = run[f[2]] /\ ~AtHook(f[2])
        BY <1>o, <1>1, <4>1 DEF Apart, AtHook, Mid
      <4> QED BY <3>2, <4>2 DEF Working, Active, Present
    <3>3. Awaits(q) => Awaits(q)'
      BY <3>1, <3>2 DEF Awaits
    <3> QED BY <3>1, <3>3 DEF Kept, Excused, HasRow, AnswerComes
  <2> QED BY <2>2, <2>3
<1>5. Backed(e)'
  <2>1. run'[r] = run[r] /\ rows'[r] = rows[r]
    BY <1>1, <1>3 DEF Apart, RowsApart
  <2>2. run'[r].hole \/ e \in rows'[r].claimed \/ HasRow(r)'
    BY <2>1, Secured DEF Strands
  <2> QED BY <2>2, PlainBacked
<1>6. SubflowDecided'
  <2>1. EndsHeld
    BY <1>1, <1>2, ApartIsLike, EndsApart DEF Child
  <2>2. \A q \in Runs : /\ run[q].hole => run'[q].hole
                        /\ \/ run'[q].frame = NoFrame
                           \/ run'[q].node = run[q].node /\ run'[q].frame = run[q].frame /\ run'[q].age = run[q].age
    BY <1>1, <1>2 DEF Apart
  <2> QED BY <2>1, <2>2, DecidedOn
<1>7. Unblocked'
  BY <1>1 DEF Strands, Unblocked, Apart
<1>8. \A d \in Engines : (Backed(d) /\ Nursed(d))'
  BY <1>o, <1>5
<1>9. \A q \in Runs : (~Driven(q) => Kept(q))'
  BY <1>4
<1> QED BY <1>6, <1>7, <1>8, <1>9 DEF Strands

-------------------------------------------------------------------------------
\* A map that has nothing in flight and nothing to come is done.
LEMMA NothingLeft ==
    ASSUME TypeOK, NEW fr \in Frames, Tally(fr), fr.flight = {}, fr.next >= def.items
    PROVE  Cardinality(fr.done) >= def.items
<1>1. fr.next \in Nat /\ def.items \in Nat /\ fr.done \subseteq Nat
  BY ScenariosAssumption DEF Frames, TypeOK, Scenario
<1>2. fr.next = def.items
  BY <1>1 DEF Tally
<1>3. fr.done = 0..(def.items - 1)
  <2>1. ASSUME NEW i \in Nat PROVE i \in fr.done <=> i < def.items
    BY <1>2 DEF Tally
  <2>2. \A i : i \in 0..(def.items - 1) <=> i \in Nat /\ i < def.items
    BY <1>1
  <2> QED BY <1>1, <2>1, <2>2
<1>4. Cardinality(0..(def.items - 1)) = IF 0 > def.items - 1 THEN 0 ELSE (def.items - 1) - 0 + 1
  <2>1. 0 \in Int /\ def.items - 1 \in Int
    BY <1>1
  <2> QED BY <2>1, FS_Interval
<1> QED BY <1>1, <1>3, <1>4

\* A map that fails cancels its children one by one.
LEMMA CancelStrands ==
    ASSUME TypeOK, Shape, Kindred, OneDrive, Strands, NEW e \in Engines, cancel_children(e)
    PROVE  Strands'
<1>0. PICK r \in Runs : r = eng[e].run
  BY Typed
<1>o. \A d \in Engines : d = e
  BY DEF OneDrive
<1>1. /\ UNCHANGED <<def, api>> /\ eng[e].phase = "cancel"
      /\ \/ UNCHANGED <<run, rows>> /\ eng'[e].run = r /\ eng'[e].phase = "settle"
         \/ \E c \in Runs :
               /\ \E f \in run[r].frame.flight : f[2] = c
               /\ UNCHANGED eng /\ Apart(c) /\ run'[c].status = "canceled" /\ RowsApart(c)
  BY <1>0, CancelChildrenEffect DEF Settles, Moves
<1>2. Mid(e) /\ def.kind = "map" /\ def.kind \in Parents
  BY <1>0, <1>1, Facts DEF Mid, PhaseFits, Parents
<1>3. SubflowDecided'
  BY <1>1, <1>2 DEF SubflowDecided
<1>4. CASE UNCHANGED <<run, rows>> /\ eng'[e].run = r /\ eng'[e].phase = "settle"
  <2>1. LikeApart(r) /\ Nursed(e)'
    BY <1>4, Unmoved, NobodyNursed
  <2> QED BY <1>0, <1>1, <1>2, <1>3, <1>4, <2>1, ParentStrands
<1>5. ASSUME NEW c \in Runs, NEW g \in run[r].frame.flight, g[2] = c,
             UNCHANGED eng, Apart(c), run'[c].status = "canceled", RowsApart(c)
      PROVE  Strands'
  <2>1. c # r /\ run[c].parent = r
    BY <1>2, <1>5, ChildOnRecord
  <2>2. ASSUME NEW q \in Runs, ~Driven(q)' PROVE Kept(q)'
    <3>1. q # r /\ Kept(q)
      BY <1>0, <1>1, <1>5, <2>2 DEF Driven, Strands
    <3>2. CASE q = c
      BY <1>5, <3>2 DEF Kept, Excused, Terminal
    <3>3. CASE q # c
      <4>1. run'[q] = run[q] /\ rows'[q] = rows[q]
        BY <1>5, <3>3 DEF Apart, RowsApart
      <4>2. ASSUME NEW f \in run[q].frame.flight, Working(f) PROVE Working(f)'
        <5>1. f[2] \in Runs /\ run[f[2]].parent = q
          BY <1>2, ChildOnRecord
        <5>2. run'[f[2]] = run[f[2]]
          BY <1>5, <2>1, <3>1, <5>1 DEF Apart
        <5> QED BY <1>5, <4>2, <5>2 DEF Working, Active, Present, AtHook
      <4>3. Awaits(q) => Awaits(q)'
        BY <1>1, <4>1, <4>2 DEF Awaits
      <4> QED BY <1>1, <3>1, <4>1, <4>3 DEF Kept, Excused, HasRow, AnswerComes
    <3> QED BY <3>2, <3>3
  <2>3. Backed(e)' /\ Nursed(e)'
    <3>1. run'[r] = run[r] /\ rows'[r] = rows[r]
      BY <1>5, <2>1 DEF Apart, RowsApart
    <3>2. run'[r].hole \/ e \in rows'[r].claimed \/ HasRow(r)'
      BY <1>0, <1>2, <3>1, Secured DEF Strands
    <3> QED BY <1>0, <1>1, <1>5, <3>2, PlainBacked, NobodyNursed
  <2>4. Unblocked'
    BY <1>1, <1>5 DEF Strands, Unblocked, Apart
  <2>5. \A d \in Engines : (Backed(d) /\ Nursed(d))'
    BY <1>o, <2>3
  <2>6. \A q \in Runs : (~Driven(q) => Kept(q))'
    BY <2>2
  <2> QED BY <1>3, <2>4, <2>5, <2>6 DEF Strands
<1> QED BY <1>1, <1>4, <1>5

LEMMA MapStrands ==
    ASSUME TypeOK, Shape, Kindred, OneDrive, Strands, NEW e \in Engines,
           process_map_node(e) \/ CreateMap(e) \/ Harvest(e) \/ FanOut(e)
    PROVE  Strands'
<1>0. PICK r \in Runs : r = eng[e].run
  BY Typed
<1>1. CASE process_map_node(e)
  <2>1. /\ UNCHANGED <<def, run, rows, api>> /\ AtStep(e) /\ def.kind = "map" /\ eng'[e].run = r
        /\ eng'[e].phase \in {"create", "settle", "harvest"}
    BY <1>0, <1>1, MapEffect DEF Settles, Goes, Moves
  <2>2. Nursed(e)' /\ SubflowDecided' /\ LikeApart(r)
    BY <2>1, Unmoved DEF Nursed, SubflowDecided
  <2> QED BY <1>0, <2>1, <2>2, ParentStrands
<1>2. CASE CreateMap(e)
  <2>1. /\ UNCHANGED <<def, rows, api>> /\ eng[e].phase = "create" /\ def.kind = "map" /\ eng'[e].run = r
        /\ eng'[e].phase = "harvest" /\ Keeps(r, {"node", "tries", "age"}) /\ Apart(r)
    BY <1>0, <1>2, CreateMapEffect DEF Goes, Moves
  <2>2. /\ Nursed(e)' /\ SubflowDecided' /\ LikeApart(r) /\ Mid(e)
        /\ run'[r].hole = run[r].hole /\ run'[r].status = run[r].status
    BY <2>1, ApartIsLike, NobodyNursed DEF SubflowDecided, Mid, Keeps, Fields
  <2> QED BY <1>0, <2>1, <2>2, ParentStrands
<1>3. CASE Harvest(e)
  <2>1. /\ UNCHANGED <<def, run, rows, api>> /\ eng[e].phase = "harvest" /\ eng'[e].run = r
        /\ \/ eng'[e].phase = "cancel"
           \/ eng'[e].phase = "fan" /\ Harvested(eng'[e].frame, run[r].frame)
    BY <1>0, <1>3, HarvestEffect DEF Goes, Moves
  <2>2. Mid(e) /\ def.kind = "map" /\ def.kind \in Parents /\ LikeApart(r)
    BY <1>0, <2>1, Facts, Unmoved DEF Mid, PhaseFits, Parents
  <2>3. SubflowDecided'
    BY <2>1, <2>2 DEF SubflowDecided
  <2>4. Nursed(e)'
    <3>1. CASE eng'[e].phase = "cancel"
      BY <3>1, NobodyNursed
    <3>2. CASE eng'[e].phase = "fan" /\ Harvested(eng'[e].frame, run[r].frame)
      <4>1. ASSUME NEW f \in eng'[e].frame.flight PROVE Active(f[2])'
        <5>1. f \in run[r].frame.flight /\ run[f[2]].status \notin Terminal
          BY <3>2 DEF Harvested
        <5>2. Present(f[2])
          BY <2>2, <5>1, ChildOnRecord
        <5> QED BY <2>1, <5>1, <5>2 DEF Active, Present
      <4> QED BY <3>2, <4>1 DEF Nursed
    <3> QED BY <2>1, <3>1, <3>2
  <2> QED BY <1>0, <2>1, <2>2, <2>3, <2>4, ParentStrands
<1>4. CASE FanOut(e)
  <2>0. Nursed(e)
    BY DEF Strands
  <2>1. /\ UNCHANGED <<def, api>> /\ eng[e].phase = "fan" /\ eng'[e].run = r
        /\ \/ \E c \in Runs :
              /\ Spawns(r, c, eng[e].frame.next) /\ eng'[e].phase = "fan"
              /\ eng'[e].frame.flight = eng[e].frame.flight \cup {<<eng[e].frame.next, c>>}
           \/ UNCHANGED <<run, rows>> /\ eng'[e].phase = "settle"
           \/ /\ UNCHANGED <<run, rows>> /\ eng'[e].phase = "node" /\ eng'[e].frame = eng[e].frame
              /\ eng[e].frame.flight = {} => eng[e].frame.next >= def.items
              /\ ~(Cardinality(eng[e].frame.done) >= def.items /\ eng[e].frame.flight = {})
    BY <1>0, <1>4, FanOutEffect DEF Settles, Goes, Moves
  <2>2. Mid(e) /\ def.kind = "map" /\ def.kind \in Parents
    BY <1>0, <2>1, Facts DEF Mid, PhaseFits, Parents
  <2>3. SubflowDecided'
    BY <2>1, <2>2 DEF SubflowDecided
  <2>4. ASSUME NEW c \in Runs, Spawns(r, c, eng[e].frame.next), eng'[e].phase = "fan",
               eng'[e].frame.flight = eng[e].frame.flight \cup {<<eng[e].frame.next, c>>}
        PROVE  Strands'
    <3>1. /\ ~Present(c) /\ Apart(c) /\ run'[c].status = "queued"
      BY <2>4 DEF Spawns
    <3>2. r # c /\ run'[r] = run[r]
      BY <1>0, <3>1, Facts DEF Apart
    <3>3. ASSUME ~run'[r].hole, NEW f \in eng'[e].frame.flight PROVE Active(f[2])'
      <4>1. CASE f = <<eng[e].frame.next, c>>
        <5>1. f[2] = c
          BY <4>1
        <5> QED BY <3>1, <5>1 DEF Active, Present, Terminal
      <4>2. CASE f \in eng[e].frame.flight
        <5>1. f[2] \in Runs /\ Active(f[2])
          BY <1>0, <2>0, <2>1, <3>2, <3>3, <4>2, FlightType DEF Nursed
        <5>2. run'[f[2]] = run[f[2]]
          BY <3>1, <5>1 DEF Apart, Active
        <5> QED BY <5>1, <5>2 DEF Active, Present
      <4> QED BY <2>4, <3>3, <4>1, <4>2
    <3>4. Nursed(e)'
      BY <2>1, <2>4, <3>3 DEF Nursed
    <3> QED BY <1>0, <2>1, <2>2, <2>4, <3>4, SpawnStrands
  <2>5. CASE UNCHANGED <<run, rows>> /\ eng'[e].phase = "settle"
    <3>1. Nursed(e)' /\ LikeApart(r)
      BY <2>5, NobodyNursed, Unmoved
    <3> QED BY <1>0, <2>1, <2>2, <2>3, <2>5, <3>1, ParentStrands
  <2>6. CASE /\ UNCHANGED <<run, rows>> /\ eng'[e].phase = "node" /\ eng'[e].frame = eng[e].frame
             /\ eng[e].frame.flight = {} => eng[e].frame.next >= def.items
             /\ ~(Cardinality(eng[e].frame.done) >= def.items /\ eng[e].frame.flight = {})
    <3>1. eng[e].frame \in Frames /\ Tally(eng[e].frame)
      BY <2>2, FlightType DEF Kindred, Tallies
    <3>2. eng[e].frame.flight # {}
      BY <2>6, <3>1, NothingLeft
    <3>3. ~run[r].hole => \E f \in eng[e].frame.flight : Active(f[2])
      BY <1>0, <2>0, <2>1, <3>2 DEF Nursed
    <3>4. Nursed(e)'
      BY <2>1, <2>2, <2>6, <3>3 DEF Nursed, Active, Present
    <3>5. LikeApart(r)
      BY <2>6, Unmoved
    <3> QED BY <1>0, <2>1, <2>2, <2>3, <2>6, <3>4, <3>5, ParentStrands
  <2> QED BY <2>1, <2>4, <2>5, <2>6
<1> QED BY <1>1, <1>2, <1>3, <1>4

-------------------------------------------------------------------------------
LEMMA SubflowStrands ==
    ASSUME TypeOK, Shape, Kindred, OneDrive, Strands, NEW e \in Engines,
           \/ process_subflow_node(e) \/ ReuseRun(e) \/ create_subflow_run(e)
           \/ CreateSubflow(e) \/ LinkSubflow(e)
    PROVE  Strands'
<1>0. PICK r \in Runs : r = eng[e].run
  BY Typed
<1>n. Nursed(e)
  BY DEF Strands
<1>1. CASE process_subflow_node(e)
  <2>1. /\ UNCHANGED <<def, run, rows, api>> /\ AtStep(e) /\ def.kind = "subflow" /\ eng'[e].run = r
        /\ \/ eng'[e].phase = "spawn"
           \/ eng'[e].phase = "settle" /\ (def.body = "detached" \/ DecidedSubflow(r))
           \/ /\ eng'[e].phase = "hook" /\ def.body # "detached" /\ ~timed_out(r)
              /\ \E f \in run[r].frame.flight : run[f[2]].status # "succeeded"
              /\ \A f \in run[r].frame.flight : run[f[2]].status \notin Failed \cup {"blocked"}
    BY <1>0, <1>1, SubflowEffect DEF Settles, Goes, Moves, DecidedSubflow
  <2>2. LikeApart(r) /\ EndsHeld
    BY <2>1, Unmoved, EndsSame
  <2>3. SubflowDecided'
    BY <1>0, <2>1, <2>2, DecidedOn
  <2>4. Nursed(e)'
    BY <2>1, NobodyNursed
  <2>5. ASSUME eng'[e].phase = "hook" PROVE Kept(r)'
    <3>1. ~DecidedSubflow(r) /\ def.body # "detached"
      BY <2>1, <2>5 DEF DecidedSubflow
    <3>2. run[r].hole \/ run[r].node = "parked"
      BY <2>1, <3>1 DEF Strands, SubflowDecided
    <3>3. PICK f \in run[r].frame.flight : run[f[2]].status # "succeeded"
      BY <2>1, <2>5
    <3>4. run[f[2]].status \notin Terminal /\ Present(f[2])
      <4>1. Present(f[2])
        BY <2>1, ChildOnRecord DEF Parents
      <4> QED BY <2>1, <2>5, <3>3, <4>1 DEF Failed
    <3>5. Active(f[2])'
      BY <2>1, <3>4 DEF Active, Present
    <3>6. run[r].node = "parked" => Awaits(r)'
      BY <2>1, <3>5 DEF Awaits, Working, Parents
    <3> QED BY <2>1, <3>2, <3>6 DEF Kept, Excused
  <2> QED BY <1>0, <2>1, <2>2, <2>3, <2>4, <2>5, ParentStrands
<1>2. CASE ReuseRun(e)
  <2>1. /\ UNCHANGED <<def, rows, api>> /\ eng[e].phase = "spawn" /\ eng'[e].run = r /\ eng'[e].phase = "create"
        /\ Like(r) /\ LikeApart(r) /\ run'[r].hole
    BY <1>0, <1>2, ReuseRunEffect DEF Links, Moves, Holed
  <2>2. \A q \in Runs : /\ run'[q].status = run[q].status /\ run'[q].node = run[q].node
                        /\ run'[q].frame = run[q].frame /\ run'[q].age = run[q].age
                        /\ run[q].hole => run'[q].hole
    BY <2>1 DEF LikeApart, Like, Keeps, Fields
  <2>3. SubflowDecided'
    BY <1>0, <2>1, <2>2, SubflowQuiet
  <2>4. Nursed(e)' /\ Mid(e)
    BY <2>1 DEF Nursed, Mid
  <2> QED BY <1>0, <2>1, <2>2, <2>3, <2>4, ParentStrands
<1>3. CASE create_subflow_run(e)
  <2>1. /\ UNCHANGED <<def, api>> /\ eng[e].phase = "spawn" /\ eng'[e].run = r /\ eng'[e].phase = "create"
        /\ \E c \in Runs : Spawns(r, c, 0) /\ eng'[e].frame.flight = {<<0, c>>}
    BY <1>0, <1>3, CreateSubflowRunEffect DEF Links, Moves
  <2>2. PICK c \in Runs : Spawns(r, c, 0) /\ eng'[e].frame.flight = {<<0, c>>}
    BY <2>1
  <2>3. Mid(e) /\ def.kind \in Parents
    BY <1>0, <2>1, Facts DEF Mid, PhaseFits, Parents
  <2>4. Active(c)'
    BY <2>2 DEF Spawns, Active, Present, Terminal
  <2>5. \E f \in eng'[e].frame.flight : Active(f[2])'
    <3>1. <<0, c>> \in eng'[e].frame.flight /\ <<0, c>>[2] = c
      BY <2>2
    <3> QED BY <2>4, <3>1
  <2>6. Nursed(e)'
    BY <2>1, <2>5 DEF Nursed
  <2> QED BY <1>0, <2>1, <2>2, <2>3, <2>6, SpawnStrands
<1>4. CASE CreateSubflow(e)
  <2>1. /\ UNCHANGED <<def, rows, api>> /\ eng[e].phase = "create" /\ def.kind = "subflow"
        /\ eng'[e].run = r /\ eng'[e].frame = eng[e].frame /\ eng'[e].phase \in {"link", "node"}
        /\ Keeps(r, {"node", "tries", "age", "frame"}) /\ Apart(r) /\ run'[r].frame = NoFrame
    BY <1>0, <1>4, CreateSubflowEffect DEF Goes, Moves
  <2>2. /\ LikeApart(r) /\ Mid(e) /\ run'[r].hole = run[r].hole /\ run'[r].status = run[r].status
    BY <2>1, ApartIsLike DEF Keeps, Fields, Mid
  <2>3. \A q \in Runs : /\ run'[q].status = run[q].status /\ (run[q].hole => run'[q].hole)
                        /\ run'[q].frame = NoFrame \/ run'[q] = run[q]
    BY <2>1, <2>2 DEF Apart
  <2>4. SubflowDecided'
    <3>1. EndsHeld
      BY <2>3, EndsSame
    <3> QED BY <1>0, <2>1, <2>3, <3>1, DecidedOn
  <2>5. Nursed(e)'
    <3>1. \A f \in eng[e].frame.flight : Active(f[2]) => Active(f[2])'
      BY <1>0, <2>1, <2>2, StillActive DEF Parents
    <3> QED BY <1>0, <1>n, <2>1, <2>2, <3>1 DEF Nursed
  <2> QED BY <1>0, <2>1, <2>2, <2>4, <2>5, ParentStrands
<1>5. CASE LinkSubflow(e)
  <2>1. /\ UNCHANGED <<def, rows, api>> /\ eng[e].phase = "link" /\ eng'[e].run = r /\ eng'[e].phase = "settle"
        /\ Keeps(r, {"node", "frame"}) /\ Apart(r)
    BY <1>0, <1>5, LinkSubflowEffect DEF Settles, Moves
  <2>2. /\ LikeApart(r) /\ Mid(e) /\ run'[r].hole = run[r].hole /\ run'[r].status = run[r].status
    BY <2>1, ApartIsLike DEF Keeps, Fields, Mid
  <2>3. def.body = "detached"
    BY <1>0, <2>1, Facts DEF PhaseFits
  <2>4. SubflowDecided' /\ Nursed(e)'
    BY <2>1, <2>3, NobodyNursed DEF SubflowDecided
  <2> QED BY <1>0, <2>1, <2>2, <2>4, ParentStrands
<1> QED BY <1>1, <1>2, <1>3, <1>4, <1>5

LEMMA ChildStrands ==
    ASSUME TypeOK, Shape, Kindred, OneDrive, Strands, NEW e \in Engines, ChildStep(e)
    PROVE  Strands'
  BY BodyStrands, FinishStrands, CancelStrands, MapStrands, SubflowStrands DEF ChildStep

LEMMA NextStrands ==
    ASSUME TypeOK, Shape, Kindred, OneDrive, Strands, [Next]_vars
    PROVE  Strands'
<1>1. ASSUME NEW e \in Engines, EngineStep(e) PROVE Strands'
  BY <1>1, CommonStrands, WaitingStrands, SharedStrands, ChildStrands DEF EngineStep
<1>2. CASE WebService \/ (\E c \in Runs : BodyEnds(c)) \/ Operator \/ Faulty \/ Tick
  BY <1>2, OutsideStrands
<1>3. CASE UNCHANGED vars
  <2>1. UNCHANGED <<def, run, rows, eng, api>>
    BY <1>3 DEF vars
  <2>2. (\A r \in Runs : ~Driven(r) => Kept(r))'
    BY <2>1 DEF Strands, Driven, Kept, Excused, AnswerComes, HasRow, Awaits, Working, Active, Present, AtHook
  <2>3. (\A e \in Engines : Backed(e))'
    BY <2>1 DEF Strands, Backed, Busy, PollAfter, Kept, Excused, AnswerComes, HasRow, Awaits, Working,
                Active, Present, AtHook
  <2>4. (\A e \in Engines : Nursed(e))'
    BY <2>1 DEF Strands, Nursed, Active, Present
  <2>5. SubflowDecided' /\ Unblocked'
    BY <2>1 DEF Strands, SubflowDecided, DecidedSubflow, timed_out, Unblocked
  <2> QED BY <2>2, <2>3, <2>4, <2>5 DEF Strands
<1> QED BY <1>1, <1>2, <1>3 DEF Next

LEMMA InitStrands == Init => Strands
<1> SUFFICES ASSUME Init PROVE Strands
  OBVIOUS
<1>1. /\ \A r \in Runs : run[r].status = "queued" => HasRow(r)
      /\ \A r \in Runs : run[r].status \in {"absent", "queued", "running"}
      /\ \A r \in Runs : run[r].status = "running" => run[r].body = "busy"
      /\ \A e \in Engines : eng[e].phase = "idle"
      /\ \A r \in Runs : run[r].frame = NoFrame
  <2>1. ASSUME NEW r \in Runs PROVE (run[r].status = "queued" => HasRow(r)) /\ run[r].frame = NoFrame
    <3>1. run[r] = NewRun(def, r)
      BY InitFacts
    <3>2. run[r].frame = NoFrame /\ (run[r].status = "queued" => r \in Started(def))
      BY <3>1 DEF NewRun
    <3> QED BY <3>2, InitFacts DEF HasRow
  <2> QED BY <2>1, InitFacts DEF Idle
<1>2. \A r \in Runs : Kept(r)
  BY <1>1 DEF Kept, Excused, Awaits
<1>3. \A e \in Engines : Backed(e) /\ Nursed(e)
  BY <1>1 DEF Backed, Nursed, Busy
<1>4. SubflowDecided
  BY <1>1 DEF SubflowDecided, DecidedSubflow, NoFrame
<1>5. Unblocked
  BY <1>1 DEF Unblocked
<1> QED BY <1>2, <1>3, <1>4, <1>5 DEF Strands

\* Whoever is kept is not stranded.
LEMMA KeptAfloat ==
    ASSUME TypeOK, Strands
    PROVE  NotStranded
<1> SUFFICES ASSUME NEW r \in Runs, Stranded(r) PROVE run[r].hole
  BY DEF NotStranded
<1>1. /\ run[r].status \in {"queued", "running", "waiting"} /\ ~Driven(r) /\ ~AwaitsOutside(r)
      /\ run[r].node # "blocked" /\ (api.phase = "idle" \/ api.run # r) /\ rows[r] = NoRows
  BY DEF Stranded
<1>2. Kept(r)
  BY <1>1 DEF Strands
<1>3. ~HasRow(r) /\ ~AnswerComes(r)
  BY <1>1, NoRowsType DEF HasRow, AnswerComes
<1>4. ~Awaits(r)
  <2>1. \A f \in run[r].frame.flight : Working(f) => Active(f[2]) \/ Driven(f[2])
    BY DEF Working, AtHook, Driven
  <2> QED BY <1>1, <2>1 DEF Awaits, AwaitsOutside, Answered, Parents
<1> QED BY <1>1, <1>2, <1>3, <1>4 DEF Kept, Excused, Terminal

\* Nobody is left behind, whatever the node, the runs and the times, when one drive runs at a
\* time: a run that parks, polls, is answered, retried, timed out or woken by its children has,
\* whenever no drive holds it, a row, an answer that is on its way, or somebody it waits for,
\* unless one of the marked holes was met.
THEOREM NobodyStranded ==
    ASSUME OneDrive
    PROVE  Spec => []NotStranded
<1>1. Init => TypeOK /\ Shape /\ Kindred /\ Strands
  BY InitTypes, InitShape, InitKindred, InitStrands
<1>2. TypeOK /\ Shape /\ Kindred /\ Strands /\ [Next]_vars => (TypeOK /\ Shape /\ Kindred /\ Strands)'
  BY NextTypes, NextShape, NextKindred, NextStrands
<1>3. TypeOK /\ Shape /\ Kindred /\ Strands => NotStranded
  BY KeptAfloat
<1> QED BY <1>1, <1>2, <1>3, PTL DEF Spec
===============================================================================
