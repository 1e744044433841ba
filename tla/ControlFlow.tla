------------------------------ MODULE ControlFlow ------------------------------
(***************************************************************************)
(* How a run walks through its graph: the inline loop of a drive           *)
(* (runinator-reducer/src/orchestration/engine.rs), the handlers of the    *)
(* control-flow, data and fail nodes (control_flow.rs, basic.rs,           *)
(* compensation.rs) and the transitions between nodes (transitions.rs).    *)
(* Programs has the graphs; how an action is retried, claimed and executed *)
(* is in ActionLifecycle, how nodes park in Drives.                        *)
(*                                                                         *)
(* A handler reads the run and its node runs and then makes its database   *)
(* writes one after the other: it is given here as the sequence of these   *)
(* writes, and the drive performs one write per step.  A node run is       *)
(* identified by its place in the order of creation.                       *)
(***************************************************************************)
EXTENDS Programs, FiniteSets, SequencesExt

CONSTANTS
    Source,      \* name -> program
    Engines,     \* replicas that drive ready rows
    MaxCrashes   \* drives that end half-way in a behaviour

ASSUME MaxCrashesAssumption == MaxCrashes \in Nat

VARIABLES
    prog,      \* the program of the run
    run,       \* status, active node, and the frames of its state
    nodeRuns,  \* the node runs, in the order of their creation
    rows,      \* ready rows of the run: due, and claimed without a drive
    eng,       \* replica -> the drive it is in
    unwound,   \* compensations handed to a worker, in order
    finished,  \* node runs of actions in the order in which they ended
    hole,      \* a drive died half-way, or two drives wrote at the same time
    crashes

vars == <<prog, run, nodeRuns, rows, eng, unwound, finished, hole, crashes>>

Graph == [p \in DOMAIN Source |-> lower_workflow(Source[p])]
Means == [p \in DOMAIN Source |-> Meaning(Source[p])]

Terminal == {"succeeded", "failed"}

\* The frames of WorkflowRunState; a frame that is not there is <<>>.
NoFrames == [parallel |-> <<>>, race |-> <<>>, try |-> <<>>, compensation |-> <<>>]
Idle == [phase |-> "idle"]

Compensation(origin) == "undo " \o origin

-------------------------------------------------------------------------------
(* Node-run history (context.rs, runinator-workflows/src/run_state.rs).    *)

RunsOf(h, n) == {i \in DOMAIN h : h[i].node = n}
latest_node_run(h, n) == IF RunsOf(h, n) = {} THEN 0 ELSE Max(RunsOf(h, n))
latest_status(h, n) == LET i == latest_node_run(h, n) IN IF i = 0 THEN None ELSE h[i].status

\* Fault: a node that is entered again is taken for finished.
is_reentry_stale_never(h, i) == FALSE

\* is_reentry_stale: the node run is of an earlier visit.
is_reentry_stale(h, i) == h[i].status \in Terminal /\ i < Len(h)

join_satisfied(h, targets, mode) ==
    LET ok == {i \in DOMAIN targets : latest_status(h, targets[i]) = "succeeded"}
    IN IF mode = "all" THEN ok = DOMAIN targets ELSE ok # {}

\* race_winner: a branch, or 0.
race_winner(h, targets, mode) ==
    LET ok == {i \in DOMAIN targets : latest_status(h, targets[i]) = "succeeded"}
    IN CASE mode = "all" -> IF ok = DOMAIN targets THEN Len(targets) ELSE 0
         [] OTHER -> IF ok = {} THEN 0 ELSE Min(ok)

-------------------------------------------------------------------------------
(* Writes.  Node run 0 is the one that the same handler has created.       *)

Create(n) == [op |-> "create", node |-> n]
Update(i, status) == [op |-> "node", id |-> i, status |-> status]
Dispatch(i) == [op |-> "dispatch", id |-> i]
Record(origin) == [op |-> "compensate", origin |-> origin]
\* update_workflow_run_status: no frames (<<>>) keeps the state.
Run(status, active, frames) ==
    [op |-> "run", status |-> status, active |-> active, frames |-> frames]

\* ensure_node_run.
Ensure(n, i) == IF i = 0 THEN <<Create(n)>> ELSE <<>>

next_transition(node, status) ==
    CASE status = "succeeded" -> IF node.on_success # None THEN node.on_success ELSE node.next
      [] OTHER -> node.on_failure

GoTo(n, i, status, target) ==
    <<Update(i, status),
      IF target = None THEN Run(status, n, <<>>) ELSE Run("running", target, <<>>)>>

transition_from_node(n, node, i, status) == GoTo(n, i, status, next_transition(node, status))

\* ensure_completed_node_run.
Complete(n, h) ==
    IF latest_status(h, n) = "succeeded" THEN <<>>
    ELSE Ensure(n, latest_node_run(h, n)) \o <<Update(latest_node_run(h, n), "succeeded")>>

-------------------------------------------------------------------------------
(* The handlers: the writes of a visit to node n of run r with history h.  *)

process_start_node(n, node, h) ==
    LET i == latest_node_run(h, n)
    IN Ensure(n, i) \o transition_from_node(n, node, i, "succeeded")

process_end_node(n, h) == Complete(n, h) \o <<Run("succeeded", n, <<>>)>>

\* Output, transform, audit, checkpoint and config nodes; an assert chooses its status.
process_data_node(n, node, status) ==
    <<Create(n)>> \o transition_from_node(n, node, 0, status)

\* A condition takes one of its branches, or goes on.
process_condition_node(n, target) == <<Create(n)>> \o GoTo(n, 0, "succeeded", target)

\* finish_route of a switch, toggle or percentage node.
process_switch_node(n, target) ==
    <<Create(n), Update(0, "succeeded"), Run("running", target, <<>>)>>

\* An action without retries: a result that has come is followed, one that has not is
\* awaited, and a new visit is dispatched.
process_action_node(n, node, h) ==
    LET last == latest_node_run(h, n)
        i == IF last # 0 /\ is_reentry_stale(h, last) THEN 0 ELSE last
    IN IF i # 0 /\ h[i].status \in Terminal THEN transition_from_node(n, node, i, h[i].status)
       ELSE IF i # 0 /\ h[i].status = "running" THEN <<>>
       ELSE Ensure(n, i) \o <<Dispatch(i), Update(i, "running"), Run("running", n, <<>>)>>

\* prior_iterations: every visit that succeeded, in the whole run.
iterations_done(h, n) == Cardinality({i \in RunsOf(h, n) : h[i].status = "succeeded"})

\* The iteration counts as done before its body runs; the state starts afresh.
process_loop_node(n, node, r, h) ==
    LET done == iterations_done(h, n)
        created == <<Create(n), Update(0, "succeeded")>>
    IN IF done >= node.items \/ done >= node.cap
       THEN created \o <<Run(r.status, r.active, <<r.frames>>)>>
                    \o transition_from_node(n, node, 0, "succeeded")
       ELSE created \o <<Run("running", IF node.next = None THEN n ELSE node.next, <<NoFrames>>)>>

process_parallel_node(n, node, r, h) ==
    IF latest_node_run(h, n) # 0 THEN <<>>
    ELSE <<Create(n), Update(0, "succeeded"),
           Run("running", node.targets[1],
               <<[r.frames EXCEPT !.parallel = <<Tail(node.targets)>>]>>)>>

\* Fault: the branches that are left are never started.
pop_remaining_never(frame) == <<>>

\* pop_remaining: the branches still to start.
pop_remaining(frame) == IF frame = <<>> THEN <<>> ELSE frame[1]

process_join_node(n, node, r, h) ==
    LET i == latest_node_run(h, n)
        left == pop_remaining(r.frames.parallel)
    IN IF join_satisfied(h, node.targets, node.mode)
       THEN Ensure(n, i) \o transition_from_node(n, node, i, "succeeded")
       ELSE IF left # <<>>
       THEN <<Run("running", left[1], <<[r.frames EXCEPT !.parallel = <<Tail(left)>>]>>)>>
       ELSE Ensure(n, i) \o <<Update(i, "waiting"), Run("waiting", n, <<>>)>>

\* cancel_losing_race_branches: branches run one at a time, so that none is running when
\* the race is decided.
process_race_node(n, node, r, h) ==
    LET i == latest_node_run(h, n)
        frame == r.frames.race
        owned == frame # <<>> /\ frame[1].node = n
        left == IF owned THEN frame[1].remaining ELSE node.targets
    IN Ensure(n, i) \o
       (IF race_winner(h, node.targets, node.mode) # 0
        THEN transition_from_node(n, node, i, "succeeded")
        ELSE IF left # <<>>
        THEN <<Update(i, "running"),
               Run("running", left[1],
                   <<[r.frames EXCEPT !.race = <<[node |-> n, remaining |-> Tail(left)]>>]>>)>>
        ELSE transition_from_node(n, node, i, "failed"))

\* start_try_phase.
start_try_phase(i, r, target, phase, pending) ==
    <<Update(i, "running"),
      Run("running", target, <<[r.frames EXCEPT !.try = <<[phase |-> phase, pending |-> pending]>>]>>)>>

\* The body has ended: catch, finally or out.
after_body(n, node, i, r, status) ==
    CASE status # "succeeded" /\ node.catch # None ->
           start_try_phase(i, r, node.catch, "catch", status)
      [] (status = "succeeded" \/ node.catch = None) /\ node.finally # None ->
           start_try_phase(i, r, node.finally, "finally", status)
      [] OTHER -> transition_from_node(n, node, i, status)

after_catch(n, node, i, r, status) ==
    IF node.finally # None THEN start_try_phase(i, r, node.finally, "finally", status)
    ELSE transition_from_node(n, node, i, status)

process_try_node(n, node, r, h) ==
    LET i == latest_node_run(h, n)
        frame == IF r.frames.try = <<>> THEN [phase |-> "body", pending |-> "succeeded"]
                 ELSE r.frames.try[1]
        part == CASE frame.phase = "body" -> node.targets[1]
                  [] frame.phase = "catch" -> node.catch
                  [] frame.phase = "finally" -> node.finally
        status == latest_status(h, part)
    IN CASE i = 0 -> <<Create(n)>> \o start_try_phase(0, r, node.targets[1], "body", "succeeded")
         [] i # 0 /\ status = None -> <<>>
         [] OTHER ->
              CASE frame.phase = "body" -> after_body(n, node, i, r, status)
                [] frame.phase = "catch" -> after_catch(n, node, i, r, status)
                [] frame.phase = "finally" -> transition_from_node(n, node, i, frame.pending)

-------------------------------------------------------------------------------
(* The fail node and its compensations (compensation.rs).                  *)

\* The compensations to run: succeeded nodes that declare one, in the order given, each once.
Origins(h, order) ==
    LET G == Graph[prog]
        Declares(i) == h[i].status = "succeeded" /\ h[i].node \in DOMAIN G /\ G[h[i].node].comp
        all == SelectSeq(order, Declares)
        First(k) == \A j \in 1..(k - 1) : h[all[j]].node # h[all[k]].node
        kept == SelectSeq([k \in DOMAIN all |-> k], First)
    IN [k \in DOMAIN kept |-> h[all[kept[k]]].node]

\* Fault: the compensations are run in the order of the actions.
collect_compensations_forward(h, ended) == Origins(h, ended)

\* The node that ended last comes first.
collect_compensations(h, ended) == Origins(h, Reverse(ended))

dispatch_compensation(origin) ==
    <<Create(Compensation(origin)), Record(origin), Dispatch(0), Update(0, "running")>>

finalize_fail(n, h) == Complete(n, h) \o <<Run("failed", n, <<>>)>>

\* active 0: the compensation that this visit has created.
persist_frame(n, r, remaining, active) ==
    <<Run("running", n,
          <<[r.frames EXCEPT !.compensation = <<[remaining |-> remaining, active |-> active]>>]>>)>>

InFlight(r, h) ==
    LET frame == r.frames.compensation
    IN frame # <<>> /\ h[frame[1].active].status \notin Terminal

process_fail_node(n, r, h, ended) ==
    LET frame == r.frames.compensation
        remaining == IF frame = <<>> THEN collect_compensations(h, ended) ELSE frame[1].remaining
    IN CASE InFlight(r, h) -> persist_frame(n, r, remaining, frame[1].active)
         [] ~InFlight(r, h) /\ remaining # <<>> ->
              dispatch_compensation(remaining[1]) \o persist_frame(n, r, Tail(remaining), 0)
         [] OTHER ->
              (IF frame = <<>> THEN <<>>
               ELSE <<Run("running", n, <<[r.frames EXCEPT !.compensation = <<>>]>>)>>)
                \o finalize_fail(n, h)

-------------------------------------------------------------------------------
(* The drive (engine.rs).                                                  *)

\* WorkflowProgressKey.
Key(r, h) == [status |-> r.status, active |-> r.active, count |-> Len(h),
              latest |-> latest_node_run(h, r.active), state |-> latest_status(h, r.active)]

reentry_exhausted(node, h, n) ==
    /\ node.kind = "condition" /\ node.cap > 0
    /\ Cardinality(RunsOf(h, n)) >= node.cap
    /\ latest_status(h, n) \in Terminal \cup {None}

\* process_workflow_run_step: the writes of one visit; `pick` is what a condition, a
\* router or an assert decides.
Visit(r, h, ended, pick) ==
    LET n == r.active
        node == Graph[prog][n]
    IN CASE reentry_exhausted(node, h, n) -> <<Run("running", node.next, <<>>)>>
         [] node.kind = "start" -> process_start_node(n, node, h)
         [] node.kind = "end" -> process_end_node(n, h)
         [] node.kind = "data" -> process_data_node(n, node, "succeeded")
         [] node.kind = "assert" -> process_data_node(n, node, pick)
         [] node.kind = "condition" /\ ~reentry_exhausted(node, h, n) ->
              process_condition_node(n, pick)
         [] node.kind = "switch" -> process_switch_node(n, pick)
         [] node.kind = "action" -> process_action_node(n, node, h)
         [] node.kind = "loop" -> process_loop_node(n, node, r, h)
         [] node.kind = "parallel" -> process_parallel_node(n, node, r, h)
         [] node.kind = "join" -> process_join_node(n, node, r, h)
         [] node.kind = "race" -> process_race_node(n, node, r, h)
         [] node.kind = "try" -> process_try_node(n, node, r, h)
         [] node.kind = "fail" -> process_fail_node(n, r, h, ended)

\* What the node decides by its data: any of its targets.
Picks(node) ==
    CASE node.kind = "assert" -> Terminal
      [] node.kind = "condition" -> {node.targets[1], node.next}
      [] node.kind = "switch" -> {node.targets[i] : i \in DOMAIN node.targets}
      [] OTHER -> {None}

\* KeepClaim: a compensation is in flight after the visit.
Keeps(r, h, ended) ==
    /\ Graph[prog][r.active].kind = "fail"
    /\ \/ InFlight(r, h)
       \/ r.frames.compensation = <<>> /\ collect_compensations(h, ended) # <<>>
       \/ r.frames.compensation # <<>> /\ r.frames.compensation[1].remaining # <<>>

\* process_ready_node: a due row is claimed, a queued run starts at its node.
process_ready_node(e, n) ==
    /\ eng[e].phase = "idle"
    /\ n \in rows.due
    /\ rows' = [rows EXCEPT !.due = @ \ {n}]
    /\ eng' = [eng EXCEPT ![e] = [phase |-> "step", row |-> n]]
    /\ run' = IF run.status = "queued" THEN [run EXCEPT !.status = "running", !.active = n] ELSE run
    /\ UNCHANGED <<prog, nodeRuns, unwound, finished, hole, crashes>>

\* The handler reads, and decides what to write.
Step(e) ==
    /\ eng[e].phase = "step"
    /\ IF run.status \in Terminal
       THEN eng' = [eng EXCEPT ![e] = [phase |-> "stop", row |-> eng[e].row, keep |-> FALSE]]
       ELSE \E pick \in Picks(Graph[prog][run.active]) :
              eng' = [eng EXCEPT ![e] =
                        [phase |-> "write", row |-> eng[e].row, new |-> 0,
                         before |-> Key(run, nodeRuns),
                         todo |-> Visit(run, nodeRuns, finished, pick),
                         keep |-> Keeps(run, nodeRuns, finished)]]
    /\ UNCHANGED <<prog, run, nodeRuns, rows, unwound, finished, hole, crashes>>

\* The node run that a write is about.
Target(e, i) == IF i = 0 THEN eng[e].new ELSE i

\* A frame that names the compensation just created.
Resolved(e, frames) ==
    IF frames.compensation # <<>> /\ frames.compensation[1].active = 0
    THEN [frames EXCEPT !.compensation[1].active = eng[e].new] ELSE frames

\* Two drives of the run with writes to make: what one has read, the other changes.
Overlap(e) == \E f \in Engines \ {e} : eng[f].phase = "write" /\ eng[f].todo # <<>>

\* The next write of the handler.
Write(e) ==
    /\ eng[e].phase = "write" /\ eng[e].todo # <<>>
    /\ LET w == Head(eng[e].todo)
       IN /\ eng' = [eng EXCEPT ![e].todo = Tail(@),
                                ![e].new = IF w.op = "create" THEN Len(nodeRuns) + 1 ELSE @]
          /\ nodeRuns' =
               CASE w.op = "create" ->
                      Append(nodeRuns, [node |-> w.node, status |-> "queued", sent |-> FALSE])
                 [] w.op = "node" -> [nodeRuns EXCEPT ![Target(e, w.id)].status = w.status]
                 [] w.op = "dispatch" -> [nodeRuns EXCEPT ![Target(e, w.id)].sent = TRUE]
                 [] OTHER -> nodeRuns
          /\ run' = IF w.op # "run" THEN run
                    ELSE [status |-> w.status, active |-> w.active,
                          frames |-> IF w.frames = <<>> THEN run.frames
                                     ELSE Resolved(e, w.frames[1])]
          /\ rows' = IF w.op = "run" /\ w.status \in Terminal
                     THEN [due |-> {}, kept |-> {}] ELSE rows
          /\ unwound' = IF w.op = "compensate" THEN Append(unwound, w.origin) ELSE unwound
          /\ hole' = (hole \/ Overlap(e))
    /\ UNCHANGED <<prog, finished, crashes>>

\* should_stop_inline_progress: over, parked, or at an action that a worker has.
AwaitsWorker ==
    Graph[prog][run.active].kind = "action" /\ latest_status(nodeRuns, run.active) = "running"

\* The handler is done: the drive goes on to the next node, or settles.
Progress(e) ==
    /\ eng[e].phase = "write" /\ eng[e].todo = <<>>
    /\ eng' = [eng EXCEPT ![e] =
                 IF \/ eng[e].keep
                    \/ run.status \in Terminal \cup {"waiting"}
                    \/ AwaitsWorker
                    \/ eng[e].before = Key(run, nodeRuns)
                 THEN [phase |-> "stop", row |-> eng[e].row, keep |-> eng[e].keep]
                 ELSE [phase |-> "step", row |-> eng[e].row]]
    /\ UNCHANGED <<prog, run, nodeRuns, rows, unwound, finished, hole, crashes>>

\* drive_ready_node: the row is completed, or its claim is left to lapse.
Release(e) ==
    /\ eng[e].phase = "stop"
    /\ rows' = IF eng[e].keep /\ run.status \notin Terminal
               THEN [rows EXCEPT !.kept = @ \cup {eng[e].row}] ELSE rows
    /\ eng' = [eng EXCEPT ![e] = Idle]
    /\ UNCHANGED <<prog, run, nodeRuns, unwound, finished, hole, crashes>>

\* The process dies; its claim lapses.
Crash(e) ==
    /\ eng[e].phase # "idle"
    /\ crashes < MaxCrashes
    /\ crashes' = crashes + 1
    /\ rows' = IF run.status \in Terminal THEN rows
               ELSE [rows EXCEPT !.kept = @ \cup {eng[e].row}]
    /\ eng' = [eng EXCEPT ![e] = Idle]
    /\ hole' = TRUE
    /\ UNCHANGED <<prog, run, nodeRuns, unwound, finished>>

\* A claim lapses: the row is due again.
Lapse(n) ==
    /\ n \in rows.kept
    /\ rows' = [due |-> rows.due \cup {n}, kept |-> rows.kept \ {n}]
    /\ UNCHANGED <<prog, run, nodeRuns, eng, unwound, finished, hole, crashes>>

\* A worker executes action i; its result is applied and a row wakes the run.
Result(i, status) ==
    /\ nodeRuns[i].sent /\ nodeRuns[i].status = "running"
    /\ nodeRuns' = [nodeRuns EXCEPT ![i].status = status]
    /\ finished' = Append(finished, i)
    /\ rows' = IF run.status \in Terminal THEN rows
               ELSE [due |-> rows.due \cup {nodeRuns[i].node},
                     kept |-> rows.kept \ {nodeRuns[i].node}]
    /\ UNCHANGED <<prog, run, eng, unwound, hole, crashes>>

-------------------------------------------------------------------------------
Init ==
    /\ prog \in DOMAIN Source
    /\ run = [status |-> "queued", active |-> "start", frames |-> NoFrames]
    /\ nodeRuns = <<>>
    /\ rows = [due |-> {"start"}, kept |-> {}]
    /\ eng = [e \in Engines |-> Idle]
    /\ unwound = <<>> /\ finished = <<>> /\ hole = FALSE /\ crashes = 0

Drive(e) ==
    \/ \E n \in rows.due : process_ready_node(e, n)
    \/ Step(e) \/ Write(e) \/ Progress(e) \/ Release(e)

Next ==
    \/ \E e \in Engines : Drive(e) \/ Crash(e)
    \/ \E n \in rows.kept : Lapse(n)
    \/ \E i \in DOMAIN nodeRuns, status \in Terminal : Result(i, status)

Fairness ==
    /\ \A e \in Engines : WF_vars(Drive(e))
    /\ WF_vars(\E n \in rows.kept : Lapse(n))
    /\ WF_vars(\E i \in DOMAIN nodeRuns, status \in Terminal : Result(i, status))

Spec == Init /\ [][Next]_vars
FairSpec == Spec /\ Fairness

-------------------------------------------------------------------------------
\* The actions executed, with their outcomes.
Work ==
    LET IsAction(i) == nodeRuns[i].node \in DOMAIN Graph[prog]
        done == SelectSeq(finished, IsAction)
    IN [k \in DOMAIN done |-> <<nodeRuns[done[k]].node, nodeRuns[done[k]].status>>]

\* The run executes its actions as the program's statements say, whatever the graph is
\* made of, and ends when and as they do.
RunsAsWritten ==
    hole \/ \E m \in Means[prog] :
              IF run.status \in Terminal
              THEN m.work = Work /\ (run.status = "succeeded") = (m.end = "ok")
              ELSE IsPrefix(Work, m.work)

\* "the engine runs the recorded compensations of every already-succeeded node in reverse
\* order before the run terminates": when a run has failed at a fail node, each has run,
\* and none before the one of a node that ended later.
Unwound ==
    LET Successes(n) == {k \in DOMAIN finished : nodeRuns[finished[k]].node = n
                                            /\ nodeRuns[finished[k]].status = "succeeded"}
        owed == {n \in DOMAIN Graph[prog] : Graph[prog][n].comp /\ Successes(n) # {}}
        Later(i, j) == Max(Successes(unwound[i])) > Max(Successes(unwound[j]))
    IN run.status = "failed" /\ Graph[prog][run.active].kind = "fail"
         => /\ owed \subseteq ToSet(unwound)
            /\ \/ hole
               \/ /\ Len(unwound) = Cardinality(owed)
                  /\ \A i, j \in DOMAIN unwound : i < j => Later(i, j)

\* A run that is driven without accidents comes to its end.
Ends == <>(run.status \in Terminal \/ hole)
===============================================================================
