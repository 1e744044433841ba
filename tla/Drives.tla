--------------------------------- MODULE Drives ---------------------------------
(***************************************************************************)
(* How the reducer drives a node that parks its run (runinator-reducer/src/*)
(* orchestration/engine.rs and transitions.rs): the ready rows of the node,*)
(* the drive of one row, the protocol by which every waiting kind parks,   *)
(* settles and is retried, and what an operator or a crash does meanwhile. *)
(* WaitingNodes, SharedNodes and ChildRuns say what each kind of node      *)
(* decides; Reducer puts them together.                                    *)
(*                                                                         *)
(* Every database write is a step of its own: handlers of the web service, *)
(* time and crashes come between any two.  Time is counted in ticks.       *)
(***************************************************************************)
EXTENDS Naturals, FiniteSets

CONSTANTS
    Runs,        \* the runs there may be; run 0 is the first
    Engines,     \* replicas that drive ready rows
    Scenarios,   \* the nodes under study, see Scenario
    Timeout,     \* timeout_seconds of a timed node, and the delay of a wait
    Poll,        \* poll interval and retry backoff
    MaxAnswers   \* answers of the web service in a behaviour

ASSUME RunsAssumption == 0 \in Runs /\ Runs \subseteq Nat /\ IsFiniteSet(Runs)
ASSUME TimeAssumption == Poll \in Nat \ {0} /\ Timeout \in Nat /\ Poll < Timeout
ASSUME BoundsAssumption == MaxAnswers \in Nat

Kinds == {"wait", "debounce", "signal", "approval", "input", "gate", "await_run",
          "event_source", "collect", "barrier", "throttle", "cooldown",
          "map", "subflow"}

\* What the body of a node's children does.
Bodies(kind) ==
    IF kind = "map" THEN {"plain", "parks"}
    ELSE IF kind = "subflow" THEN {"plain", "detached", "reused", "parks"} ELSE {"none"}

\* A node: its kind, whether it declares a timeout, its max_attempts, the body of its
\* children, how many runs come to it, items and max_concurrency of a map, and how often
\* a behaviour is disturbed by an operator or a failure.
Scenario ==
    {d \in [kind : Kinds, timed : BOOLEAN, attempts : Nat, body : STRING, parties : Nat \ {0},
            items : Nat, width : Nat \ {0}, trouble : Nat] :
        d.body \in Bodies(d.kind) /\ (d.body = "reused" => d.parties = 1)}

ASSUME ScenariosAssumption == Scenarios \subseteq Scenario

VARIABLES
    def,      \* the node of this behaviour
    run,      \* run -> status, latest node run of the node, attempts, age, ...
    rows,     \* run -> ready rows of the node: due, claimed, and still to come
    eng,      \* engine -> the drive it is in
    api,      \* the web service's handler that answers a parked node
    record,   \* automation record, gate or awaited run that the node looks at
    budget    \* answers and disturbances used up

vars == <<def, run, rows, eng, api, record, budget>>

Terminal == {"succeeded", "failed", "timed_out", "canceled"}
NoRows == [due |-> 0, claimed |-> {}, timers |-> {}]
NoFrame == [next |-> 0, flight |-> {}, done |-> {}]
Idle == [phase |-> "idle", run |-> 0, verdict |-> "none", keep |-> FALSE, frame |-> NoFrame]
NoAnswer == [phase |-> "idle", run |-> 0, verdict |-> "none"]

Present(r) == run[r].status # "absent"
Active(r) == Present(r) /\ run[r].status \notin Terminal
Driven(r) == \E e \in Engines : eng[e].phase # "idle" /\ eng[e].run = r

\* Fault: the clock of a node never runs out.
timed_out_never(r) == FALSE

\* timed_out, timed_out_since_created: the node declares a timeout and it is over.
timed_out(r) == def.timed /\ run[r].age >= Timeout

Spend(what, limit) == budget[what] < limit /\ budget' = [budget EXCEPT ![what] = @ + 1]

\* enqueue_ready_node: one new row; the rows of the node that are due already are
\* settled, the one that is being driven and the one that carries an answer included.
enqueue_ready_node(r, delay) ==
    [rows EXCEPT ![r] = [due |-> IF delay = 0 THEN 1 ELSE 0,
                         claimed |-> {},
                         timers |-> @.timers \cup ({delay} \ {0})]]

\* update_workflow_run_status: a terminal status settles every row of the run.
RowsAfter(r, status) == IF status \in Terminal THEN [rows EXCEPT ![r] = NoRows] ELSE rows

\* History, for the properties: this run, or its parent, has lost a wake-up it needs.
Hole(r) == [run EXCEPT ![r].hole = TRUE, ![run[r].parent].hole = TRUE]

To(e, phase) == [eng EXCEPT ![e].phase = phase]
Settle(e, verdict) == [eng EXCEPT ![e].phase = "settle", ![e].verdict = verdict]
Done(e, keep) == [eng EXCEPT ![e].phase = "done", ![e].keep = keep]

-------------------------------------------------------------------------------
\* The clock: nodes age, rows come due.  Ages saturate, so time may stop mattering.
Tick ==
    /\ run' = [r \in Runs |-> IF ~Present(r) THEN run[r] ELSE
                 [run[r] EXCEPT !.age = IF @ < Timeout THEN @ + 1 ELSE @,
                                !.since = IF @ < Timeout THEN @ + 1 ELSE @]]
    /\ rows' = [r \in Runs |->
                 [due |-> IF 1 \in rows[r].timers /\ rows[r].due < 2
                          THEN rows[r].due + 1 ELSE rows[r].due,
                  claimed |-> rows[r].claimed,
                  timers |-> {t - 1 : t \in rows[r].timers \ {1}}]]
    /\ record' = [record EXCEPT !.age = IF @ < Timeout THEN @ + 1 ELSE @]
    /\ UNCHANGED <<def, eng, api, budget>>

\* process_ready_node: a due row is claimed; a queued run becomes running.
process_ready_node(e, r) ==
    /\ eng[e].phase = "idle"
    /\ rows[r].due > 0
    /\ rows' = [rows EXCEPT ![r].due = @ - 1, ![r].claimed = @ \cup {e}]
    /\ eng' = [eng EXCEPT ![e] = [Idle EXCEPT !.phase = "step", !.run = r]]
    /\ run' = [run EXCEPT ![r].status = IF @ = "queued" THEN "running" ELSE @]
    /\ UNCHANGED <<def, api, record, budget>>

\* process_workflow_run_step on a run that is over or paused: the row is consumed.
StepStopped(e) ==
    /\ eng[e].phase = "step"
    /\ LET r == eng[e].run
       IN /\ ~Active(r) \/ run[r].status = "paused"
          /\ eng' = To(e, "hook")
          /\ run' = IF run[r].status = "paused" THEN Hole(r) ELSE run
    /\ UNCHANGED <<def, rows, api, record, budget>>

\* The step is taken by the node's handler.
AtNode(e, kinds) ==
    /\ eng[e].phase = "step"
    /\ Active(eng[e].run) /\ run[eng[e].run].status # "paused"
    /\ def.kind \in kinds

-------------------------------------------------------------------------------
\* Parking: the node run is created queued, then waits, then the run waits, then the
\* next poll and the timeout are enqueued.
create_workflow_node_run(e, next) ==
    /\ eng[e].phase = "create"
    /\ run' = [run EXCEPT ![eng[e].run].node = "queued", ![eng[e].run].tries = 0,
                          ![eng[e].run].age = 0]
    /\ eng' = To(e, next)
    /\ UNCHANGED <<def, rows, api, record, budget>>

\* The row a kind enqueues when it parks.
PollAfter ==
    IF def.kind \in {"wait", "debounce"} THEN Timeout
    ELSE IF def.kind \in {"gate", "await_run", "barrier", "throttle"} THEN Poll
    ELSE IF def.kind = "collect" /\ def.timed THEN Timeout ELSE 0

\* The kinds that call arm_node_timeout.
Arms == def.timed /\ def.kind \in {"signal", "approval", "await_run", "event_source",
                                   "collect", "barrier", "throttle", "map", "subflow"}

\* The node run waits; a map node's runs, and its clock starts again.  A subflow node
\* records its child here.  An answer to an approval that is on record already is
\* overwritten.
ParkNode(e) ==
    /\ eng[e].phase = "node"
    /\ LET r == eng[e].run
           kept == IF run[r].node \in {"queued", "parked"} THEN run ELSE Hole(r)
       IN run' = [kept EXCEPT ![r].node = "parked",
                              ![r].tries = IF @ < def.attempts THEN @ + 1 ELSE @,
                              ![r].age = IF def.kind = "map" THEN 0 ELSE @,
                              ![r].frame = IF def.kind = "subflow" THEN eng[e].frame ELSE @]
    /\ eng' = To(e, "run")
    /\ UNCHANGED <<def, rows, api, record, budget>>

\* The run waits; a map node's frame is persisted with it.
ParkRun(e) ==
    /\ eng[e].phase = "run"
    /\ run' = [run EXCEPT ![eng[e].run].status = "waiting",
                          ![eng[e].run].frame = IF def.kind = "map" THEN eng[e].frame ELSE @]
    /\ eng' = To(e, "poll")
    /\ UNCHANGED <<def, rows, api, record, budget>>

EnqueuePoll(e) ==
    /\ eng[e].phase = "poll"
    /\ rows' = IF PollAfter = 0 THEN rows ELSE enqueue_ready_node(eng[e].run, PollAfter)
    /\ eng' = To(e, "arm")
    /\ UNCHANGED <<def, run, api, record, budget>>

arm_node_timeout(e) ==
    /\ eng[e].phase = "arm"
    /\ rows' = IF Arms THEN enqueue_ready_node(eng[e].run, Timeout) ELSE rows
    /\ eng' = To(e, "hook")
    /\ UNCHANGED <<def, run, api, record, budget>>

\* A poll that found nothing: the next one is enqueued, the row is released.
EnqueueNextPoll(e) ==
    /\ eng[e].phase = "repoll"
    /\ rows' = enqueue_ready_node(eng[e].run,
                 IF def.kind = "debounce" THEN Timeout - run[eng[e].run].age ELSE Poll)
    /\ eng' = Done(e, TRUE)
    /\ UNCHANGED <<def, run, api, record, budget>>

-------------------------------------------------------------------------------
\* transition_from_node: attempts left and a status that is retried.
Retryable(e) ==
    eng[e].verdict \in {"failed", "timed_out"} /\ run[eng[e].run].tries < def.attempts

\* transition_from_node and schedule_node_retry write the node run ...
SettleNode(e) ==
    /\ eng[e].phase = "settle"
    /\ run' = [run EXCEPT ![eng[e].run].node = IF Retryable(e) THEN "queued" ELSE eng[e].verdict]
    /\ eng' = To(e, IF Retryable(e) THEN "retry" ELSE "finish")
    /\ UNCHANGED <<def, rows, api, record, budget>>

\* ... and the run: no edge leaves the node, so the run ends with it.
FinishRun(e) ==
    /\ eng[e].phase = "finish"
    /\ run' = [run EXCEPT ![eng[e].run].status = eng[e].verdict,
                          ![eng[e].run].passed = @ \/ eng[e].verdict = "succeeded"]
    /\ rows' = RowsAfter(eng[e].run, eng[e].verdict)
    /\ eng' = To(e, "hook")
    /\ UNCHANGED <<def, api, record, budget>>

\* schedule_node_retry: the run waits ...
RetryRun(e) ==
    /\ eng[e].phase = "retry"
    /\ run' = [run EXCEPT ![eng[e].run].status = "waiting"]
    /\ eng' = To(e, "backoff")
    /\ UNCHANGED <<def, rows, api, record, budget>>

\* ... for its backoff.
schedule_node_retry(e) ==
    /\ eng[e].phase = "backoff"
    /\ rows' = enqueue_ready_node(eng[e].run, Poll)
    /\ eng' = To(e, "hook")
    /\ UNCHANGED <<def, run, api, record, budget>>

\* Fault: nobody is told that a child has ended.
maybe_wake_subflow_parent_never(e) ==
    /\ eng[e].phase = "hook"
    /\ eng' = Done(e, FALSE)
    /\ UNCHANGED <<def, run, rows, api, record, budget>>

\* maybe_wake_subflow_parent: a run that is over and still carries state.subflow_parent
\* enqueues a row of its parent's node.
maybe_wake_subflow_parent(e) ==
    /\ eng[e].phase = "hook"
    /\ LET r == eng[e].run
       IN rows' = IF run[r].status \in Terminal /\ run[r].linked
                  THEN enqueue_ready_node(run[r].parent, 0) ELSE rows
    /\ eng' = Done(e, FALSE)
    /\ UNCHANGED <<def, run, api, record, budget>>

\* drive_ready_node: the row is completed or, with KeepClaim, released; either only
\* when it is still this drive's.
drive_ready_node(e) ==
    /\ eng[e].phase = "done"
    /\ LET r == eng[e].run
       IN rows' = [rows EXCEPT ![r].claimed = @ \ {e},
                     ![r].due = IF e \in rows[r].claimed /\ eng[e].keep /\ @ < 2
                                THEN @ + 1 ELSE @]
    /\ eng' = [eng EXCEPT ![e] = Idle]
    /\ UNCHANGED <<def, run, api, record, budget>>

-------------------------------------------------------------------------------
\* Where a drive that stops is not made up for by the next one: between the end of a
\* child and its parent's wake-up; and, for the kinds that do nothing when they find a
\* node run that is neither waiting nor succeeded, anywhere before their last write;
\* and between the stamp of a cooldown and the body it stands for.
Unrepaired(e) ==
    \/ eng[e].phase = "hook"
    \/ def.kind \in {"signal", "approval"} /\ eng[e].phase \notin {"step", "create", "settle", "done"}
    \/ def.kind = "subflow" /\ eng[e].phase \in {"run", "poll", "arm"}
    \/ def.kind = "cooldown" /\ eng[e].phase \in {"settle", "finish"}

\* The replica of a drive stops; the claim of its row lapses.
EngineCrash(e) ==
    /\ eng[e].phase # "idle"
    /\ Spend("trouble", def.trouble)
    /\ LET r == eng[e].run
       IN /\ rows' = [rows EXCEPT ![r].claimed = @ \ {e},
                        ![r].due = IF e \in rows[r].claimed /\ @ < 2 THEN @ + 1 ELSE @]
          /\ run' = IF Unrepaired(e) THEN Hole(r) ELSE run
    /\ eng' = [eng EXCEPT ![e] = Idle]
    /\ UNCHANGED <<def, api, record>>

\* fail_driven_ready_node: the reducer returned an error; the run fails, no hook.
fail_driven_ready_node(e) ==
    /\ eng[e].phase \notin {"idle", "done"}
    /\ Spend("trouble", def.trouble)
    /\ run' = [Hole(eng[e].run) EXCEPT ![eng[e].run].status = "failed"]
    /\ rows' = [rows EXCEPT ![eng[e].run] = NoRows]
    /\ eng' = [eng EXCEPT ![e] = Idle]
    /\ UNCHANGED <<def, api, record>>

\* cancel_workflow_run: the status, and with it the rows; no hook.
cancel_workflow_run(r) ==
    /\ Active(r)
    /\ Spend("trouble", def.trouble)
    /\ run' = [Hole(r) EXCEPT ![r].status = "canceled"]
    /\ rows' = [rows EXCEPT ![r] = NoRows]
    /\ UNCHANGED <<def, eng, api, record>>

\* pause_workflow_run: a run whose node run is Running (a parked map) keeps its status.
pause_workflow_run(r) ==
    /\ Active(r) /\ run[r].status # "paused"
    /\ ~(def.kind = "map" /\ run[r].node = "parked")
    /\ Spend("trouble", def.trouble)
    /\ run' = [run EXCEPT ![r].status = "paused"]
    /\ UNCHANGED <<def, rows, eng, api, record>>

\* resume_workflow_run: the status, and no row.
resume_workflow_run(r) ==
    /\ run[r].status = "paused"
    /\ run' = [run EXCEPT ![r].status = "running"]
    /\ UNCHANGED <<def, rows, eng, api, record, budget>>
===============================================================================
