---------------------------- MODULE ActionLifecycle ----------------------------
(***************************************************************************)
(* One action node of one workflow run, from the first drive to the end of *)
(* the run:                                                                *)
(*   - the reducer (process_action_node and transition_from_node), run by  *)
(*     engine replicas that read the node run first and then change the    *)
(*     database one statement at a time,                                   *)
(*   - the dispatch outbox and the action channel,                         *)
(*   - the workers (process_delivery) with their execution lease on the    *)
(*     node run,                                                           *)
(*   - the result events and their application.                            *)
(*                                                                         *)
(* The ready queue is reduced to what ReadyQueue establishes: a row that   *)
(* is due is driven, by one replica at a time.  The action node is the     *)
(* last node of the workflow, so its settlement ends the run.              *)
(***************************************************************************)
EXTENDS Naturals, FiniteSets

CONSTANTS
    Engines, Workers,
    MaxAttempts,    \* node.retry.max_attempts
    NodeTimeout,    \* the node declares timeout_seconds
    MaxFaults       \* crashes, lapsed leases, failed calls, missed heartbeats

ASSUME EnginesAssumption == Engines \cap {"none", "later", "due"} = {}
ASSUME LimitsAssumption == MaxAttempts \in Nat \ {0} /\ NodeTimeout \in BOOLEAN /\ MaxFaults \in Nat

VARIABLES
    run,        \* workflow_runs.status
    nodeRun,    \* the workflow_node_runs row
    ready,      \* sort of ready row -> none, later, due, or its driver
    eng,        \* engine -> the drive it is in
    outbox,     \* attempt -> workflow_action_dispatches row
    message,    \* attempt -> state of the command on the action channel
    tasks,      \* the workers' process_delivery tasks
    owed,       \* worker -> OwnStaleLeases: least attempt that may reclaim, or 0
    events,     \* result events on the channel, applied already or not
    irregular,  \* a claim failed open, a live worker lost its lease, a drive hit an error
    faults

vars == <<run, nodeRun, ready, eng, outbox, message, tasks, owed, events, irregular, faults>>

\* One attempt past the limit, to see whether it is ever dispatched.
Attempts == 1..(MaxAttempts + 1)
Nobody == "nobody"
Former == "former"      \* a worker instance that is gone and known to be

ASSUME WorkersAssumption == Workers \cap {Nobody, Former} = {}

Terminal == {"succeeded", "failed", "timed_out"}
Retryable == {"failed", "timed_out"}

\* The ready rows of the node: due at once (the start of the run, a result), or for
\* later (a retry's backoff, the node timeout, the liveness poll).  Rows of one sort
\* are not told apart: what a drive does depends on the node run alone.
Sorts == {"event", "timer"}

NoDrive == [phase |-> "idle"]
Phases == {"read", "dispatch", "mark", "arm", "release",
           "requeue", "backoff", "settle", "end_run", "complete"}
RunStatus == {"queued", "running", "waiting"} \cup Terminal
NodeStatus == {"none", "queued", "running"} \cup Terminal
Holders == Workers \cup {Nobody, Former}
NodeRun == [status : NodeStatus, attempt : 0..(MaxAttempts + 1), holder : Holders, late : BOOLEAN]

\* A drive before it has read the node run, and what it goes by afterwards.
Reading == [phase : {"read"}, sort : Sorts]
Decision == [phase : Phases \ {"read"}, sort : Sorts, attempt : 0..(MaxAttempts + 1),
             status : Terminal \cup {"none"}, holder : Holders, before : RunStatus \X NodeStatus]

InFlight == {"received", "claimed", "executing"}
Task == [worker : Workers, attempt : Attempts, live : BOOLEAN, outcome : Terminal \cup {"none"},
         phase : InFlight \cup {"publishing", "acking", "releasing"}]
Event == [status : {"running", "succeeded", "failed"}, attempt : Attempts,
          state : {"queued", "applied"}]

-------------------------------------------------------------------------------
Fault == faults < MaxFaults /\ faults' = faults + 1

\* enqueue_ready_node: the new row, and every row of the node that is already due
\* settled, a row that is being driven included.
Enqueued(sort) ==
    [k \in Sorts |-> IF k = sort THEN (IF k = "event" THEN "due" ELSE "later")
                     ELSE IF ready[k] \in {"due"} \cup Engines THEN "none" ELSE ready[k]]

Init ==
    /\ run = "queued"
    /\ nodeRun = [status |-> "none", attempt |-> 0, holder |-> Nobody, late |-> FALSE]
    /\ ready = [k \in Sorts |-> IF k = "event" THEN "due" ELSE "none"]
    /\ eng = [e \in Engines |-> NoDrive]
    /\ outbox = [a \in Attempts |-> "none"]
    /\ message = [a \in Attempts |-> "absent"]
    /\ tasks = {}
    /\ owed = [w \in Workers |-> 0]
    /\ events = {}
    /\ irregular = FALSE
    /\ faults = 0

\* Time passes: a row becomes due; timeout_seconds have gone by since started_at.
BecomeDue(k) ==
    /\ ready[k] = "later"
    /\ ready' = [ready EXCEPT ![k] = "due"]
    /\ UNCHANGED <<run, nodeRun, eng, outbox, message, tasks, owed, events, irregular, faults>>

Deadline ==
    /\ NodeTimeout /\ nodeRun.status = "running" /\ ~nodeRun.late
    /\ nodeRun' = [nodeRun EXCEPT !.late = TRUE]
    /\ UNCHANGED <<run, ready, eng, outbox, message, tasks, owed, events, irregular, faults>>

-------------------------------------------------------------------------------
(***************************************************************************)
(* The reducer.                                                            *)
(***************************************************************************)
\* drive_ready_node: the claim, and the first write of process_ready_node.
Drive(e, k) ==
    /\ eng[e] = NoDrive /\ ready[k] = "due"
    /\ ready' = [ready EXCEPT ![k] = e]
    /\ run' = IF run = "queued" THEN "running" ELSE run
    /\ eng' = [eng EXCEPT ![e] = [phase |-> "read", sort |-> k]]
    /\ UNCHANGED <<nodeRun, outbox, message, tasks, owed, events, irregular, faults>>

\* Fault: the last attempt is not used.
AfterOutcome_short(status) ==
    IF status \in Retryable /\ nodeRun.attempt + 1 < MaxAttempts THEN "requeue" ELSE "settle"

\* Fault: one attempt too many.
AfterOutcome_long(status) ==
    IF status \in Retryable /\ nodeRun.attempt <= MaxAttempts THEN "requeue" ELSE "settle"

\* transition_from_node: a retry while the snapshot has attempts left.
AfterOutcome(status) ==
    IF status \in Retryable /\ nodeRun.attempt < MaxAttempts THEN "requeue" ELSE "settle"

\* What e decides on from the snapshot it has just read: its next phase, the
\* attempt and the executor it saw, the status it will settle with, and what the
\* inline loop compares afterwards.
Decided(e, phase, status) ==
    [eng EXCEPT ![e] = [phase |-> phase, sort |-> @.sort, attempt |-> nodeRun.attempt,
                        status |-> status, holder |-> IF phase = "release" THEN nodeRun.holder ELSE Nobody,
                        before |-> <<run, nodeRun.status>>]]

\* Fault: the run's status is not looked at.
read_unchecked(e) ==
    /\ eng[e].phase = "read"
    /\ eng' = Decided(e, CASE nodeRun.status \in Terminal -> AfterOutcome(nodeRun.status)
                           [] nodeRun.status = "running" -> "arm"
                           [] OTHER -> "dispatch", nodeRun.status)
    /\ nodeRun' = IF nodeRun.status = "none" THEN [nodeRun EXCEPT !.status = "queued"] ELSE nodeRun
    /\ UNCHANGED <<run, ready, outbox, message, tasks, owed, events, irregular, faults>>

\* Fault: a running action is polled but its timeout is not looked at.
read_untimed(e) ==
    /\ eng[e].phase = "read"
    /\ eng' = Decided(e, CASE run \in Terminal -> "complete"
                           [] run \notin Terminal /\ nodeRun.status \in Terminal -> AfterOutcome(nodeRun.status)
                           [] run \notin Terminal /\ nodeRun.status = "running" -> "arm"
                           [] OTHER -> "dispatch", nodeRun.status)
    /\ nodeRun' = IF nodeRun.status = "none" THEN [nodeRun EXCEPT !.status = "queued"] ELSE nodeRun
    /\ UNCHANGED <<run, ready, outbox, message, tasks, owed, events, irregular, faults>>

\* process_workflow_run_step and process_action_node up to the first write after
\* the snapshot; on the first visit the node run is created.
read(e) ==
    /\ eng[e].phase = "read"
    /\ \/ /\ run \in Terminal
          /\ eng' = Decided(e, "complete", "none")
          /\ UNCHANGED <<nodeRun, irregular, faults>>
       \/ /\ run \notin Terminal /\ nodeRun.status \in {"none", "queued"}
          /\ nodeRun.attempt + 1 \in Attempts
          /\ eng' = Decided(e, "dispatch", "none")
          /\ nodeRun' = [nodeRun EXCEPT !.status = "queued"]
          /\ UNCHANGED <<irregular, faults>>
       \/ /\ run \notin Terminal /\ nodeRun.status \in Terminal
          /\ eng' = Decided(e, AfterOutcome(nodeRun.status), nodeRun.status)
          /\ UNCHANGED <<nodeRun, irregular, faults>>
       \/ /\ run \notin Terminal /\ nodeRun.status = "running" /\ nodeRun.late
          /\ eng' = Decided(e, AfterOutcome("timed_out"), "timed_out")
          /\ UNCHANGED <<nodeRun, irregular, faults>>
       \/ /\ run \notin Terminal /\ nodeRun.status = "running" /\ ~nodeRun.late
          /\ nodeRun.holder = Former
          /\ eng' = Decided(e, "release", "timed_out")
          /\ UNCHANGED <<nodeRun, irregular, faults>>
       \* replica_is_live of a live worker whose heartbeats did not arrive
       \/ /\ run \notin Terminal /\ nodeRun.status = "running" /\ ~nodeRun.late
          /\ nodeRun.holder \in Workers
          /\ Fault
          /\ eng' = Decided(e, "release", "timed_out")
          /\ irregular' = TRUE
          /\ UNCHANGED nodeRun
       \/ /\ run \notin Terminal /\ nodeRun.status = "running" /\ ~nodeRun.late
          /\ nodeRun.holder # Former
          /\ eng' = Decided(e, "arm", "none")
          /\ UNCHANGED <<nodeRun, irregular, faults>>
    /\ UNCHANGED <<run, ready, outbox, message, tasks, owed, events>>

\* enqueue_action_dispatch: the first writer of a key wins.
enqueue_action_dispatch(e) ==
    /\ eng[e].phase = "dispatch"
    /\ outbox' = [outbox EXCEPT ![eng[e].attempt + 1] = IF @ = "none" THEN "pending" ELSE @]
    /\ eng' = [eng EXCEPT ![e].phase = "mark"]
    /\ UNCHANGED <<run, nodeRun, ready, message, tasks, owed, events, irregular, faults>>

\* "action_started": the node run and the run are running, whatever they were.
mark_running(e) ==
    /\ eng[e].phase = "mark"
    /\ nodeRun' = [nodeRun EXCEPT !.status = "running", !.attempt = eng[e].attempt + 1, !.late = FALSE]
    /\ run' = "running"
    /\ eng' = [eng EXCEPT ![e].phase = "arm"]
    /\ UNCHANGED <<ready, outbox, message, tasks, owed, events, irregular, faults>>

\* arm_node_timeout, if the node has one, and arm_dispatch_liveness_poll.
arm(e) ==
    /\ eng[e].phase = "arm"
    /\ ready' = Enqueued("timer")
    /\ eng' = [eng EXCEPT ![e].phase = "complete"]
    /\ UNCHANGED <<run, nodeRun, outbox, message, tasks, owed, events, irregular, faults>>

\* The holder looked dead: release_workflow_node_run_executor, then time_out.
release_dead_holder(e) ==
    /\ eng[e].phase = "release"
    /\ nodeRun' = [nodeRun EXCEPT !.holder = IF @ = eng[e].holder THEN Nobody ELSE @]
    /\ eng' = [eng EXCEPT ![e].phase =
                 IF eng[e].attempt < MaxAttempts THEN "requeue" ELSE "settle"]
    /\ UNCHANGED <<run, ready, outbox, message, tasks, owed, events, irregular, faults>>

\* schedule_node_retry: the node run is queued again with its attempt unchanged,
requeue(e) ==
    /\ eng[e].phase = "requeue"
    /\ nodeRun' = [nodeRun EXCEPT !.status = "queued", !.late = FALSE]
    /\ eng' = [eng EXCEPT ![e].phase = "backoff"]
    /\ UNCHANGED <<run, ready, outbox, message, tasks, owed, events, irregular, faults>>

\* then the run waits and the retry's row is enqueued.
schedule_node_retry(e) ==
    /\ eng[e].phase = "backoff"
    /\ run' = "waiting"
    /\ ready' = Enqueued("timer")
    /\ eng' = [eng EXCEPT ![e].phase = "complete"]
    /\ UNCHANGED <<nodeRun, outbox, message, tasks, owed, events, irregular, faults>>

\* transition_from_node without a retry: the node run is settled,
settle(e) ==
    /\ eng[e].phase = "settle"
    /\ nodeRun' = [nodeRun EXCEPT !.status = eng[e].status]
    /\ eng' = [eng EXCEPT ![e].phase = "end_run"]
    /\ UNCHANGED <<run, ready, outbox, message, tasks, owed, events, irregular, faults>>

\* and the run ends; update_workflow_run_status settles its ready rows.
end_run(e) ==
    /\ eng[e].phase = "end_run"
    /\ run' = eng[e].status
    /\ ready' = [k \in Sorts |-> "none"]
    /\ eng' = [eng EXCEPT ![e].phase = "complete"]
    /\ UNCHANGED <<nodeRun, outbox, message, tasks, owed, events, irregular, faults>>

\* the run has ended or waits, or a worker has the action
should_stop_inline_progress == run \in Terminal \cup {"waiting"} \/ nodeRun.status = "running"

\* process_ready_node after a step: when it should stop, or nothing changed, the row
\* is completed; else the next step follows.
complete(e) ==
    /\ eng[e].phase = "complete"
    /\ IF should_stop_inline_progress \/ eng[e].before = <<run, nodeRun.status>>
         THEN /\ ready' = [ready EXCEPT ![eng[e].sort] = IF @ = e THEN "none" ELSE @]
              /\ eng' = [eng EXCEPT ![e] = NoDrive]
         ELSE /\ eng' = [eng EXCEPT ![e] = [phase |-> "read", sort |-> @.sort]]
              /\ UNCHANGED ready
    /\ UNCHANGED <<run, nodeRun, outbox, message, tasks, owed, events, irregular, faults>>

\* A statement of the drive fails: fail_driven_ready_node fails the run.
fail_driven_ready_node(e) ==
    /\ eng[e] # NoDrive
    /\ Fault
    /\ run' = "failed"
    /\ ready' = [k \in Sorts |-> "none"]
    /\ eng' = [eng EXCEPT ![e] = NoDrive]
    /\ irregular' = TRUE
    /\ UNCHANGED <<nodeRun, outbox, message, tasks, owed, events>>

\* A replica stops in the middle of a drive; its claim lapses.
EngineCrash(e) ==
    /\ eng[e] # NoDrive
    /\ Fault
    /\ ready' = [ready EXCEPT ![eng[e].sort] = IF @ = e THEN "due" ELSE @]
    /\ eng' = [eng EXCEPT ![e] = NoDrive]
    /\ UNCHANGED <<run, nodeRun, outbox, message, tasks, owed, events, irregular>>

\* claim_pending_action_dispatches: what a publisher may take.  Its lease on the row is
\* left out: a second publisher's message would be refused as a duplicate.
Unpublished(a) == outbox[a] = "pending"

\* publish_pending_action_dispatches: publish, then mark; a crash between the two
\* publishes the command again later.
PublishDispatch(a) ==
    /\ Unpublished(a)
    /\ message' = [message EXCEPT ![a] = IF @ = "absent" THEN "queued" ELSE @]
    /\ \/ /\ outbox' = [outbox EXCEPT ![a] = "published"]
          /\ UNCHANGED faults
       \/ /\ Fault
          /\ UNCHANGED outbox
    /\ UNCHANGED <<run, nodeRun, ready, eng, tasks, owed, events, irregular>>

-------------------------------------------------------------------------------
(***************************************************************************)
(* The workers.                                                            *)
(***************************************************************************)
Moved(t, phase) == (tasks \ {t}) \cup {[t EXCEPT !.phase = phase]}

\* ack of a delivery that is still leased
Acked(t) == [message EXCEPT ![t.attempt] = IF t.live THEN "absent" ELSE @]

ReleasedBy(w) == [nodeRun EXCEPT !.holder = IF @ = w THEN Nobody ELSE @]

\* process_delivery: a delivery of a node run this worker has in flight is acked
\* and skipped; any other is registered.
Receive(w, a) ==
    /\ message[a] = "queued"
    /\ IF \E t \in tasks : t.worker = w /\ t.phase \in InFlight
         THEN /\ message' = [message EXCEPT ![a] = "absent"]
              /\ UNCHANGED tasks
         ELSE /\ message' = [message EXCEPT ![a] = "leased"]
              /\ tasks' = tasks \cup {[worker |-> w, attempt |-> a, live |-> TRUE,
                                       outcome |-> "none", phase |-> "received"]}
    /\ UNCHANGED <<run, nodeRun, ready, eng, outbox, owed, events, irregular, faults>>

\* The lease of an executor that no longer works on the node run may be old enough
\* to be taken over; while it works, its own timeout keeps it from getting there.
MayBeStale == ~\E t \in tasks : t.worker = nodeRun.holder

\* OwnStaleLeases.matches, and the leftover lease is indeed this worker's
Reclaimable(t) == nodeRun.holder = t.worker /\ owed[t.worker] \in 1..t.attempt

\* Fault: the claim has no look at the holder.
claim_executor_unguarded(t) ==
    /\ t \in tasks /\ t.phase = "received"
    /\ nodeRun' = [nodeRun EXCEPT !.holder = t.worker]
    /\ owed' = [owed EXCEPT ![t.worker] = 0]
    /\ tasks' = Moved(t, "claimed")
    /\ UNCHANGED <<run, ready, eng, outbox, message, events, irregular, faults>>

\* claim_workflow_node_run_executor succeeds, at once or after the worker gave
\* back a lease it knows it left behind.
claim_executor(t) ==
    /\ t \in tasks /\ t.phase = "received"
    /\ \/ nodeRun.holder = Nobody
       \/ MayBeStale
       \/ Reclaimable(t)
    /\ nodeRun' = [nodeRun EXCEPT !.holder = t.worker]
    /\ owed' = [owed EXCEPT ![t.worker] = 0]
    /\ tasks' = Moved(t, "claimed")
    /\ UNCHANGED <<run, ready, eng, outbox, message, events, irregular, faults>>

\* The claim is refused, or giving back the leftover lease fails: the delivery is
\* acked and dropped as a duplicate.
drop_duplicate(t) ==
    /\ t \in tasks /\ t.phase = "received"
    /\ nodeRun.holder # Nobody
    /\ IF Reclaimable(t) THEN Fault ELSE UNCHANGED faults
    /\ message' = Acked(t)
    /\ tasks' = tasks \ {t}
    /\ UNCHANGED <<run, nodeRun, ready, eng, outbox, owed, events, irregular>>

\* The claim (or the second one, after the leftover lease was given back) cannot be
\* asked for: execution goes on without it.
claim_fails_open(t) ==
    /\ t \in tasks /\ t.phase = "received"
    /\ Fault
    /\ irregular' = TRUE
    /\ \/ UNCHANGED nodeRun
       \/ Reclaimable(t) /\ nodeRun' = ReleasedBy(t.worker)
    /\ tasks' = Moved(t, "claimed")
    /\ UNCHANGED <<run, ready, eng, outbox, message, owed, events>>

Published(status, a) == events \cup {[status |-> status, attempt |-> a, state |-> "queued"]}

publish_running(t) ==
    /\ t \in tasks /\ t.phase = "claimed"
    /\ events' = Published("running", t.attempt)
    /\ tasks' = Moved(t, "executing")
    /\ UNCHANGED <<run, nodeRun, ready, eng, outbox, message, owed, irregular, faults>>

\* execute_task; the node run is no longer registered as in flight.
execute_task(t, outcome) ==
    /\ t \in tasks /\ t.phase = "executing"
    /\ tasks' = (tasks \ {t}) \cup {[t EXCEPT !.phase = "publishing", !.outcome = outcome]}
    /\ UNCHANGED <<run, nodeRun, ready, eng, outbox, message, owed, events, irregular, faults>>

publish_terminal(t) ==
    /\ t \in tasks /\ t.phase = "publishing"
    /\ events' = Published(t.outcome, t.attempt)
    /\ tasks' = Moved(t, "acking")
    /\ UNCHANGED <<run, nodeRun, ready, eng, outbox, message, owed, irregular, faults>>

\* The ack; when it fails (the lease is gone, or the call is lost) the task returns
\* with the executor claim in place and nothing remembered.
ack_delivery(t) ==
    /\ t \in tasks /\ t.phase = "acking"
    /\ \/ /\ message' = Acked(t)
          /\ tasks' = IF t.live THEN Moved(t, "releasing") ELSE tasks \ {t}
          /\ UNCHANGED faults
       \/ /\ t.live /\ Fault
          /\ tasks' = tasks \ {t}
          /\ UNCHANGED message
    /\ UNCHANGED <<run, nodeRun, ready, eng, outbox, owed, events, irregular>>

\* release_executor_lease after the ack: only the next attempt may reclaim what a
\* failed release leaves behind.
release_executor_lease(t) ==
    /\ t \in tasks /\ t.phase = "releasing"
    /\ \/ /\ nodeRun' = ReleasedBy(t.worker)
          /\ owed' = [owed EXCEPT ![t.worker] = 0]
          /\ UNCHANGED faults
       \/ /\ Fault
          /\ owed' = [owed EXCEPT ![t.worker] = t.attempt + 1]
          /\ UNCHANGED nodeRun
    /\ tasks' = tasks \ {t}
    /\ UNCHANGED <<run, ready, eng, outbox, message, events, irregular>>

\* nack_action_delivery, after a failed publish, a transient secret error or a
\* shutdown that preempts the action: release, then return the delivery.
nack_action_delivery(t) ==
    /\ t \in tasks /\ t.phase \in {"claimed", "executing", "publishing"}
    /\ Fault
    /\ \/ nodeRun' = ReleasedBy(t.worker) /\ owed' = [owed EXCEPT ![t.worker] = 0]
       \/ owed' = [owed EXCEPT ![t.worker] = t.attempt] /\ UNCHANGED nodeRun
    /\ message' = [message EXCEPT ![t.attempt] = IF t.live THEN "queued" ELSE @]
    /\ tasks' = tasks \ {t}
    /\ UNCHANGED <<run, ready, eng, outbox, events, irregular>>

\* The broker's lease of a command, which nothing renews, runs out.
MessageLapse(a) ==
    /\ message[a] = "leased"
    /\ message' = [message EXCEPT ![a] = "queued"]
    /\ tasks' = {IF t.attempt = a THEN [t EXCEPT !.live = FALSE] ELSE t : t \in tasks}
    /\ IF \E t \in tasks : t.attempt = a /\ t.live THEN Fault ELSE UNCHANGED faults
    /\ UNCHANGED <<run, nodeRun, ready, eng, outbox, owed, events, irregular>>

\* A worker process dies and is replaced by one with a new replica id.
WorkerCrash(w) ==
    /\ \E t \in tasks : t.worker = w
    /\ Fault
    /\ tasks' = {t \in tasks : t.worker # w}
    /\ owed' = [owed EXCEPT ![w] = 0]
    /\ nodeRun' = [nodeRun EXCEPT !.holder = IF @ = w THEN Former ELSE @]
    /\ eng' = [e \in Engines |-> IF eng[e].phase = "release" /\ eng[e].holder = w
                                   THEN [eng[e] EXCEPT !.holder = Former] ELSE eng[e]]
    /\ UNCHANGED <<run, ready, outbox, message, events, irregular>>

-------------------------------------------------------------------------------
(***************************************************************************)
(* The result consumers.                                                   *)
(***************************************************************************)
\* The WHERE of apply_workflow_result_event.
Applies(ev) ==
    /\ ~(nodeRun.status \in Terminal /\ ev.status \notin Terminal)
    /\ nodeRun.attempt <= ev.attempt

\* apply_workflow_result_event in the database: record the event id and, if the
\* guard holds, take over its status.  The channel redelivers and several
\* replicas consume it, so events are applied in any order.
apply_workflow_result_event(ev) ==
    /\ ev \in events /\ ev.state = "queued"
    /\ nodeRun' = IF Applies(ev)
                    THEN [nodeRun EXCEPT !.status = ev.status,
                                         !.late = IF ev.status = "running" THEN FALSE ELSE @]
                    ELSE nodeRun
    /\ events' = (events \ {ev}) \cup
                    IF ev.status \in Terminal THEN {[ev EXCEPT !.state = "applied"]} ELSE {}
    /\ UNCHANGED <<run, ready, eng, outbox, message, tasks, owed, irregular, faults>>

\* The drive that follows a terminal status, duplicate or not.
enqueue_result_drive(ev) ==
    /\ ev \in events /\ ev.state = "applied"
    /\ ready' = Enqueued("event")
    /\ \/ /\ events' = events \ {ev}
          /\ UNCHANGED faults
       \/ /\ Fault          \* the ack is lost and the event comes again
          /\ UNCHANGED events
    /\ UNCHANGED <<run, nodeRun, eng, outbox, message, tasks, owed, irregular>>

-------------------------------------------------------------------------------
EngineStep(e) ==
    \/ \E k \in Sorts : Drive(e, k)
    \/ read(e) \/ enqueue_action_dispatch(e) \/ mark_running(e)
    \/ arm(e) \/ release_dead_holder(e) \/ requeue(e) \/ schedule_node_retry(e)
    \/ settle(e) \/ end_run(e) \/ complete(e)

WorkerStep(t) ==
    \/ claim_executor(t) \/ drop_duplicate(t)
    \/ publish_running(t) \/ publish_terminal(t)
    \/ \E outcome \in {"succeeded", "failed"} : execute_task(t, outcome)
    \/ ack_delivery(t) \/ release_executor_lease(t)

ResultStep(ev) == apply_workflow_result_event(ev) \/ enqueue_result_drive(ev)

Faulty ==
    \/ \E e \in Engines : EngineCrash(e) \/ fail_driven_ready_node(e)
    \/ \E w \in Workers : WorkerCrash(w)
    \/ \E t \in tasks : claim_fails_open(t) \/ nack_action_delivery(t)

\* The run has ended and nothing is left in motion.
Quiet ==
    /\ run \in Terminal /\ tasks = {} /\ \A e \in Engines : eng[e] = NoDrive
    /\ UNCHANGED vars

Next ==
    \/ \E k \in Sorts : BecomeDue(k)
    \/ Deadline
    \/ \E e \in Engines : EngineStep(e)
    \/ \E a \in Attempts : PublishDispatch(a) \/ MessageLapse(a)
    \/ \E w \in Workers, a \in Attempts : Receive(w, a)
    \/ \E t \in tasks : WorkerStep(t)
    \/ \E ev \in events : ResultStep(ev)
    \/ Faulty \/ Quiet

(***************************************************************************)
(* Fairness: every loop of the engines and every task of the workers goes  *)
(* on, the channels deliver, and time passes.                              *)
(***************************************************************************)
Fairness ==
    /\ \A e \in Engines : WF_vars(EngineStep(e))
    /\ \A k \in Sorts : WF_vars(BecomeDue(k)) /\ SF_vars(\E e \in Engines : Drive(e, k))
    /\ WF_vars(Deadline)
    /\ WF_vars(\E a \in Attempts : PublishDispatch(a))
    /\ \A a \in Attempts : WF_vars(\E w \in Workers : Receive(w, a)) /\ WF_vars(MessageLapse(a))
    /\ WF_vars(\E t \in tasks : WorkerStep(t))
    /\ WF_vars(\E ev \in events : ResultStep(ev))

Spec == Init /\ [][Next]_vars
FairSpec == Spec /\ Fairness

-------------------------------------------------------------------------------
\* A row that is claimed is being driven by the replica that claimed it.
ClaimsAreDriven ==
    \A k \in Sorts : ready[k] \in Engines => eng[ready[k]] # NoDrive /\ eng[ready[k]].sort = k

\* Types of the state, and whose the claimed rows are.
TypeOK ==
    /\ run \in RunStatus
    /\ nodeRun \in NodeRun
    /\ ready \in [Sorts -> {"none", "later", "due"} \cup Engines]
    /\ eng \in [Engines -> {NoDrive} \cup Reading \cup Decision]
    /\ ClaimsAreDriven
    /\ outbox \in [Attempts -> {"none", "pending", "published"}]
    /\ message \in [Attempts -> {"absent", "queued", "leased"}]
    /\ tasks \subseteq Task
    /\ owed \in [Workers -> 0..(MaxAttempts + 2)]
    /\ events \subseteq Event
    /\ irregular \in BOOLEAN /\ faults \in 0..MaxFaults

\* The attempt that goes out is never past max_attempts, whichever rows wake the
\* node and however late results arrive.
AttemptsBounded == outbox[MaxAttempts + 1] = "none"

\* "a redelivered or timeout-raced duplicate of this node run loses the claim ... so
\* the action never executes twice concurrently", save where a claim failed open
\* or the lease of a live worker was taken away.
ExclusiveExecution ==
    \A s, t \in tasks : s.phase = "executing" /\ t.phase = "executing" /\ s # t => irregular

\* A run that has ended is never revived by a drive with an old snapshot or a late
\* result; only an error after its end may still turn it into a failed one.
EndIsFinal ==
    [][(run \in Terminal) => (run' = run \/ (run' = "failed" /\ irregular'))]_vars

\* A run ends without success only after the last allowed attempt was dispatched,
\* or when driving it hit an error.
FailureIsEarned == run \in Retryable => outbox[MaxAttempts] # "none" \/ irregular

\* The run ends, whatever workers, engines and messages do, if the node has a timeout.
EventuallyEnds == <>(run \in Terminal)

\* "a very late result from a superseded attempt cannot overwrite a retry's status":
\* a node run queued for its retry changes only by being dispatched again.
LateResultDiscarded ==
    [][nodeRun.status = "queued" /\ nodeRun.attempt > 0
        => nodeRun'.status = "queued" \/ nodeRun'.attempt > nodeRun.attempt]_vars
===============================================================================
