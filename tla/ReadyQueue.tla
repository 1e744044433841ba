------------------------------ MODULE ReadyQueue ------------------------------
(***************************************************************************)
(* The durable ready-node queue and the loops that get every row of it     *)
(* driven:                                                                 *)
(*   - workflow_ready_nodes and its claims (runinator-database),           *)
(*   - the wake publisher and drive_ready_node (runinator-engine),         *)
(*   - the waker, which sleeps until a future row is due,                  *)
(*   - the wake and ingress channels, reduced to what LeaseChannel         *)
(*     promises (AtLeastOnce): a message is absent, queued or leased, and  *)
(*     a second publish of one that is not absent changes nothing.         *)
(*                                                                         *)
(* Every replica of the engine runs the publisher loop and one sequential  *)
(* ingress consumer.  Engines and wakers crash, the broker restarts empty, *)
(* publishes fail and database calls fail; MaxFaults bounds how often.     *)
(* Time is a set of flags: a row is due or not, a lease has lapsed or not. *)
(***************************************************************************)
EXTENDS Naturals, FiniteSets

CONSTANTS
    Rows,       \* ready-node rows (each is enqueued at most once)
    Engines,    \* engine replicas
    NodeOf,     \* the (run, node) a row belongs to
    RunOf,      \* the run a row belongs to
    MySql,      \* the announce lease of a future row ignores its due time
    WakerSlots, \* wakes the wakers handle at the same time
    MaxFaults   \* crashes, broker restarts and failed calls in a behaviour

ASSUME RowsAssumption == IsFiniteSet(Rows) /\ MySql \in BOOLEAN
ASSUME BoundsAssumption == WakerSlots \in Nat /\ MaxFaults \in Nat
ASSUME RunAssumption == \A r, s \in Rows : NodeOf[r] = NodeOf[s] => RunOf[r] = RunOf[s]

VARIABLES
    row,        \* row -> its record
    runDone,    \* runs with a terminal status
    wake,       \* row -> state of its message on the wake channel
    ingress,    \* row -> state of its Drive message on the ingress channel
    tasks,      \* the wakers' handle_wake tasks
    batch,      \* engine -> claimed announcements it has not published yet
    eng,        \* engine -> its ingress consumer
    faults      \* faults so far

vars == <<row, runDone, wake, ingress, tasks, batch, eng, faults>>

Nobody == "nobody"
Former == "former"      \* an instance that crashed: its claims stand until they lapse

ASSUME EnginesAssumption == Engines \cap {Nobody, Former} = {}

Runs == {RunOf[r] : r \in Rows}

RowRecord == [status : {"absent", "pending", "done"},
              due : BOOLEAN,
              claimedBy : Engines \cup {Nobody, Former},
              claimLapsed : BOOLEAN,
              announced : BOOLEAN]

NewRow(due) == [status |-> "pending", due |-> due, claimedBy |-> Nobody,
                claimLapsed |-> FALSE, announced |-> FALSE]

Channel == {"absent", "queued", "leased"}
Task == [row : Rows, phase : {"sleeping", "driven"}, live : BOOLEAN]
Idle == [phase |-> "idle"]
Consumer == [phase : {"received", "driving", "finished"},
             row : Rows, live : BOOLEAN, overran : BOOLEAN]

-------------------------------------------------------------------------------
\* A publish on a deduplicating channel: accepted, or refused as a duplicate
\* that the publishers treat as success.
Published(chan, r) == [chan EXCEPT ![r] = IF @ = "absent" THEN "queued" ELSE @]

\* ack and nack of a delivery: without effect once the lease was taken away.
Acked(chan, r, live) == [chan EXCEPT ![r] = IF live THEN "absent" ELSE @]
Nacked(chan, r, live) == [chan EXCEPT ![r] = IF live THEN "queued" ELSE @]

Fault == faults < MaxFaults /\ faults' = faults + 1

\* the SET completed_at of a set of rows
Settled(S) == [r \in Rows |-> IF r \in S THEN [row[r] EXCEPT !.status = "done"] ELSE row[r]]

Pending(r) == row[r].status = "pending"
Claimable(r) == Pending(r) /\ (row[r].claimedBy = Nobody \/ row[r].claimLapsed)
Announceable(r) == Claimable(r) /\ ~row[r].announced

-------------------------------------------------------------------------------
Init ==
    /\ row = [r \in Rows |-> [NewRow(FALSE) EXCEPT !.status = "absent"]]
    /\ runDone = {}
    /\ wake = [r \in Rows |-> "absent"]
    /\ ingress = [r \in Rows |-> "absent"]
    /\ tasks = {}
    /\ batch = [e \in Engines |-> {}]
    /\ eng = [e \in Engines |-> Idle]
    /\ faults = 0

\* enqueue_ready_node: in one transaction the due, uncompleted rows of the same
\* (run, node) are settled, claimed ones included, and the new row is inserted.
\* Future-dated rows stay.
enqueue_ready_node(r, due) ==
    /\ row[r].status = "absent"
    /\ LET stale == {s \in Rows : NodeOf[s] = NodeOf[r] /\ Pending(s) /\ row[s].due}
       IN row' = [Settled(stale) EXCEPT ![r] = NewRow(due)]
    /\ UNCHANGED <<runDone, wake, ingress, tasks, batch, eng, faults>>

\* Time reaches ready_at.
BecomeDue(r) ==
    /\ Pending(r) /\ ~row[r].due
    /\ row' = [row EXCEPT ![r].due = TRUE]
    /\ UNCHANGED <<runDone, wake, ingress, tasks, batch, eng, faults>>

\* Time reaches claimed_until.  The driver that still works on the row overran.
ClaimLapse(r) ==
    /\ Pending(r) /\ row[r].claimedBy # Nobody /\ ~row[r].claimLapsed
    /\ row' = [row EXCEPT ![r].claimLapsed = TRUE]
    /\ eng' = [e \in Engines |->
                 IF eng[e].phase = "driving" /\ eng[e].row = r /\ row[r].claimedBy = e
                   THEN [eng[e] EXCEPT !.overran = TRUE] ELSE eng[e]]
    /\ UNCHANGED <<runDone, wake, ingress, tasks, batch, faults>>

\* Fault: a row is announced once and for all.
AnnounceLapse_never(r) == Pending(r) /\ row[r].announced /\ UNCHANGED vars

\* Time reaches announced_until, which lies past ready_at except on MySQL.
AnnounceLapse(r) ==
    /\ Pending(r) /\ row[r].announced
    /\ row[r].due \/ MySql
    /\ row' = [row EXCEPT ![r].announced = FALSE]
    /\ UNCHANGED <<runDone, wake, ingress, tasks, batch, eng, faults>>

-------------------------------------------------------------------------------
\* publish_pending_wakes, first half: claim_ready_nodes_for_announce stamps the
\* announce lease of every announceable row and fixes, for each, whether it was
\* due at that moment.
Announce(e) ==
    /\ batch[e] = {}
    /\ \E r \in Rows : Announceable(r)
    /\ batch' = [batch EXCEPT ![e] =
                   {[row |-> r, due |-> row[r].due] : r \in {s \in Rows : Announceable(s)}}]
    /\ row' = [r \in Rows |-> IF Announceable(r) THEN [row[r] EXCEPT !.announced = TRUE]
                                                 ELSE row[r]]
    /\ UNCHANGED <<runDone, wake, ingress, tasks, eng, faults>>

\* publish_pending_wakes, second half: one publish.  A row that was due goes
\* straight onto the ingress channel, a future one to the waker.
PublishAnnounced(e, a) ==
    /\ a \in batch[e]
    /\ batch' = [batch EXCEPT ![e] = @ \ {a}]
    /\ IF a.due THEN /\ ingress' = Published(ingress, a.row)
                     /\ UNCHANGED wake
                ELSE /\ wake' = Published(wake, a.row)
                     /\ UNCHANGED ingress
    /\ UNCHANGED <<row, runDone, tasks, eng, faults>>

\* The publish fails: a warning is logged and the row waits for its lease to lapse.
PublishFails(e, a) ==
    /\ a \in batch[e]
    /\ Fault
    /\ batch' = [batch EXCEPT ![e] = @ \ {a}]
    /\ UNCHANGED <<row, runDone, wake, ingress, tasks, eng>>

-------------------------------------------------------------------------------
\* Fault: no slot is waited for.
WakeReceive_unlimited(r) ==
    /\ wake[r] = "queued"
    /\ wake' = [wake EXCEPT ![r] = "leased"]
    /\ tasks' = tasks \cup {[row |-> r, phase |-> "sleeping", live |-> TRUE]}
    /\ UNCHANGED <<row, runDone, ingress, batch, eng, faults>>

\* waker_loop: a wake is received into a free slot.
WakeReceive(r) ==
    /\ wake[r] = "queued"
    /\ Cardinality(tasks) < WakerSlots
    /\ wake' = [wake EXCEPT ![r] = "leased"]
    /\ tasks' = tasks \cup {[row |-> r, phase |-> "sleeping", live |-> TRUE]}
    /\ UNCHANGED <<row, runDone, ingress, batch, eng, faults>>

\* Fault: the Drive is published when the capped sleep ends, due or not.
WakeDrive_after_sleep(t) ==
    /\ t \in tasks /\ t.phase = "sleeping"
    /\ ingress' = Published(ingress, t.row)
    /\ tasks' = (tasks \ {t}) \cup {[t EXCEPT !.phase = "driven"]}
    /\ UNCHANGED <<row, runDone, wake, batch, eng, faults>>

\* handle_wake / drive: once the wake is due (at once, or after the sleep) the
\* Drive is published; Ok and Duplicate are the same.
WakeDrive(t) ==
    /\ t \in tasks /\ t.phase = "sleeping"
    /\ row[t.row].due
    /\ ingress' = Published(ingress, t.row)
    /\ tasks' = (tasks \ {t}) \cup {[t EXCEPT !.phase = "driven"]}
    /\ UNCHANGED <<row, runDone, wake, batch, eng, faults>>

\* drive: the ack that follows the publish.
WakeAck(t) ==
    /\ t \in tasks /\ t.phase = "driven"
    /\ wake' = Acked(wake, t.row, t.live)
    /\ tasks' = tasks \ {t}
    /\ UNCHANGED <<row, runDone, ingress, batch, eng, faults>>

\* handle_wake: not due after max_sleep, or shutdown while sleeping; or drive's
\* publish failed.  The wake goes back.
WakeNack(t) ==
    /\ t \in tasks /\ t.phase = "sleeping"
    /\ IF row[t.row].due THEN Fault ELSE UNCHANGED faults
    /\ wake' = Nacked(wake, t.row, t.live)
    /\ tasks' = tasks \ {t}
    /\ UNCHANGED <<row, runDone, ingress, batch, eng>>

\* The lease of a wake expires and the broker queues it again; its task goes on
\* with a delivery id that is no longer known.
WakeLapse(r) ==
    /\ wake[r] = "leased"
    /\ wake' = [wake EXCEPT ![r] = "queued"]
    /\ tasks' = {IF t.row = r THEN [t EXCEPT !.live = FALSE] ELSE t : t \in tasks}
    /\ UNCHANGED <<row, runDone, ingress, batch, eng, faults>>

-------------------------------------------------------------------------------
\* run_ingress_consumer: one delivery at a time.
DriveReceive(e, r) ==
    /\ eng[e] = Idle
    /\ ingress[r] = "queued"
    /\ ingress' = [ingress EXCEPT ![r] = "leased"]
    /\ eng' = [eng EXCEPT ![e] =
                 [phase |-> "received", row |-> r, live |-> TRUE, overran |-> FALSE]]
    /\ UNCHANGED <<row, runDone, wake, tasks, batch, faults>>

\* Fault: the claim ignores a claim another driver holds.
claim_ready_node_unguarded(e) ==
    /\ eng[e].phase = "received"
    /\ LET r == eng[e].row
           ok == Pending(r)
       IN /\ row' = IF ok THEN [row EXCEPT ![r].claimedBy = e, ![r].claimLapsed = FALSE]
                          ELSE row
          /\ eng' = [eng EXCEPT ![e].phase = IF ok THEN "driving" ELSE "finished"]
    /\ UNCHANGED <<runDone, wake, ingress, tasks, batch, faults>>

\* drive_ready_node: claim_ready_node, a compare-and-set on the row that has no
\* look at ready_at.  A row that is completed or claimed elsewhere is no error.
claim_ready_node(e) ==
    /\ eng[e].phase = "received"
    /\ LET r == eng[e].row
           ok == Claimable(r) \/ (Pending(r) /\ row[r].claimedBy = e)
       IN /\ row' = IF ok THEN [row EXCEPT ![r].claimedBy = e, ![r].claimLapsed = FALSE]
                          ELSE row
          /\ eng' = [eng EXCEPT ![e].phase = IF ok THEN "driving" ELSE "finished"]
    /\ UNCHANGED <<runDone, wake, ingress, tasks, batch, faults>>

\* drive_ready_node: the reducer is through with the row (or the run was already
\* terminal) and the row is completed if the claim is still this driver's.
complete_ready_node(e) ==
    /\ eng[e].phase = "driving"
    /\ row' = IF row[eng[e].row].claimedBy = e
                THEN [row EXCEPT ![eng[e].row].status = "done"] ELSE row
    /\ eng' = [eng EXCEPT ![e].phase = "finished"]
    /\ UNCHANGED <<runDone, wake, ingress, tasks, batch, faults>>

\* Fault: the release has no look at completed_at.
release_ready_node_unguarded(e) ==
    /\ eng[e].phase = "driving"
    /\ row' = IF row[eng[e].row].claimedBy = e
                THEN [row EXCEPT ![eng[e].row].claimedBy = Nobody,
                                 ![eng[e].row].status = "pending"]
                ELSE row
    /\ eng' = [eng EXCEPT ![e].phase = "finished"]
    /\ UNCHANGED <<runDone, wake, ingress, tasks, batch, faults>>

\* drive_ready_node with KeepClaim: the row returns to the queue.
release_ready_node(e) ==
    /\ eng[e].phase = "driving"
    /\ RunOf[eng[e].row] \notin runDone
    /\ row' = IF row[eng[e].row].claimedBy = e /\ Pending(eng[e].row)
                THEN [row EXCEPT ![eng[e].row].claimedBy = Nobody,
                                 ![eng[e].row].claimLapsed = FALSE]
                ELSE row
    /\ eng' = [eng EXCEPT ![e].phase = "finished"]
    /\ UNCHANGED <<runDone, wake, ingress, tasks, batch, faults>>

\* The reducer ends the run: update_workflow_run_status sets the status and, in a
\* second statement, settles every uncompleted row of the run.  A reducer
\* hard-error (fail_driven_ready_node) does the same with status failed.
EndRun(e) ==
    /\ eng[e].phase = "driving"
    /\ runDone' = runDone \cup {RunOf[eng[e].row]}
    /\ row' = Settled({r \in Rows : RunOf[r] = RunOf[eng[e].row] /\ Pending(r)})
    /\ UNCHANGED <<wake, ingress, tasks, batch, eng, faults>>

\* The same, interrupted between the two statements.
EndRunInterrupted(e) ==
    /\ eng[e].phase = "driving"
    /\ Fault
    /\ runDone' = runDone \cup {RunOf[eng[e].row]}
    /\ eng' = [eng EXCEPT ![e] = Idle]
    /\ row' = [r \in Rows |-> IF row[r].claimedBy = e
                                THEN [row[r] EXCEPT !.claimedBy = Former] ELSE row[r]]
    /\ batch' = [batch EXCEPT ![e] = {}]
    /\ UNCHANGED <<wake, ingress, tasks>>

\* run_ready_node_reaper: settle_terminal_run_ready_nodes.
Reap ==
    /\ \E r \in Rows : Pending(r) /\ RunOf[r] \in runDone
    /\ row' = Settled({r \in Rows : Pending(r) /\ RunOf[r] \in runDone})
    /\ UNCHANGED <<runDone, wake, ingress, tasks, batch, eng, faults>>

\* run_ingress_consumer: the ack after a successful apply_ingress.
DriveAck(e) ==
    /\ eng[e].phase = "finished"
    /\ ingress' = Acked(ingress, eng[e].row, eng[e].live)
    /\ eng' = [eng EXCEPT ![e] = Idle]
    /\ UNCHANGED <<row, runDone, wake, tasks, batch, faults>>

\* apply_ingress failed (a database error in the claim or after it): the delivery
\* is returned, or acked as a dead letter on the last attempt.  A claim taken
\* before the error stays on the row.
DriveFails(e) ==
    /\ eng[e].phase \in {"received", "driving"}
    /\ Fault
    /\ \/ ingress' = Nacked(ingress, eng[e].row, eng[e].live)
       \/ ingress' = Acked(ingress, eng[e].row, eng[e].live)
    /\ eng' = [eng EXCEPT ![e] = Idle]
    /\ UNCHANGED <<row, runDone, wake, tasks, batch>>

\* The lease of a Drive expires while its consumer works (or after it crashed).
IngressLapse(r) ==
    /\ ingress[r] = "leased"
    /\ ingress' = [ingress EXCEPT ![r] = "queued"]
    /\ eng' = [e \in Engines |-> IF eng[e] # Idle /\ eng[e].row = r
                                   THEN [eng[e] EXCEPT !.live = FALSE] ELSE eng[e]]
    /\ UNCHANGED <<row, runDone, wake, tasks, batch, faults>>

-------------------------------------------------------------------------------
\* An engine replica stops and is replaced by one with a new instance id.
EngineCrash(e) ==
    /\ Fault
    /\ eng' = [eng EXCEPT ![e] = Idle]
    /\ batch' = [batch EXCEPT ![e] = {}]
    /\ row' = [r \in Rows |-> IF row[r].claimedBy = e
                                THEN [row[r] EXCEPT !.claimedBy = Former] ELSE row[r]]
    /\ UNCHANGED <<runDone, wake, ingress, tasks>>

\* A waker process stops.
WakerCrash(t) ==
    /\ t \in tasks
    /\ Fault
    /\ tasks' = tasks \ {t}
    /\ UNCHANGED <<row, runDone, wake, ingress, batch, eng>>

\* The in-memory broker restarts: both channels are empty, old ids unknown.
BrokerRestart ==
    /\ Fault
    /\ wake' = [r \in Rows |-> "absent"]
    /\ ingress' = [r \in Rows |-> "absent"]
    /\ tasks' = {[t EXCEPT !.live = FALSE] : t \in tasks}
    /\ eng' = [e \in Engines |-> IF eng[e] = Idle THEN Idle
                                 ELSE [eng[e] EXCEPT !.live = FALSE]]
    /\ UNCHANGED <<row, runDone, batch>>

-------------------------------------------------------------------------------
Publisher(e) ==
    \/ Announce(e)
    \/ \E a \in batch[e] : PublishAnnounced(e, a)

IngressStep(e) ==
    \/ \E r \in Rows : DriveReceive(e, r)
    \/ claim_ready_node(e) \/ complete_ready_node(e) \/ release_ready_node(e)
    \/ EndRun(e) \/ DriveAck(e)

Clock(r) == BecomeDue(r) \/ ClaimLapse(r) \/ AnnounceLapse(r)

Waker ==
    \/ \E r \in Rows : WakeReceive(r) \/ WakeLapse(r)
    \/ \E t \in tasks : WakeDrive(t) \/ WakeAck(t) \/ WakeNack(t)

Faulty ==
    \/ \E e \in Engines : \/ EngineCrash(e) \/ EndRunInterrupted(e) \/ DriveFails(e)
                          \/ \E a \in batch[e] : PublishFails(e, a)
    \/ \E t \in tasks : WakerCrash(t)
    \/ BrokerRestart

\* Everything is settled and no process has anything left to do.
Quiet ==
    /\ \A r \in Rows : row[r].status = "done"
    /\ UNCHANGED vars

Next ==
    \/ \E r \in Rows, due \in BOOLEAN : enqueue_ready_node(r, due)
    \/ \E r \in Rows : Clock(r) \/ IngressLapse(r)
    \/ \E e \in Engines : Publisher(e) \/ IngressStep(e)
    \/ Waker \/ Reap \/ Faulty \/ Quiet

(***************************************************************************)
(* Fairness.  The engine's loops run for ever (weak fairness of every      *)
(* publisher and of the consumer's own steps); deadlines pass; the ingress *)
(* queue is first in, first out, so a Drive that is queued again and again *)
(* reaches the head (strong fairness of its receipt by somebody).  Nothing *)
(* is assumed of the wakers.                                               *)
(***************************************************************************)
Fairness ==
    /\ \A e \in Engines :
          /\ WF_vars(Publisher(e))
          /\ WF_vars(claim_ready_node(e))
          /\ WF_vars(complete_ready_node(e) \/ release_ready_node(e))
          /\ WF_vars(DriveAck(e))
    /\ \A r \in Rows :
          /\ SF_vars(\E e \in Engines : DriveReceive(e, r))
          /\ WF_vars(BecomeDue(r))
          /\ WF_vars(ClaimLapse(r))
          /\ WF_vars(AnnounceLapse(r))
          /\ WF_vars(IngressLapse(r))

Spec == Init /\ [][Next]_vars
FairSpec == Spec /\ Fairness

-------------------------------------------------------------------------------
\* Types; the wakers never handle more wakes than they have slots.
TypeOK ==
    /\ row \in [Rows -> RowRecord]
    /\ runDone \in SUBSET Runs
    /\ wake \in [Rows -> Channel] /\ ingress \in [Rows -> Channel]
    /\ tasks \in SUBSET Task /\ Cardinality(tasks) <= WakerSlots
    /\ batch \in [Engines -> SUBSET [row : Rows, due : BOOLEAN]]
    /\ eng \in [Engines -> {Idle} \cup Consumer]
    /\ faults \in 0..MaxFaults

Driving(e, r) == eng[e].phase = "driving" /\ eng[e].row = r

\* No row is driven before it is due, although claim_ready_node has no look at
\* ready_at: everybody who publishes a Drive has checked it.
NoEarlyDrive ==
    /\ \A e \in Engines, r \in Rows : Driving(e, r) => row[r].due
    /\ \A r \in Rows : ingress[r] # "absent" => row[r].due

\* Two replicas drive one row at the same time only when the first outlived the
\* lease of its claim.
ExclusiveDrive ==
    \A d, e \in Engines, r \in Rows :
        d # e /\ Driving(d, r) /\ Driving(e, r) => eng[d].overran \/ eng[e].overran

\* A completed row stays completed: late releases, claims and failures of
\* drivers, reapers and announcers do not bring it back.
DoneIsFinal ==
    [][\A r \in Rows : row[r].status = "done" => row'[r].status = "done"]_vars

\* Every pending row is driven, again and again until it is done, whatever is
\* lost on the way: the announce lease re-announces it, with or without a waker.
EventuallyDriven ==
    \A r \in Rows :
        row[r].status = "pending" ~>
            (row[r].status = "done" \/ \E e \in Engines : Driving(e, r))
===============================================================================
