--------------------------------- MODULE Mutex ---------------------------------
(***************************************************************************)
(* Named mutex nodes (runinator-reducer/src/orchestration/mutex.rs): runs  *)
(* that pass an acquire node, work inside a critical section and leave it  *)
(* through a release node, by reaching the acquire node again, or by       *)
(* ending.  A lease is a workflow_mutex record that carries no released_at;*)
(* records that do are ignored by every reader and are left out.           *)
(*                                                                         *)
(* Exclusion rests on "the ws ingress consumer driving the reducer one     *)
(* node at a time per replica": the check and the acquisition are two      *)
(* steps, so Engines has one element where exclusion is claimed.           *)
(***************************************************************************)
EXTENDS Naturals, FiniteSets

CONSTANTS
    Runs, Engines,
    Hold,       \* runs whose acquire node declares hold_timeout_seconds
    Impatient,  \* runs whose acquire node declares timeout_seconds
    MaxVisits,  \* how often a run passes its acquire node
    MaxFaults   \* crashes, reducer errors, cancellations

ASSUME RunsAssumption == Hold \subseteq Runs /\ Impatient \subseteq Runs
ASSUME EnginesAssumption == Engines \cap {"none", "later", "due"} = {}
ASSUME LimitsAssumption == MaxVisits \in Nat \ {0} /\ MaxFaults \in Nat

VARIABLES
    run,        \* run -> status, active node, wait deadline passed or not, visits
    leases,     \* unreleased workflow_mutex records of the one name
    ready,      \* run -> sort of ready row -> none, later, due, or its driver
    eng,        \* engine -> the drive it is in
    faults

vars == <<run, leases, ready, eng, faults>>

Terminal == {"succeeded", "failed", "timed_out", "canceled"}
Sorts == {"event", "poll", "timer"}
Idle == [phase |-> "idle"]
Phases == {"step", "acquire", "enter", "park", "parked", "poll", "arm", "release", "leave", "hook", "complete"}

DriveState == [phase : Phases, run : Runs, sort : Sorts]
RunState == [status : {"running", "waiting"} \cup Terminal,
             at : {"acquire", "inside", "release", "end"},
             late : BOOLEAN, visits : 0..MaxVisits]

Active(r) == run[r].status \notin Terminal
Fault == faults < MaxFaults /\ faults' = faults + 1

\* enqueue_ready_node: the run's due rows are settled, a driven one included.
Enqueued(r, sort) ==
    [ready EXCEPT ![r] = [k \in Sorts |->
        IF k = sort THEN (IF k = "event" THEN "due" ELSE "later")
        ELSE IF @[k] = "later" THEN "later" ELSE "none"]]

\* the rows of a run that has ended
Settled(r) == [ready EXCEPT ![r] = [k \in Sorts |-> "none"]]

Moved(e, phase) == [eng EXCEPT ![e].phase = phase]

Init ==
    /\ run = [r \in Runs |-> [status |-> "running", at |-> "acquire",
                              late |-> FALSE, visits |-> 0]]
    /\ leases = {}
    /\ ready = [r \in Runs |-> [k \in Sorts |-> IF k = "event" THEN "due" ELSE "none"]]
    /\ eng = [e \in Engines |-> Idle]
    /\ faults = 0

-------------------------------------------------------------------------------
\* Time passes: a row becomes due; the acquire node's timeout; a hold's deadline.
BecomeDue(r, k) ==
    /\ ready[r][k] = "later"
    /\ ready' = [ready EXCEPT ![r][k] = "due"]
    /\ UNCHANGED <<run, leases, eng, faults>>

Deadline(r) ==
    /\ r \in Impatient /\ run[r].status = "waiting" /\ ~run[r].late
    /\ run' = [run EXCEPT ![r].late = TRUE]
    /\ UNCHANGED <<leases, ready, eng, faults>>

Lapse(l) ==
    /\ l \in leases /\ l.run \in Hold /\ ~l.lapsed
    /\ leases' = (leases \ {l}) \cup {[l EXCEPT !.lapsed = TRUE]}
    /\ UNCHANGED <<run, ready, eng, faults>>

-------------------------------------------------------------------------------
\* Fault: an ended holder still counts.
mutex_is_locked_by_any(r) == \E l \in leases : l.run # r /\ ~l.lapsed

\* Fault: nobody ever holds it.
mutex_is_free(r) == FALSE

\* mutex_is_locked: held by another run, not lapsed, and that run has not ended.
mutex_is_locked(r) == \E l \in leases : l.run # r /\ ~l.lapsed /\ Active(l.run)

\* Fault: every lease of the name goes, whoever holds it.
release_all_leases(r) == {}

\* release_run_leases: what is left when r has released its leases.
release_run_leases(r) == {l \in leases : l.run # r}

\* process_ready_node claims a due row.
Drive(e, r, k) ==
    /\ eng[e] = Idle
    /\ ready[r][k] = "due"
    /\ ready' = [ready EXCEPT ![r][k] = e]
    /\ eng' = [eng EXCEPT ![e] = [phase |-> "step", run |-> r, sort |-> k]]
    /\ UNCHANGED <<run, leases, faults>>

\* process_mutex_node at an acquire node: an elapsed wait ends the run, a locked
\* mutex is polled again (or first parked), a free one is acquired.
AtAcquire(e, r) ==
    \/ /\ run[r].status = "waiting" /\ run[r].late
       /\ run' = [run EXCEPT ![r].status = "timed_out"]
       /\ ready' = Settled(r)
       /\ eng' = Moved(e, "hook")
    \/ /\ ~(run[r].status = "waiting" /\ run[r].late)
       /\ eng' = Moved(e, IF ~mutex_is_locked(r) THEN "acquire"
                          ELSE IF run[r].status = "waiting" THEN "poll" ELSE "park")
       /\ UNCHANGED <<run, ready>>

\* One step of the reducer on the active node.  Inside the section the active node
\* is an action that a worker has; the end node ends the run.
process_step(e) ==
    /\ eng[e].phase = "step"
    /\ LET r == eng[e].run
       IN \/ /\ ~Active(r)
             /\ eng' = Moved(e, "hook")
             /\ UNCHANGED <<run, ready>>
          \/ /\ Active(r) /\ run[r].at = "inside"
             /\ eng' = Moved(e, "complete")
             /\ UNCHANGED <<run, ready>>
          \/ Active(r) /\ run[r].at = "acquire" /\ AtAcquire(e, r)
          \/ /\ Active(r) /\ run[r].at = "release"
             /\ eng' = Moved(e, "release")
             /\ UNCHANGED <<run, ready>>
          \/ /\ Active(r) /\ run[r].at = "end"
             /\ run' = [run EXCEPT ![r].status = "succeeded"]
             /\ ready' = Settled(r)
             /\ eng' = Moved(e, "hook")
    /\ UNCHANGED <<leases, faults>>

\* acquire_or_reinforce: a run that holds a lease that has not lapsed keeps it.
acquire_or_reinforce(e) ==
    /\ eng[e].phase = "acquire"
    /\ leases' = leases \cup {[run |-> eng[e].run, lapsed |-> FALSE]}
    /\ eng' = Moved(e, "enter")
    /\ UNCHANGED <<run, ready, faults>>

\* transition_from_node of an acquired mutex: the run goes on with its section,
\* whatever its status has become since the drive read it.
enter(e) ==
    /\ eng[e].phase = "enter"
    /\ run' = [run EXCEPT ![eng[e].run] = [status |-> "running", at |-> "inside",
                                           late |-> FALSE, visits |-> @.visits + 1]]
    /\ eng' = Moved(e, "complete")
    /\ UNCHANGED <<leases, ready, faults>>

\* First visit of a locked mutex: the node run and the run wait.
park(e) ==
    /\ eng[e].phase = "park"
    /\ run' = [run EXCEPT ![eng[e].run].status = "waiting"]
    /\ eng' = Moved(e, "parked")
    /\ UNCHANGED <<leases, ready, faults>>

\* enqueue_mutex_poll; the row of this drive is settled with it.
enqueue_mutex_poll(e) ==
    /\ eng[e].phase \in {"poll", "parked"}
    /\ ready' = Enqueued(eng[e].run, "poll")
    /\ eng' = Moved(e, IF eng[e].phase = "parked" THEN "arm" ELSE "complete")
    /\ UNCHANGED <<run, leases, faults>>

\* arm_node_timeout, once, when the run is parked.
arm_node_timeout(e) ==
    /\ eng[e].phase = "arm"
    /\ ready' = IF eng[e].run \in Impatient THEN Enqueued(eng[e].run, "timer") ELSE ready
    /\ eng' = Moved(e, "complete")
    /\ UNCHANGED <<run, leases, faults>>

\* A release node: the leases of the run go, and the run goes on to its end or back
\* to the acquire node.
release_run_mutex_named(e) ==
    /\ eng[e].phase = "release"
    /\ leases' = release_run_leases(eng[e].run)
    /\ eng' = Moved(e, "leave")
    /\ UNCHANGED <<run, ready, faults>>

leave(e) ==
    /\ eng[e].phase = "leave"
    /\ \E next \in {"end"} \cup (IF run[eng[e].run].visits < MaxVisits THEN {"acquire"} ELSE {}) :
          run' = [run EXCEPT ![eng[e].run].status = "running", ![eng[e].run].at = next]
    /\ eng' = Moved(e, "step")
    /\ UNCHANGED <<leases, ready, faults>>

\* release_run_mutexes in the terminal hook of process_ready_node.
release_run_mutexes(e) ==
    /\ eng[e].phase = "hook"
    /\ leases' = release_run_leases(eng[e].run)
    /\ eng' = Moved(e, "complete")
    /\ UNCHANGED <<run, ready, faults>>

\* complete_ready_node or release_ready_node: the row is done if it is still this
\* drive's; a row that was polled for has been settled by the new one.
complete(e) ==
    /\ eng[e].phase = "complete"
    /\ ready' = [ready EXCEPT ![eng[e].run][eng[e].sort] = IF @ = e THEN "none" ELSE @]
    /\ eng' = [eng EXCEPT ![e] = Idle]
    /\ UNCHANGED <<run, leases, faults>>

-------------------------------------------------------------------------------
\* The work inside the section is done: its result enqueues a drive, and the run goes
\* to a release node, back to the acquire node without one, or to its end.
SectionDone(r) ==
    /\ run[r].at = "inside"
    /\ \E next \in {"release", "end"} \cup (IF run[r].visits < MaxVisits THEN {"acquire"} ELSE {}) :
          run' = [run EXCEPT ![r].at = next]
    /\ ready' = Enqueued(r, "event")
    /\ UNCHANGED <<leases, eng, faults>>

\* cancel_workflow_run by a handler of the web service, in the middle of a drive or
\* not: the status and the rows, no release.
cancel_workflow_run(r) ==
    /\ Active(r)
    /\ Fault
    /\ run' = [run EXCEPT ![r].status = "canceled"]
    /\ ready' = Settled(r)
    /\ UNCHANGED <<leases, eng>>

fail_driven_ready_node(e) ==
    /\ eng[e] # Idle
    /\ Fault
    /\ run' = [run EXCEPT ![eng[e].run].status = "failed"]
    /\ ready' = Settled(eng[e].run)
    /\ eng' = [eng EXCEPT ![e] = Idle]
    /\ UNCHANGED leases

\* A replica stops; the claim of its row lapses.
EngineCrash(e) ==
    /\ eng[e] # Idle
    /\ Fault
    /\ ready' = [ready EXCEPT ![eng[e].run][eng[e].sort] = IF @ = e THEN "due" ELSE @]
    /\ eng' = [eng EXCEPT ![e] = Idle]
    /\ UNCHANGED <<run, leases>>

-------------------------------------------------------------------------------
EngineStep(e) ==
    \/ \E r \in Runs, k \in Sorts : Drive(e, r, k)
    \/ process_step(e) \/ acquire_or_reinforce(e) \/ enter(e)
    \/ park(e) \/ enqueue_mutex_poll(e) \/ arm_node_timeout(e)
    \/ release_run_mutex_named(e) \/ leave(e) \/ release_run_mutexes(e) \/ complete(e)

Clock ==
    \/ \E r \in Runs : Deadline(r) \/ \E k \in Sorts : BecomeDue(r, k)
    \/ \E l \in leases : Lapse(l)

Faulty ==
    \/ \E e \in Engines : EngineCrash(e) \/ fail_driven_ready_node(e)
    \/ \E r \in Runs : cancel_workflow_run(r)

\* Every run has ended.
Quiet ==
    /\ \A r \in Runs : ~Active(r)
    /\ UNCHANGED vars

Next ==
    \/ \E e \in Engines : EngineStep(e)
    \/ \E r \in Runs : SectionDone(r)
    \/ Clock \/ Faulty \/ Quiet

(***************************************************************************)
(* Fairness: replicas go on, every due row is driven (the ingress queue is *)
(* first in, first out), time passes, and the work in a section ends,      *)
(* except in the runs that declare a hold timeout: theirs may hang.        *)
(***************************************************************************)
Fairness ==
    /\ \A e \in Engines : WF_vars(EngineStep(e))
    /\ \A r \in Runs, k \in Sorts :
          WF_vars(BecomeDue(r, k)) /\ SF_vars(\E e \in Engines : Drive(e, r, k))
    /\ WF_vars(\E l \in leases : Lapse(l))
    /\ \A r \in Runs \ Hold : WF_vars(SectionDone(r))

Spec == Init /\ [][Next]_vars
FairSpec == Spec /\ Fairness

-------------------------------------------------------------------------------
\* A claimed row is being driven.
ClaimsAreDriven ==
    \A r \in Runs, k \in Sorts : ready[r][k] \in Engines =>
        LET drive == eng[ready[r][k]]
        IN drive # Idle /\ drive.run = r /\ drive.sort = k

\* Types of the state, and whose the claimed rows are.
TypeOK ==
    /\ run \in [Runs -> RunState]
    /\ leases \subseteq [run : Runs, lapsed : BOOLEAN]
    /\ ready \in [Runs -> [Sorts -> {"none", "later", "due"} \cup Engines]]
    /\ eng \in [Engines -> {Idle} \cup DriveState]
    /\ ClaimsAreDriven
    /\ faults \in 0..MaxFaults

\* The mutex has one holder: of the leases that have not lapsed only one belongs to a
\* run that has not ended, whatever ends, crashes, is canceled or comes back.
HeldByOne ==
    \A k, l \in leases :
        ~k.lapsed /\ ~l.lapsed /\ Active(k.run) /\ Active(l.run) => k = l

\* A run in its section has a lease, lapsed or not: nobody else's release or reclaim
\* takes it away.
SectionIsBacked ==
    \A r \in Runs : Active(r) /\ run[r].at = "inside" => \E l \in leases : l.run = r

\* No run waits for ever: not behind a holder that was canceled, failed or crashed and
\* never released, nor behind one that hangs with a hold timeout.
HandedOn == \A r \in Runs : run[r].status = "waiting" ~> run[r].status # "waiting"
===============================================================================
