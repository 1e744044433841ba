------------------------------- MODULE Pipelines -------------------------------
(***************************************************************************)
(* One run of a pipeline: its member workflows, the chained triggers       *)
(* between them and the settlement of the pipeline run                     *)
(* (runinator-reducer: chaining.rs, pipeline_orchestration.rs).            *)
(*   - the starter (API call or trigger loop) creates the pipeline run and *)
(*     then, one after the other, the runs of its entry members;           *)
(*   - the engine that ends a member run goes on, in the same drive, with  *)
(*     the terminal hook: chained workflows, chained pipelines, settlement;*)
(*   - an operator pauses, resumes and cancels.                            *)
(* Every database statement of these is a step of its own.  What a member  *)
(* does until it ends is one step; a late result may enqueue a drive of a  *)
(* run that has ended, possibly while another replica is in its hook.      *)
(***************************************************************************)
EXTENDS Naturals, FiniteSets

CONSTANTS
    Members,        \* member workflows
    Links,          \* in-pipeline chained triggers: [from, to, on]
    Downstream,     \* chained pipeline triggers: [source, on]
    Engines,
    MaxFaults,      \* crashes, reducer errors and superfluous drives
    MaxControls     \* commands of operators

Selectors == {"success", "failure", "complete"}
ThePipeline == "the pipeline"

ASSUME LinksAssumption ==
    /\ Links \subseteq [from : Members, to : Members, on : Selectors]
    /\ \A k, l \in Links : k.to = l.to => k = l      \* a member is chained to one other
ASSUME DownstreamAssumption ==
    Downstream \subseteq [source : Members \cup {ThePipeline}, on : Selectors]
ASSUME MembersAssumption == Members \cap (Links \cup Downstream) = {}
ASSUME EnginesAssumption == Engines \cap {"none", "due"} = {}
ASSUME LimitsAssumption == MaxFaults \in Nat /\ MaxControls \in Nat

VARIABLES
    pipeline,   \* pipeline_runs.status
    run,        \* member -> its workflow run: status and pipeline_run_id set or not
    row,        \* member -> the ready row of that run: none, due, or its driver
    fired,      \* workflow_trigger_firings and pipeline_trigger_firings
    started,    \* trigger or entry member -> runs it has started (history)
    starter,    \* who creates the pipeline run
    canceler,   \* who cancels the pipeline run
    eng,        \* engine -> the drive it is in
    controls, faults

vars == <<pipeline, run, row, fired, started, starter, canceler, eng, controls, faults>>

Terminal == {"succeeded", "failed", "canceled"}

\* WorkflowStatus::is_active: neither terminal nor paused.
is_active(status) == status \in {"queued", "running"}

Entry == {m \in Members : \A l \in Links : l.to # m}
Starts == Entry \cup Links \cup Downstream

Idle == [phase |-> "idle"]
NoLink == [on |-> "nothing"]
NoRun == [status |-> "none", tagged |-> FALSE]
DrivePhases == {"step", "end", "chain", "create", "tag", "enqueue", "settle", "write", "pipelines"}

\* chain_status_matches, pipeline_chain_status_matches
chain_status_matches(on, status) ==
    CASE on = "failure"  -> status = "failed"
      [] on = "complete" -> status \in Terminal
      [] on = "success"  -> status = "succeeded"

Fault == faults < MaxFaults /\ faults' = faults + 1
Command == controls < MaxControls /\ controls' = controls + 1

\* a terminal status settles the run's ready rows
RowSettled(m) == [row EXCEPT ![m] = "none"]

Once(n) == IF n < 2 THEN n + 1 ELSE n

Init ==
    /\ pipeline = "none"
    /\ run = [m \in Members |-> NoRun]
    /\ row = [m \in Members |-> "none"]
    /\ fired = {}
    /\ started = [s \in Starts |-> 0]
    /\ starter = [phase |-> "create", todo |-> Entry]
    /\ canceler = Idle
    /\ eng = [e \in Engines |-> Idle]
    /\ controls = 0
    /\ faults = 0

-------------------------------------------------------------------------------
(***************************************************************************)
(* The starter: create_and_start_pipeline_run, start_member_run.           *)
(***************************************************************************)
create_pipeline_run ==
    /\ starter.phase = "create"
    /\ pipeline' = "queued"
    /\ starter' = [starter EXCEPT !.phase = "flip"]
    /\ UNCHANGED <<run, row, fired, started, canceler, eng, controls, faults>>

\* without entry members the run fails; else it is running from here on, whatever
\* its status has become since.
start_pipeline_run ==
    /\ starter.phase = "flip"
    /\ pipeline' = IF Entry = {} THEN "failed" ELSE "running"
    /\ starter' = [starter EXCEPT !.phase = "members"]
    /\ UNCHANGED <<run, row, fired, started, canceler, eng, controls, faults>>

\* Fault: the member is never tagged with its pipeline run.
start_member_run_untagged(m) ==
    /\ starter.phase = "members" /\ m \in starter.todo
    /\ \/ /\ run[m] = NoRun
          /\ run' = [run EXCEPT ![m].status = "queued"]
          /\ started' = [started EXCEPT ![m] = Once(@)]
          /\ UNCHANGED <<row, starter>>
       \/ /\ run[m].status # "none" /\ ~run[m].tagged
          /\ row' = [row EXCEPT ![m] = "due"]
          /\ starter' = [starter EXCEPT !.todo = @ \ {m}]
          /\ UNCHANGED <<run, started>>
    /\ UNCHANGED <<pipeline, fired, canceler, eng, controls, faults>>

\* Create the run, tag it, enqueue its start node; then the next member.
start_member_run(m) ==
    /\ starter.phase = "members" /\ m \in starter.todo
    /\ \A n \in starter.todo \ {m} : run[n] = NoRun
    /\ \/ /\ run[m] = NoRun
          /\ run' = [run EXCEPT ![m].status = "queued"]
          /\ started' = [started EXCEPT ![m] = Once(@)]
          /\ UNCHANGED <<row, starter>>
       \/ /\ run[m].status # "none" /\ ~run[m].tagged
          /\ run' = [run EXCEPT ![m].tagged = TRUE]
          /\ UNCHANGED <<row, starter, started>>
       \/ /\ run[m].tagged
          /\ row' = [row EXCEPT ![m] = "due"]
          /\ starter' = [starter EXCEPT !.todo = @ \ {m}]
          /\ UNCHANGED <<run, started>>
    /\ UNCHANGED <<pipeline, fired, canceler, eng, controls, faults>>

\* The starter's process stops, or one of its statements fails.
StarterFails ==
    /\ starter.phase \in {"flip", "members"} /\ starter.todo # {}
    /\ Fault
    /\ starter' = [starter EXCEPT !.todo = {}, !.phase = "members"]
    /\ UNCHANGED <<pipeline, run, row, fired, started, canceler, eng, controls>>

-------------------------------------------------------------------------------
(***************************************************************************)
(* The engines.                                                            *)
(***************************************************************************)
Drive(e, m) ==
    /\ eng[e] = Idle
    /\ row[m] = "due"
    /\ row' = [row EXCEPT ![m] = e]
    /\ eng' = [eng EXCEPT ![e] = [phase |-> "step", of |-> m, status |-> "none",
                                  tagged |-> FALSE, todo |-> {}, link |-> NoLink]]
    /\ UNCHANGED <<pipeline, run, fired, started, starter, canceler, controls, faults>>

\* the drive of e is over: its row is completed if it is still e's
Completed(e) == [row EXCEPT ![eng[e].of] = IF @ = e THEN "none" ELSE @]

\* the hook of a run that has ended with status s: whether the run is tagged and the
\* triggers it is going to fire, workflows and pipelines
Hooked(e, s) ==
    LET m == eng[e].of
    IN [eng[e] EXCEPT !.phase = "chain", !.tagged = run[m].tagged,
                      !.todo = {l \in Links : l.from = m /\ chain_status_matches(l.on, s)} \cup
                               {d \in Downstream : d.source = m /\ chain_status_matches(d.on, s)}]

\* process_ready_node, the fetch of the run: it is active and will be worked on, or it
\* has ended before and only the hook is left, or it is paused and the row is completed.
process_ready_node(e) ==
    /\ eng[e].phase = "step"
    /\ LET status == run[eng[e].of].status
       IN \/ /\ is_active(status)
             /\ eng' = [eng EXCEPT ![e].phase = "end"]
             /\ UNCHANGED row
          \/ /\ status \in Terminal
             /\ eng' = [eng EXCEPT ![e] = Hooked(e, status)]
             /\ UNCHANGED row
          \/ /\ status = "paused"
             /\ row' = Completed(e)
             /\ eng' = [eng EXCEPT ![e] = Idle]
    /\ UNCHANGED <<pipeline, run, fired, started, starter, canceler, controls, faults>>

\* transition_from_node, the last of the run: the status is written whatever it has
\* become since it was read.
end_run(e) ==
    /\ eng[e].phase = "end"
    /\ \E s \in {"succeeded", "failed"} :
          /\ run' = [run EXCEPT ![eng[e].of].status = s]
          /\ eng' = [eng EXCEPT ![e] = Hooked(e, s)]
    /\ row' = RowSettled(eng[e].of)
    /\ UNCHANGED <<pipeline, fired, started, starter, canceler, controls, faults>>

Fires(e, l) ==
    /\ eng[e].phase \in {"chain", "pipelines"}
    /\ l \in eng[e].todo
    /\ l \in Downstream => eng[e].todo \cap Links = {}      \* workflows first

\* Fault: the outcome of the insert is not looked at.
try_record_unchecked(e, l) ==
    /\ Fires(e, l)
    /\ fired' = fired \cup {l}
    /\ eng' = [eng EXCEPT ![e].todo = @ \ {l}, ![e].phase = "create", ![e].link = l]
    /\ UNCHANGED <<pipeline, run, row, started, starter, canceler, controls, faults>>

\* Fault: the firing is recorded and nothing is started.
try_record_only(e, l) ==
    /\ Fires(e, l)
    /\ fired' = fired \cup {l}
    /\ eng' = [eng EXCEPT ![e].todo = @ \ {l}]
    /\ UNCHANGED <<pipeline, run, row, started, starter, canceler, controls, faults>>

\* try_record_trigger_firing, try_record_pipeline_trigger_firing: an insert that
\* ignores a row with the same (trigger, source run); only who inserted it starts.
try_record_trigger_firing(e, l) ==
    /\ Fires(e, l)
    /\ fired' = fired \cup {l}
    /\ eng' = [eng EXCEPT ![e].todo = @ \ {l},
                          ![e].phase = IF l \in fired THEN @ ELSE "create",
                          ![e].link = IF l \in fired THEN @ ELSE l]
    /\ UNCHANGED <<pipeline, run, row, started, starter, canceler, controls, faults>>

\* where the drive goes on after it has started what link l asks for
After(l) == IF l \in Downstream /\ l.source = ThePipeline THEN "pipelines" ELSE "chain"

\* start_chained_run, first statement.  The other pipeline of a chained pipeline
\* trigger is not looked into: it is created and started in this step.
create_run(e) ==
    /\ eng[e].phase = "create"
    /\ LET l == eng[e].link
       IN /\ started' = [started EXCEPT ![l] = Once(@)]
          /\ IF l \in Links
               THEN /\ run' = [run EXCEPT ![l.to] = [status |-> "queued", tagged |-> FALSE]]
                    /\ eng' = [eng EXCEPT ![e].phase = IF eng[e].tagged THEN "tag" ELSE "enqueue"]
               ELSE /\ eng' = [eng EXCEPT ![e].phase = After(l), ![e].link = NoLink]
                    /\ UNCHANGED run
    /\ UNCHANGED <<pipeline, row, fired, starter, canceler, controls, faults>>

\* start_chained_run: set_workflow_run_pipeline_run.
tag_run(e) ==
    /\ eng[e].phase = "tag"
    /\ run' = [run EXCEPT ![eng[e].link.to].tagged = TRUE]
    /\ eng' = [eng EXCEPT ![e].phase = "enqueue"]
    /\ UNCHANGED <<pipeline, row, fired, started, starter, canceler, controls, faults>>

\* start_chained_run: enqueue_ready_node.
enqueue_start(e) ==
    /\ eng[e].phase = "enqueue"
    /\ row' = [row EXCEPT ![eng[e].link.to] = "due"]
    /\ eng' = [eng EXCEPT ![e].phase = After(eng[e].link), ![e].link = NoLink]
    /\ UNCHANGED <<pipeline, run, fired, started, starter, canceler, controls, faults>>

Tagged == {m \in Members : run[m].tagged}

Verdict ==
    IF \E m \in Tagged : run[m].status = "failed" THEN "failed"
    ELSE IF \E m \in Tagged : run[m].status = "canceled" THEN "canceled"
    ELSE "succeeded"

\* maybe_settle_pipeline_run, the reads: nothing to do for a run that belongs to no
\* pipeline run, or to a settled one, or while a tagged run is active.
settle_read(e) ==
    /\ eng[e].phase = "chain" /\ eng[e].todo = {}
    /\ IF \/ ~eng[e].tagged
          \/ pipeline \in Terminal
          \/ \E m \in Tagged : is_active(run[m].status)
         THEN /\ row' = Completed(e)
              /\ eng' = [eng EXCEPT ![e] = Idle]
         ELSE /\ eng' = [eng EXCEPT ![e].phase = "write", ![e].status = Verdict]
              /\ UNCHANGED row
    /\ UNCHANGED <<pipeline, run, fired, started, starter, canceler, controls, faults>>

\* maybe_settle_pipeline_run, the write; then the pipelines chained to this one.
settle_write(e) ==
    /\ eng[e].phase = "write"
    /\ pipeline' = eng[e].status
    /\ eng' = [eng EXCEPT ![e].phase = "pipelines", ![e].status = "none",
                 ![e].todo = {d \in Downstream : d.source = ThePipeline
                                /\ chain_status_matches(d.on, eng[e].status)}]
    /\ UNCHANGED <<run, row, fired, started, starter, canceler, controls, faults>>

\* The hook is through: drive_ready_node completes the row.
complete(e) ==
    /\ eng[e].phase = "pipelines" /\ eng[e].todo = {}
    /\ row' = Completed(e)
    /\ eng' = [eng EXCEPT ![e] = Idle]
    /\ UNCHANGED <<pipeline, run, fired, started, starter, canceler, controls, faults>>

\* A statement of the drive fails: fail_driven_ready_node fails the member's run,
\* even one that has ended, and the rest of the hook is not done.
fail_driven_ready_node(e) ==
    /\ eng[e] # Idle
    /\ Fault
    /\ run' = [run EXCEPT ![eng[e].of].status = "failed"]
    /\ row' = RowSettled(eng[e].of)
    /\ eng' = [eng EXCEPT ![e] = Idle]
    /\ UNCHANGED <<pipeline, fired, started, starter, canceler, controls>>

\* A replica stops; the claim of its row lapses, if the row is still open.
EngineCrash(e) ==
    /\ eng[e] # Idle
    /\ Fault
    /\ row' = [row EXCEPT ![eng[e].of] = IF @ = e THEN "due" ELSE @]
    /\ eng' = [eng EXCEPT ![e] = Idle]
    /\ UNCHANGED <<pipeline, run, fired, started, starter, canceler, controls>>

\* A late result or a timer enqueues a row for a run that has ended.
LateRow(m) ==
    /\ run[m].status \in Terminal /\ row[m] = "none"
    /\ Fault
    /\ row' = [row EXCEPT ![m] = "due"]
    /\ UNCHANGED <<pipeline, run, fired, started, starter, canceler, eng, controls>>

-------------------------------------------------------------------------------
(***************************************************************************)
(* The operators.                                                          *)
(***************************************************************************)
\* pause_workflow_run of a member that is between two nodes.
pause_workflow_run(m) ==
    /\ is_active(run[m].status)
    /\ Command
    /\ run' = [run EXCEPT ![m].status = "paused"]
    /\ UNCHANGED <<pipeline, row, fired, started, starter, canceler, eng, faults>>

\* resume_workflow_run: no row is enqueued.  The pause before it counts as the command.
resume_workflow_run(m) ==
    /\ run[m].status = "paused"
    /\ run' = [run EXCEPT ![m].status = "running"]
    /\ UNCHANGED <<pipeline, row, fired, started, starter, canceler, eng, controls, faults>>

\* cancel_workflow_run: the status and the rows, no hook.
cancel_workflow_run(m) ==
    /\ run[m].status \notin Terminal \cup {"none"}
    /\ Command
    /\ run' = [run EXCEPT ![m].status = "canceled"]
    /\ row' = RowSettled(m)
    /\ UNCHANGED <<pipeline, fired, started, starter, canceler, eng, faults>>

\* cancel_pipeline_run: read the members, cancel those that were active, one by one,
\* and then the pipeline run.
cancel_pipeline_run ==
    /\ canceler = Idle /\ pipeline # "none"
    /\ Command
    /\ canceler' = [phase |-> "members", todo |-> {m \in Tagged : is_active(run[m].status)}]
    /\ UNCHANGED <<pipeline, run, row, fired, started, starter, eng, faults>>

cancel_member(m) ==
    /\ canceler.phase = "members" /\ m \in canceler.todo
    /\ run' = [run EXCEPT ![m].status = "canceled"]
    /\ row' = RowSettled(m)
    /\ canceler' = [canceler EXCEPT !.todo = @ \ {m}]
    /\ UNCHANGED <<pipeline, fired, started, starter, eng, controls, faults>>

cancel_pipeline ==
    /\ canceler.phase = "members" /\ canceler.todo = {}
    /\ pipeline' = "canceled"
    /\ canceler' = Idle
    /\ UNCHANGED <<run, row, fired, started, starter, eng, controls, faults>>

-------------------------------------------------------------------------------
StarterStep ==
    \/ create_pipeline_run \/ start_pipeline_run
    \/ \E m \in Members : start_member_run(m)

EngineStep(e) ==
    \/ \E m \in Members : Drive(e, m)
    \/ process_ready_node(e) \/ end_run(e)
    \/ \E l \in Links \cup Downstream : try_record_trigger_firing(e, l)
    \/ create_run(e) \/ tag_run(e) \/ enqueue_start(e)
    \/ settle_read(e) \/ settle_write(e) \/ complete(e)

CancelStep == cancel_pipeline \/ \E m \in Members : cancel_member(m)

OperatorStep ==
    \/ \E m \in Members :
          pause_workflow_run(m) \/ resume_workflow_run(m) \/ cancel_workflow_run(m)
    \/ cancel_pipeline_run

Faulty ==
    \/ StarterFails
    \/ \E e \in Engines : fail_driven_ready_node(e) \/ EngineCrash(e)
    \/ \E m \in Members : LateRow(m)

\* No process has anything left to do.
Quiet ==
    /\ starter.phase = "members" /\ starter.todo = {} /\ canceler = Idle
    /\ \A e \in Engines : eng[e] = Idle
    /\ \A m \in Members : row[m] = "none"
    /\ UNCHANGED vars

Next ==
    \/ StarterStep \/ CancelStep \/ OperatorStep
    \/ \E e \in Engines : EngineStep(e)
    \/ Faulty \/ Quiet

\* The starter, a cancellation and every replica go on; a due row is driven.
Fairness ==
    /\ WF_vars(StarterStep) /\ WF_vars(CancelStep)
    /\ \A e \in Engines : WF_vars(EngineStep(e))

Spec == Init /\ [][Next]_vars
FairSpec == Spec /\ Fairness

-------------------------------------------------------------------------------
RunStatus == {"none", "queued", "running", "paused"} \cup Terminal
DriveState == [phase : DrivePhases, of : Members, status : {"none"} \cup Terminal, tagged : BOOLEAN,
               todo : SUBSET (Links \cup Downstream), link : Links \cup Downstream \cup {NoLink}]

\* Types; the row of a run is claimed by the replica that drives it, and a replica
\* is in the hook of a run only once the run has ended.
TypeOK ==
    /\ pipeline \in {"none", "queued", "running"} \cup Terminal
    /\ run \in [Members -> [status : RunStatus, tagged : BOOLEAN]]
    /\ row \in [Members -> {"none", "due"} \cup Engines]
    /\ fired \subseteq Links \cup Downstream
    /\ started \in [Starts -> 0..2]
    /\ starter \in [phase : {"create", "flip", "members"}, todo : SUBSET Entry]
    /\ canceler \in {Idle} \cup [phase : {"members"}, todo : SUBSET Members]
    /\ eng \in [Engines -> {Idle} \cup DriveState]
    /\ \A e \in Engines : eng[e] # Idle /\ eng[e].phase \notin {"step", "end"} =>
          run[eng[e].of].status \in Terminal
    /\ \A m \in Members : row[m] \in Engines => eng[row[m]] # Idle /\ eng[row[m]].of = m
    /\ controls \in 0..MaxControls /\ faults \in 0..MaxFaults

\* A chained trigger starts its target at most once for a source run, and an entry
\* member is started once, whatever is driven again, by whichever replica, and
\* wherever a replica stops.
StartedOnce == \A s \in Starts : started[s] <= 1

Undisturbed == faults = 0 /\ controls = 0

\* Without faults and operators every end of a member starts what is chained to it.
ChainFires ==
    \A l \in Links :
        run[l.from].status \in Terminal /\ chain_status_matches(l.on, run[l.from].status)
            ~> (started[l] = 1 \/ ~Undisturbed)

\* Without faults and operators the pipeline run is settled, although two members may
\* end at the same time on two replicas and each look at the other.
Settles == <>(pipeline \in Terminal \/ ~Undisturbed)

\* "settle its owning pipeline run if the whole reachable member graph is now
\* terminal": a settled run has no member that is still to end or to be started.
SettledAfterMembers ==
    pipeline \in Terminal =>
        /\ \A m \in Members : run[m].status \in Terminal \cup {"none"}
        /\ \A m \in Entry : run[m].status # "none"
===============================================================================
