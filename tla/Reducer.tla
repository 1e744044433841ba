--------------------------------- MODULE Reducer ---------------------------------
(***************************************************************************)
(* The reducer over every kind of node that parks its run: the handlers of *)
(* WaitingNodes, SharedNodes and ChildRuns over the drives of Drives, with *)
(* the web service's answers, an operator, time and crashes in between.    *)
(* Scenarios lists the nodes a configuration looks at; a behaviour is about*)
(* one of them.                                                            *)
(***************************************************************************)
EXTENDS WaitingNodes, SharedNodes, ChildRuns

\* The runs that come to the node; a subflow node may find an open run to reuse.
Started(d) == 0..(d.parties - 1)

NewRun(d, r) ==
    [status |-> IF r \in Started(d) THEN "queued"
                ELSE IF d.body = "reused" /\ r = 1 THEN "running" ELSE "absent",
     node |-> "none", tries |-> 0, age |-> 0, since |-> Timeout,
     answered |-> FALSE, passed |-> FALSE, hole |-> FALSE,
     parent |-> r, linked |-> FALSE, index |-> 0, frame |-> NoFrame,
     body |-> IF d.body = "reused" /\ r = 1 THEN "busy" ELSE "none"]

Init ==
    /\ def \in Scenarios
    /\ run = [r \in Runs |-> NewRun(def, r)]
    /\ rows = [r \in Runs |-> IF r \in Started(def) THEN [NoRows EXCEPT !.due = 1] ELSE NoRows]
    /\ eng = [e \in Engines |-> Idle]
    /\ api = NoAnswer
    /\ record = [status |-> "none", age |-> 0, used |-> 0, arrivals |-> {}]
    /\ budget = [answers |-> 0, trouble |-> 0]

\* What every kind shares: parking, polling, settling, retrying, the hook.
CommonStep(e) ==
    \/ \E r \in Runs : process_ready_node(e, r)
    \/ StepStopped(e)
    \/ ParkNode(e) \/ ParkRun(e) \/ EnqueuePoll(e) \/ arm_node_timeout(e) \/ EnqueueNextPoll(e)
    \/ SettleNode(e) \/ FinishRun(e) \/ RetryRun(e) \/ schedule_node_retry(e)
    \/ maybe_wake_subflow_parent(e) \/ drive_ready_node(e)

EngineStep(e) == CommonStep(e) \/ WaitingStep(e) \/ SharedStep(e) \/ ChildStep(e)

Operator ==
    \E r \in Runs : cancel_workflow_run(r) \/ pause_workflow_run(r) \/ resume_workflow_run(r)

Faulty == \E e \in Engines : EngineCrash(e) \/ fail_driven_ready_node(e)

Next ==
    \/ \E e \in Engines : EngineStep(e)
    \/ WebService
    \/ \E c \in Runs : BodyEnds(c)
    \/ Operator \/ Faulty \/ Tick

(***************************************************************************)
(* Fairness: a replica goes on, time passes, a handler that has started    *)
(* goes on, a paused run is resumed, and a child's body ends, except under *)
(* a subflow node with a timeout, where it may hang.                       *)
(***************************************************************************)
Fairness ==
    /\ \A e \in Engines : WF_vars(EngineStep(e))
    /\ \A r \in Runs : SF_vars(\E e \in Engines : process_ready_node(e, r))
    /\ WF_vars(Tick)
    /\ WF_vars(AnswerNode \/ AnswerRun \/ AnswerRow)
    /\ \A r \in Runs : WF_vars(resume_workflow_run(r))
    /\ \A c \in Runs : WF_vars(~(def.kind = "subflow" /\ def.timed) /\ BodyEnds(c))

Spec == Init /\ [][Next]_vars
FairSpec == Spec /\ Fairness

-------------------------------------------------------------------------------
Frames == [next : Nat, flight : SUBSET (Nat \X Runs), done : SUBSET Nat]

Statuses == {"absent", "queued", "running", "waiting", "paused", "blocked"} \cup Terminal
NodeStatuses == {"none", "queued", "parked", "blocked"} \cup Terminal

RunRecords ==
    [status : Statuses, node : NodeStatuses, tries : Nat, age : 0..Timeout, since : 0..Timeout,
     answered : BOOLEAN, passed : BOOLEAN, hole : BOOLEAN,
     parent : Runs, linked : BOOLEAN, index : Nat, frame : Frames,
     body : {"none", "todo", "busy", "succeeded", "failed"}]

RowRecords == [due : 0..2, claimed : SUBSET Engines, timers : SUBSET (1..Timeout)]

Phases == {"idle", "step", "create", "record", "node", "run", "poll", "arm", "repoll", "settle",
           "finish", "retry", "backoff", "hook", "done", "barrier", "throttle", "cooldown",
           "skip", "skip_run", "harvest", "cancel", "fan", "spawn", "link"}

DriveRecords ==
    [phase : Phases, run : Runs, verdict : {"none"} \cup Terminal, keep : BOOLEAN, frame : Frames]

AnswerRecords ==
    [phase : {"idle", "node", "run", "row"}, run : Runs, verdict : {"none", "succeeded", "blocked"}]

SharedRecords ==
    [status : {"none", "pending", "open", "closed"}, age : 0..Timeout, used : Nat,
     arrivals : SUBSET Runs]

\* A row that is claimed is being driven by its claimant; what is settled has a verdict.
ClaimsAreDriven == \A r \in Runs : \A e \in rows[r].claimed : eng[e].phase # "idle" /\ eng[e].run = r
VerdictsAreGiven ==
    /\ \A e \in Engines : eng[e].phase \in {"settle", "finish"} => eng[e].verdict # "none"
    /\ api.phase \in {"node", "run"} => api.verdict # "none"

\* The state has its type: every row that is claimed is being driven by its claimant, so
\* that no failed or crashed drive leaves a claim behind, and what is settled has a verdict.
TypeOK ==
    /\ def \in Scenarios
    /\ run \in [Runs -> RunRecords]
    /\ rows \in [Runs -> RowRecords]
    /\ eng \in [Engines -> DriveRecords]
    /\ api \in AnswerRecords
    /\ record \in SharedRecords
    /\ budget \in [answers : 0..MaxAnswers, trouble : 0..def.trouble]
    /\ \A r \in Runs : run[r].tries <= def.attempts
    /\ ClaimsAreDriven /\ VerdictsAreGiven

\* The node waits for somebody else: an answer, a delivery, a child, a worker.
AwaitsOutside(r) ==
    \/ run[r].body = "busy"
    \/ run[r].node = "parked" /\
          \/ def.kind \in {"signal", "approval", "input"}
          \/ def.kind \in {"event_source", "collect"} /\ ~def.timed
          \/ def.kind \in {"map", "subflow"} /\ \E f \in run[r].frame.flight : Active(f[2]) \/ Driven(f[2])

\* A run that is not over, paused, blocked or rejected, that nobody drives or answers, that
\* waits for nobody and of which no row is left: nothing will ever move it.
Stranded(r) ==
    /\ run[r].status \in {"queued", "running", "waiting"}
    /\ ~Driven(r) /\ ~AwaitsOutside(r) /\ run[r].node # "blocked"
    /\ api.phase = "idle" \/ api.run # r
    /\ rows[r] = NoRows

\* No run is stranded while it waits, is answered, polled, retried, timed out or woken
\* by its children, whatever comes between two writes of a drive, except through the
\* holes that Hole marks.
NotStranded == \A r \in Runs : Stranded(r) => run[r].hole

\* No run is stranded.
NeverStranded == \A r \in Runs : ~Stranded(r)

\* A run that succeeded got what it waited for: its answer, its open gate, its delay,
\* everybody's arrival, every item's child, and a skipped one had somebody pass.
SuccessIsBacked ==
    \A r \in Runs : run[r].status = "succeeded" /\ ~IsChild(r) =>
        CASE def.kind \in {"signal", "approval", "input"} -> run[r].answered
          [] def.kind \in {"wait", "debounce"} -> run[r].age = Timeout
          [] def.kind = "collect" -> def.timed /\ run[r].age = Timeout
          [] def.kind = "event_source" -> FALSE
          [] def.kind = "barrier" -> record.arrivals = Started(def)
          [] def.kind = "cooldown" -> \E s \in Runs : run[s].passed \/ run[s].hole
          [] def.kind = "map" -> \A i \in 0..(def.items - 1) : \E c \in Runs :
                run[c].parent = r /\ run[c].index = i /\ run[c].status = "succeeded"
          [] def.kind = "subflow" /\ def.body # "detached" ->
                \A f \in run[r].frame.flight : run[f[2]].status = "succeeded"
          [] OTHER -> TRUE

\* In any stretch as long as the window a throttle admits at most twice its limit, and a
\* cooldown lets one run pass.
RateBounded ==
    LET recent == {r \in Runs : run[r].passed /\ run[r].since < Window}
    IN /\ def.kind = "throttle" => Cardinality(recent) <= 2 * MaxPerWindow
       /\ def.kind = "cooldown" => Cardinality(recent) <= 1

\* A map node that failed has left no recorded child running.
FailFast ==
    \A r \in Runs : def.kind = "map" /\ run[r].node = "failed" /\ run[r].status = "failed" =>
        \A f \in run[r].frame.flight : run[f[2]].status \in Terminal

\* A child of a map node stops when its body returns to that node.
ChildrenStop ==
    \A c \in Runs : run[c].body # "none" => ~\E d \in Runs : d # c /\ run[d].parent = c

\* A node with a timeout does not stay parked, and a parent of children that end does
\* not either.
Leaves ==
    (run[0].node = "parked" /\ run[0].status = "waiting"
        /\ (def.kind = "map" \/ (def.timed /\ def.kind # "input")))
    ~> (run[0].node # "parked" \/ ~Active(0) \/ run[0].hole)
===============================================================================
