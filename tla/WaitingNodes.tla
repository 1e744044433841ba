------------------------------ MODULE WaitingNodes ------------------------------
(***************************************************************************)
(* The kinds of node that wait for something outside their run (wait.rs,   *)
(* debounce.rs, signal.rs, approval.rs, input.rs, gate.rs, await_run.rs,   *)
(* event_source.rs, collect.rs of runinator-reducer/src/orchestration), and*)
(* the handlers of the web service that answer them (repository/runs.rs,   *)
(* node_runs.rs and catalog.rs of runinator-engine).                       *)
(*                                                                         *)
(* What the handlers of an event source, a collect and a debounce name as  *)
(* their delivery endpoints is not part of the web service: these three    *)
(* only ever see their deadline.                                           *)
(***************************************************************************)
EXTENDS Drives

Status(e) == run[eng[e].run].node
Late(e) == timed_out(eng[e].run)

\* What a drive of an untouched node leaves alone.
Decided(e) == UNCHANGED <<def, run, rows, api, record, budget>>

\* The answer is stamped on the node run; any other status than waiting, a retry's queued
\* one included, is left as it is.
Stamped(e) ==
    /\ eng' = IF Status(e) = "parked" /\ Late(e) THEN Settle(e, "timed_out")
              ELSE IF Status(e) = "succeeded" THEN Settle(e, "succeeded")
              ELSE IF Status(e) = "none" THEN To(e, "create")
              ELSE To(e, "hook")
    /\ run' = IF Status(e) \in {"none", "parked", "succeeded"} THEN run ELSE Hole(eng[e].run)
    /\ UNCHANGED <<def, rows, api, record, budget>>

process_signal_node(e) == AtNode(e, {"signal"}) /\ Stamped(e)
process_approval_node(e) == AtNode(e, {"approval"}) /\ Stamped(e)

\* Only a node run that has been asked for or answered is resumed.
process_input_node(e) ==
    /\ AtNode(e, {"input"})
    /\ eng' = IF Status(e) = "parked" THEN (IF Late(e) THEN Settle(e, "timed_out") ELSE To(e, "hook"))
              ELSE IF Status(e) = "succeeded" THEN Settle(e, "succeeded")
              ELSE To(e, "create")
    /\ Decided(e)

\* The kinds that look again on every drive: a node run that does not wait starts a
\* fresh visit, a late one is settled as `late`, one whose condition holds succeeds, and
\* for any other the drive goes on as `otherwise`.
Watched(e, late, met, otherwise) ==
    /\ eng' = IF Status(e) # "parked" THEN To(e, "create")
              ELSE IF Late(e) /\ late # "none" THEN Settle(e, late)
              ELSE IF met THEN Settle(e, "succeeded") ELSE otherwise
    /\ Decided(e)

\* The delay is over.  gate_is_open, satisfaction_met.
Elapsed(e) == run[eng[e].run].age >= Timeout
gate_is_open == record.status = "open"
satisfaction_met == record.status = "open"

\* A wait has no timeout of its own.
process_wait_node(e) == AtNode(e, {"wait"}) /\ Watched(e, "none", Elapsed(e), Done(e, TRUE))
process_debounce_node(e) ==
    AtNode(e, {"debounce"}) /\ Watched(e, "timed_out", Elapsed(e), To(e, "repoll"))
process_gate_node(e) ==
    AtNode(e, {"gate"}) /\ Watched(e, "timed_out", gate_is_open, To(e, "repoll"))
process_await_run_node(e) ==
    AtNode(e, {"await_run"}) /\ Watched(e, "timed_out", satisfaction_met, To(e, "repoll"))
process_event_source_node(e) ==
    AtNode(e, {"event_source"}) /\ Watched(e, "timed_out", FALSE, Done(e, TRUE))
\* A collect node that times out succeeds with what it has.
process_collect_node(e) ==
    AtNode(e, {"collect"}) /\ Watched(e, "succeeded", FALSE, Done(e, TRUE))

\* The node run of a first visit; an await_run node has looked at its runs before, and is
\* settled at once when they are over.
Waits == {"wait", "debounce", "signal", "approval", "input", "gate", "await_run",
          "event_source", "collect"}
CreateWaiting(e) ==
    /\ def.kind \in Waits
    /\ \/ /\ ~(def.kind = "await_run" /\ satisfaction_met)
          /\ create_workflow_node_run(e, IF def.kind \in {"approval", "gate"} THEN "record" ELSE "node")
       \/ /\ def.kind = "await_run" /\ satisfaction_met
          /\ eng[e].phase = "create"
          /\ run' = [run EXCEPT ![eng[e].run].node = "queued", ![eng[e].run].age = 0]
          /\ eng' = Settle(e, "succeeded")
          /\ UNCHANGED <<def, rows, api, record, budget>>

\* create_gate and the approval_requests record of this visit, pending.
CreateRecord(e) ==
    /\ eng[e].phase = "record"
    /\ record' = [record EXCEPT !.status = "pending"]
    /\ eng' = To(e, "node")
    /\ UNCHANGED <<def, run, rows, api, budget>>

WaitingStep(e) ==
    \/ process_signal_node(e) \/ process_approval_node(e) \/ process_input_node(e)
    \/ process_wait_node(e) \/ process_debounce_node(e) \/ process_gate_node(e)
    \/ process_await_run_node(e) \/ process_event_source_node(e) \/ process_collect_node(e)
    \/ CreateWaiting(e) \/ CreateRecord(e)

-------------------------------------------------------------------------------
\* The web service.  A handler starts: what it has read is not read again.
BeginAnswer(r, verdicts) ==
    /\ api.phase = "idle"
    /\ Spend("answers", MaxAnswers)
    /\ \E verdict \in verdicts : api' = [phase |-> "node", run |-> r, verdict |-> verdict]
    /\ UNCHANGED <<def, run, rows, eng, record>>

\* deliver_signal looks for a waiting node run.
deliver_signal(r) ==
    /\ def.kind = "signal" /\ run[r].node = "parked"
    /\ BeginAnswer(r, {"succeeded"})

\* resolve_approval needs the record only: granted or rejected, at any time and again.
resolve_approval(r) ==
    /\ def.kind = "approval" /\ record.status # "none"
    /\ BeginAnswer(r, {"succeeded", "blocked"})

\* resolve_workflow_input needs a node run that has been asked for.
resolve_workflow_input(r) ==
    /\ def.kind = "input" /\ run[r].node \notin {"none", "queued"}
    /\ BeginAnswer(r, {"succeeded"})

\* The three handlers stamp the node run ...
AnswerNode ==
    /\ api.phase = "node"
    /\ run' = [run EXCEPT ![api.run].node = api.verdict,
                          ![api.run].answered = @ \/ api.verdict = "succeeded"]
    /\ api' = [api EXCEPT !.phase = "run"]
    /\ UNCHANGED <<def, rows, eng, record, budget>>

\* ... set the run going, whatever has become of it ...
AnswerRun ==
    /\ api.phase = "run"
    /\ run' = [run EXCEPT ![api.run].status = IF api.verdict = "succeeded" THEN "running" ELSE "blocked",
                          ![api.run].hole = @ \/ ~Active(api.run)]
    /\ api' = IF api.verdict = "succeeded" THEN [api EXCEPT !.phase = "row"] ELSE NoAnswer
    /\ UNCHANGED <<def, rows, eng, record, budget>>

\* ... and wake the reducer.
AnswerRow ==
    /\ api.phase = "row"
    /\ rows' = enqueue_ready_node(api.run, 0)
    /\ api' = NoAnswer
    /\ UNCHANGED <<def, run, eng, record, budget>>

\* resolve_gate opens or closes the gate's record; opening wakes the reducer.
resolve_gate ==
    /\ def.kind = "gate" /\ record.status # "none" /\ api.phase = "idle"
    /\ Spend("answers", MaxAnswers)
    /\ \E status \in {"open", "closed"} :
          /\ record' = [record EXCEPT !.status = status]
          /\ api' = IF status = "open" THEN [phase |-> "row", run |-> 0, verdict |-> "none"] ELSE api
    /\ UNCHANGED <<def, run, rows, eng>>

\* External: the runs an await_run node waits for are over.
AwaitedEnd ==
    /\ def.kind = "await_run" /\ record.status # "open"
    /\ record' = [record EXCEPT !.status = "open"]
    /\ UNCHANGED <<def, run, rows, eng, api, budget>>

WebService ==
    \/ deliver_signal(0) \/ resolve_approval(0) \/ resolve_workflow_input(0)
    \/ AnswerNode \/ AnswerRun \/ AnswerRow
    \/ resolve_gate \/ AwaitedEnd
===============================================================================
