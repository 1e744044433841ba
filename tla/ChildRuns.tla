-------------------------------- MODULE ChildRuns --------------------------------
(***************************************************************************)
(* Nodes that run other runs (map.rs and subflow.rs of runinator-reducer/  *)
(* src/orchestration): a map node keeps up to `width` children in flight,  *)
(* one for each of its `items`, a subflow node has one child.  A child's   *)
(* body is a step that a worker has; with body "parks" it contains a wait, *)
(* an input, a subflow or a loop, whose handlers overwrite the state of the*)
(* run: the link to the parent and the mark of a map child are lost.  A    *)
(* subflow may be detached (fire and forget) or reuse an open run.         *)
(***************************************************************************)
EXTENDS Drives

\* A run is at the node under study when it is no child, or when it is a map child
\* whose body has returned to the map node and whose mark is lost.
IsChild(r) == run[r].body # "none"
AtOwnNode(r) == ~IsChild(r) \/ (def.kind = "map" /\ ~run[r].linked /\ run[r].body = "succeeded")

Failed == Terminal \ {"succeeded"}
Unused == {c \in Runs : ~Present(c)}
Fresh == CHOOSE c \in Unused : TRUE

\* create_map_child_run, create_subflow_run: a queued run with a link and a start row.
\* A map child starts with a settled node run of the map node.
Spawned(r, c, i) ==
    [run EXCEPT ![c] = [@ EXCEPT !.status = "queued", !.parent = r, !.linked = TRUE,
                                 !.body = "todo", !.index = i,
                                 !.node = IF def.kind = "map" THEN "succeeded" ELSE "none"]]

-------------------------------------------------------------------------------
\* A child's own drives.  The first starts its body.
StartBody(e) ==
    /\ AtNode(e, {"map", "subflow"})
    /\ LET c == eng[e].run
       IN /\ IsChild(c) /\ run[c].body = "todo"
          /\ run' = IF def.body = "parks"
                    THEN [Hole(c) EXCEPT ![c].body = "busy", ![c].linked = FALSE]
                    ELSE [run EXCEPT ![c].body = "busy"]
    /\ eng' = To(e, "hook")
    /\ UNCHANGED <<def, rows, api, record, budget>>

\* finalize_map_child, or the end node of a subflow's workflow: the child ends as its
\* body did.
FinishChild(e) ==
    /\ AtNode(e, {"map", "subflow"})
    /\ LET c == eng[e].run
       IN /\ IsChild(c) /\ ~AtOwnNode(c) /\ run[c].body \in Terminal
          /\ run' = [run EXCEPT ![c].status = run[c].body]
          /\ rows' = [rows EXCEPT ![c] = NoRows]
    /\ eng' = To(e, "hook")
    /\ UNCHANGED <<def, api, record, budget>>

\* A row of a child whose body is still running.
AwaitBody(e) ==
    /\ AtNode(e, {"map", "subflow"})
    /\ run[eng[e].run].body = "busy"
    /\ eng' = To(e, "hook")
    /\ UNCHANGED <<def, run, rows, api, record, budget>>

\* External: the result of the body's action, and the row it enqueues.
BodyEnds(c) ==
    /\ Active(c) /\ run[c].body = "busy"
    /\ \E verdict \in {"succeeded", "failed"} : run' = [run EXCEPT ![c].body = verdict]
    /\ rows' = enqueue_ready_node(c, 0)
    /\ UNCHANGED <<def, eng, api, record, budget>>

-------------------------------------------------------------------------------
\* A visit without a node run creates one.
process_map_node(e) ==
    /\ AtNode(e, {"map"}) /\ AtOwnNode(eng[e].run)
    /\ eng' = IF run[eng[e].run].node = "none" THEN To(e, "create")
              ELSE IF run[eng[e].run].node = "parked" /\ timed_out(eng[e].run)
              THEN Settle(e, "timed_out") ELSE To(e, "harvest")
    /\ UNCHANGED <<def, run, rows, api, record, budget>>

CreateMap(e) ==
    /\ def.kind = "map"
    /\ create_workflow_node_run(e, "harvest")

flight_failed(flight) == \E f \in flight : run[f[2]].status \in Failed

\* Finished children leave the window; a failed one ends the map.
Harvest(e) ==
    /\ eng[e].phase = "harvest"
    /\ LET frame == run[eng[e].run].frame
           over == {f \in frame.flight : run[f[2]].status \in Terminal}
       IN eng' = IF flight_failed(frame.flight) THEN To(e, "cancel")
                 ELSE [eng EXCEPT ![e].phase = "fan",
                         ![e].frame = [frame EXCEPT !.flight = @ \ over,
                                                    !.done = @ \cup {f[1] : f \in over}]]
    /\ UNCHANGED <<def, run, rows, api, record, budget>>

\* Fault: only the failed child is taken into account.
cancel_children_never(e) ==
    /\ eng[e].phase = "cancel"
    /\ eng' = Settle(e, "failed")
    /\ UNCHANGED <<def, run, rows, api, record, budget>>

\* cancel_children: the recorded siblings that still run, one after the other.
cancel_children(e) ==
    /\ eng[e].phase = "cancel"
    /\ LET left == {f[2] : f \in {g \in run[eng[e].run].frame.flight : Active(g[2])}}
       IN \/ /\ left = {}
             /\ eng' = Settle(e, "failed")
             /\ UNCHANGED <<run, rows>>
          \/ \E c \in left :
             /\ run' = [run EXCEPT ![c].status = "canceled"]
             /\ rows' = [rows EXCEPT ![c] = NoRows]
             /\ UNCHANGED eng
    /\ UNCHANGED <<def, api, record, budget>>

\* The window is topped up, child by child; with nothing left to do the map succeeds,
\* otherwise it parks.
FanOut(e) ==
    /\ eng[e].phase = "fan"
    /\ LET frame == eng[e].frame
           wants == Cardinality(frame.flight) < def.width /\ frame.next < def.items
       IN \/ /\ wants /\ Unused # {}
             /\ run' = Spawned(eng[e].run, Fresh, frame.next)
             /\ rows' = [rows EXCEPT ![Fresh] = [NoRows EXCEPT !.due = 1]]
             /\ eng' = [eng EXCEPT ![e].frame =
                          [frame EXCEPT !.next = @ + 1,
                                        !.flight = @ \cup {<<frame.next, Fresh>>}]]
          \/ /\ ~wants
             /\ eng' = IF Cardinality(frame.done) >= def.items /\ frame.flight = {}
                       THEN Settle(e, "succeeded") ELSE To(e, "node")
             /\ UNCHANGED <<run, rows>>
    /\ UNCHANGED <<def, api, record, budget>>

-------------------------------------------------------------------------------
\* With a child on record its status decides, before the timeout.
process_subflow_node(e) ==
    /\ AtNode(e, {"subflow"}) /\ ~IsChild(eng[e].run)
    /\ LET r == eng[e].run
           children == {f[2] : f \in run[r].frame.flight}
       IN eng' = IF run[r].node = "none" \/ children = {} THEN To(e, "spawn")
                 ELSE IF def.body = "detached" THEN Settle(e, "succeeded")
                 ELSE IF \A c \in children : run[c].status = "succeeded" THEN Settle(e, "succeeded")
                 ELSE IF \E c \in children : run[c].status \in Failed \cup {"blocked"}
                 THEN Settle(e, "failed")
                 ELSE IF timed_out(r) THEN Settle(e, "timed_out") ELSE To(e, "hook")
    /\ UNCHANGED <<def, run, rows, api, record, budget>>

\* fetch_workflow_runs_by_name with reuse_open_run: a reused run keeps its own parent, if
\* it has one.
Reusable == {c \in Runs \ {0} : def.body = "reused" /\ Active(c) /\ run[c].parent = c}

Linking(e, c) ==
    [eng EXCEPT ![e].phase = "create", ![e].frame = [NoFrame EXCEPT !.flight = {<<0, c>>}]]

ReuseRun(e) ==
    /\ eng[e].phase = "spawn"
    /\ \E c \in Reusable : eng' = Linking(e, c)
    /\ run' = Hole(eng[e].run)
    /\ UNCHANGED <<def, rows, api, record, budget>>

create_subflow_run(e) ==
    /\ eng[e].phase = "spawn"
    /\ Reusable = {} /\ Unused # {}
    /\ eng' = Linking(e, Fresh)
    /\ run' = Spawned(eng[e].run, Fresh, 0)
    /\ rows' = [rows EXCEPT ![Fresh] = [NoRows EXCEPT !.due = 1]]
    /\ UNCHANGED <<def, api, record, budget>>

\* The node run of this visit, without a child until it is parked.
CreateSubflow(e) ==
    /\ def.kind = "subflow" /\ eng[e].phase = "create"
    /\ run' = [run EXCEPT ![eng[e].run].node = "queued", ![eng[e].run].tries = 0,
                          ![eng[e].run].age = 0, ![eng[e].run].frame = NoFrame]
    /\ eng' = To(e, IF def.body = "detached" THEN "link" ELSE "node")
    /\ UNCHANGED <<def, rows, api, record, budget>>

\* A detached child is put on record, and the node is settled.
LinkSubflow(e) ==
    /\ eng[e].phase = "link"
    /\ run' = [run EXCEPT ![eng[e].run].node = "succeeded", ![eng[e].run].frame = eng[e].frame]
    /\ eng' = Settle(e, "succeeded")
    /\ UNCHANGED <<def, rows, api, record, budget>>

ChildStep(e) ==
    \/ StartBody(e) \/ FinishChild(e) \/ AwaitBody(e)
    \/ process_map_node(e) \/ CreateMap(e) \/ Harvest(e) \/ cancel_children(e) \/ FanOut(e)
    \/ process_subflow_node(e) \/ ReuseRun(e) \/ create_subflow_run(e)
    \/ CreateSubflow(e) \/ LinkSubflow(e)
===============================================================================
