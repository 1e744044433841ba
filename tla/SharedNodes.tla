------------------------------- MODULE SharedNodes -------------------------------
(***************************************************************************)
(* Nodes by which runs meet or hold each other back through one shared     *)
(* record (barrier.rs, throttle.rs, cooldown.rs of runinator-reducer/src/  *)
(* orchestration; mutex.rs has a module of its own).  The record is read   *)
(* and written back by a drive, so Engines has one element here, as for    *)
(* Mutex.  A circuit breaker (circuit_breaker.rs) is always closed: only   *)
(* an open one records failures, and nothing else creates its record.      *)
(***************************************************************************)
EXTENDS Drives

CONSTANT MaxPerWindow   \* tokens of a throttle window

ASSUME TokensAssumption == MaxPerWindow \in Nat \ {0}

\* The runs that meet, and the length of a window.
Expected == def.parties
Window == Timeout

\* A parked run that is late times out before it looks again.
Look(e) ==
    /\ eng' = IF run[eng[e].run].node = "parked" /\ timed_out(eng[e].run)
              THEN Settle(e, "timed_out") ELSE To(e, def.kind)
    /\ UNCHANGED <<def, run, rows, api, record, budget>>

process_barrier_node(e) == AtNode(e, {"barrier"}) /\ Look(e)
process_throttle_node(e) == AtNode(e, {"throttle"}) /\ Look(e)

\* On a first visit the node run is created next, and settled at once when the run may
\* pass; on a later one the run passes or polls again.
Looked(e, passes) ==
    IF run[eng[e].run].node # "parked"
    THEN [eng EXCEPT ![e].phase = "create", ![e].verdict = IF passes THEN "succeeded" ELSE "none"]
    ELSE IF passes THEN Settle(e, "succeeded") ELSE To(e, "repoll")

\* Fault: one short.
arrivals_complete_early(arrivals) == Cardinality(arrivals) + 1 >= Expected

arrivals_complete(arrivals) == Expected > 0 /\ Cardinality(arrivals) >= Expected

\* register_arrival: an arrival is recorded once, again on every poll, and never erased.
register_arrival(e) ==
    /\ eng[e].phase = "barrier"
    /\ record' = [record EXCEPT !.arrivals = @ \cup {eng[e].run}]
    /\ eng' = Looked(e, arrivals_complete(record.arrivals \cup {eng[e].run}))
    /\ UNCHANGED <<def, run, rows, api, budget>>

\* Fault: the window never fills.
bucket_has_tokens_always(rec) == TRUE

\* bucket_has_tokens: a window that is over always has.
bucket_has_tokens(rec) == rec.age >= Window \/ rec.used < MaxPerWindow

\* consume_token: a new window starts with the first token after the old one.
consume_token(e) ==
    /\ eng[e].phase = "throttle"
    /\ LET fresh == record.status = "none" \/ record.age >= Window
           passes == record.status = "none" \/ bucket_has_tokens(record)
       IN /\ record' = IF ~passes THEN record
                       ELSE [record EXCEPT !.status = "open",
                                           !.age = IF fresh THEN 0 ELSE @,
                                           !.used = IF fresh THEN 1 ELSE @ + 1]
          /\ run' = IF passes THEN [run EXCEPT ![eng[e].run].since = 0] ELSE run
          /\ eng' = Looked(e, passes)
    /\ UNCHANGED <<def, rows, api, budget>>

CreateShared(e) ==
    /\ def.kind \in {"barrier", "throttle", "cooldown"}
    /\ create_workflow_node_run(e, IF def.kind = "cooldown" THEN "cooldown"
                                   ELSE IF eng[e].verdict = "succeeded" THEN "settle" ELSE "node")

\* Every drive is a new visit.
process_cooldown_node(e) ==
    /\ AtNode(e, {"cooldown"})
    /\ eng' = To(e, "create")
    /\ UNCHANGED <<def, run, rows, api, record, budget>>

\* remaining_seconds is zero: nobody has passed, or the window is over.
window_elapsed(rec) == rec.status = "none" \/ rec.age >= Window

\* stamp_cooldown: the pass is recorded before the run goes on; inside the window the
\* run is skipped.
stamp_cooldown(e) ==
    /\ eng[e].phase = "cooldown"
    /\ IF window_elapsed(record)
       THEN /\ record' = [record EXCEPT !.status = "open", !.age = 0]
            /\ run' = [run EXCEPT ![eng[e].run].since = 0]
            /\ eng' = Settle(e, "succeeded")
       ELSE /\ eng' = To(e, "skip")
            /\ UNCHANGED <<record, run>>
    /\ UNCHANGED <<def, rows, api, budget>>

\* A skipped run ends as succeeded without its body: the node run, then the run.
SkipNode(e) ==
    /\ eng[e].phase = "skip"
    /\ run' = [run EXCEPT ![eng[e].run].node = "succeeded"]
    /\ eng' = To(e, "skip_run")
    /\ UNCHANGED <<def, rows, api, record, budget>>

SkipRun(e) ==
    /\ eng[e].phase = "skip_run"
    /\ run' = [run EXCEPT ![eng[e].run].status = "succeeded"]
    /\ rows' = RowsAfter(eng[e].run, "succeeded")
    /\ eng' = To(e, "hook")
    /\ UNCHANGED <<def, api, record, budget>>

SharedStep(e) ==
    \/ process_barrier_node(e) \/ process_throttle_node(e) \/ register_arrival(e) \/ consume_token(e) \/ CreateShared(e)
    \/ process_cooldown_node(e) \/ stamp_cooldown(e) \/ SkipNode(e) \/ SkipRun(e)
===============================================================================
