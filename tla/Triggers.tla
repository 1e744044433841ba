-------------------------------- MODULE Triggers --------------------------------
(***************************************************************************)
(* Cron triggers of workflows and of pipelines: the loop that turns due    *)
(* ones into runs (runinator-engine/src/loops.rs, repository/triggers.rs   *)
(* and pipelines.rs), the transaction that claims them                     *)
(* (claim_due_workflow_trigger_firings and its twin for pipelines in       *)
(* runinator-database/src/operations.rs), and the handlers that save and   *)
(* re-import triggers meanwhile (runinator-ws/src/handlers/triggers.rs,    *)
(* repository/definitions.rs).                                             *)
(*                                                                         *)
(* A claim is one transaction over rows it has locked: one step.  The time *)
(* it goes by was read before it, and the runs it has created are started  *)
(* after it, one by one.  What starting a pipeline run does is the matter  *)
(* of Pipelines; here it is one step.                                      *)
(***************************************************************************)
EXTENDS Integers, FiniteSets

CONSTANTS
    Triggers,       \* ids, ordered: a finite set of naturals
    Kind,           \* trigger -> "workflow" or "pipeline"
    Every,          \* trigger -> period of its cron expression
    Blackout,       \* trigger -> the set of instants from blackout_start to blackout_end
    Replicas,       \* engines that run the trigger loop
    Limit,          \* CLAIM_LIMIT
    MaxTime,
    MaxTrouble      \* edits and failures in a behaviour

ASSUME TriggersAssumption == Triggers \subseteq Nat /\ IsFiniteSet(Triggers)
ASSUME TablesAssumption ==
    /\ Kind \in [Triggers -> {"workflow", "pipeline"}]
    /\ Every \in [Triggers -> Nat \ {0}]
    /\ Blackout \in [Triggers -> SUBSET Nat]
    /\ \A t \in Triggers : Blackout[t] # {} => \E b \in Blackout[t] : \A c \in Blackout[t] : c <= b
ASSUME TriggerBoundsAssumption == Limit \in Nat \ {0} /\ {MaxTime, MaxTrouble} \subseteq Nat

VARIABLES
    now,        \* the time
    trig,       \* trigger -> row of workflow_triggers or pipeline_triggers
    firings,    \* rows of the two firing tables: trigger, incarnation of it, fire_key
    runs,       \* the runs that were created
    started,    \* those whose start row was enqueued
    loop,       \* replica -> where its trigger loop is
    web,        \* the handler, or the editor, that changes a trigger
    rewound,    \* history: incarnations of triggers that were saved with an old instant
    budget      \* edits and faults used up

vars == <<now, trig, firings, runs, started, loop, web, rewound, budget>>

\* Not a date: next_execution is NULL.
Never == -1
Instants == Nat \cup {Never}

FirstLoop == [phase |-> "read", kind |-> "workflow", clock |-> 0, todo |-> {}]
NoEdit == [phase |-> "idle", trigger |-> 0, next |-> Never]
Fresh(gen) == [live |-> TRUE, enabled |-> TRUE, next |-> Never, gen |-> gen]

Spend(what) ==
    /\ budget.edits + budget.faults < MaxTrouble
    /\ budget' = [budget EXCEPT ![what] = @ + 1]

Init ==
    /\ now = 0
    /\ trig = [t \in Triggers |-> Fresh(0)]
    /\ firings = {} /\ runs = {} /\ started = {}
    /\ loop = [p \in Replicas |-> FirstLoop]
    /\ web = NoEdit
    /\ rewound = {}
    /\ budget = [edits |-> 0, faults |-> 0]

-------------------------------------------------------------------------------
\* next_execution_for_cron, wrong: the slot after the one that fired.
next_execution_after_slot(t, at) ==
    LET from == IF trig[t].next = Never THEN at ELSE trig[t].next
    IN Every[t] * ((from \div Every[t]) + 1)

\* next_execution_for_cron: the first instant of the schedule after now.
next_execution_for_cron(t, at) == Every[t] * ((at \div Every[t]) + 1)

\* Fault: a blackout does not end.
blackout_without_end(t, at) == \E b \in Blackout[t] : b <= at

\* is_trigger_in_blackout: both ends included.
is_trigger_in_blackout(t, at) == at \in Blackout[t]
blackout_end(t) == CHOOSE b \in Blackout[t] : \A c \in Blackout[t] : c <= b

FireKey(t) == [trigger |-> t, gen |-> trig[t].gen, key |-> trig[t].next]
Incarnation(t) == [trigger |-> t, gen |-> trig[t].gen]

\* Fault: the row in the firing table is not looked at.
recorded_never(t) == FALSE

\* insert_ignore affects no row: the instant was fired before.
recorded(t) == FireKey(t) \in firings

\* The due triggers of one kind, and the first Limit of them: NULL first, then by
\* next_execution and id.
Due(t, kind, at) ==
    /\ trig[t].live /\ trig[t].enabled /\ Kind[t] = kind
    /\ trig[t].next = Never \/ trig[t].next <= at
Before(t, u) ==
    LET rank(x) == IF trig[x].next = Never THEN 0 ELSE trig[x].next
    IN rank(t) < rank(u) \/ (rank(t) = rank(u) /\ t < u)
Claimed(kind, at) ==
    {t \in Triggers : /\ Due(t, kind, at)
                      /\ Cardinality({u \in Triggers : Due(u, kind, at) /\ Before(u, t)}) < Limit}

\* run_trigger_loop reads the clock for its next claim.
ReadClock(p) ==
    /\ loop[p].phase = "read"
    /\ loop' = [loop EXCEPT ![p].phase = "claim", ![p].clock = now]
    /\ UNCHANGED <<now, trig, firings, runs, started, web, rewound, budget>>

NextKind(kind) == IF kind = "workflow" THEN "pipeline" ELSE "workflow"
GoesOn(p) == [FirstLoop EXCEPT !.kind = NextKind(loop[p].kind)]

\* claim_due_workflow_trigger_firings, claim_due_pipeline_trigger_firings: a trigger
\* without an instant gets one; one in its blackout waits for its end; one whose instant
\* is on record is left alone; any other fires and moves on.
claim_due_trigger_firings(p) ==
    /\ loop[p].phase = "claim"
    /\ LET at == loop[p].clock
           claimed == Claimed(loop[p].kind, at)
           dated == {t \in claimed : trig[t].next # Never}
           quiet == {t \in dated : is_trigger_in_blackout(t, at)}
           fires == {t \in dated \ quiet : ~recorded(t)}
           new == {[run |-> FireKey(t), at |-> at,
                    n |-> Cardinality({r \in runs : r.run = FireKey(t)})] : t \in fires}
       IN /\ trig' = [t \in Triggers |->
                        IF t \in quiet THEN [trig[t] EXCEPT !.next = blackout_end(t)]
                        ELSE IF t \in fires \/ t \in claimed \ dated
                        THEN [trig[t] EXCEPT !.next = next_execution_for_cron(t, at)]
                        ELSE trig[t]]
          /\ firings' = firings \cup {FireKey(t) : t \in fires}
          /\ runs' = runs \cup new
          /\ loop' = [loop EXCEPT ![p] = IF new = {} THEN GoesOn(p)
                                         ELSE [@ EXCEPT !.phase = "start", !.todo = new]]
    /\ UNCHANGED <<now, started, web, rewound, budget>>

\* Fault: the runs of a trigger that is gone are passed over.
enqueue_if_live(p) ==
    /\ loop[p].phase = "start"
    /\ \E r \in loop[p].todo :
          /\ started' = IF trig[r.run.trigger].live THEN started \cup {r} ELSE started
          /\ loop' = [loop EXCEPT ![p] = IF loop[p].todo = {r} THEN GoesOn(p)
                                         ELSE [loop[p] EXCEPT !.todo = @ \ {r}]]
    /\ UNCHANGED <<now, trig, firings, runs, web, rewound, budget>>

\* enqueue_start_ready_node, start_pipeline_run: one run after the other.
enqueue_start_ready_node(p) ==
    /\ loop[p].phase = "start"
    /\ \E r \in loop[p].todo :
          /\ \A s \in loop[p].todo : r.run.key < s.run.key
                                     \/ (r.run.key = s.run.key /\ r.run.trigger <= s.run.trigger)
          /\ started' = started \cup {r}
          /\ loop' = [loop EXCEPT ![p] = IF loop[p].todo = {r} THEN GoesOn(p)
                                         ELSE [loop[p] EXCEPT !.todo = @ \ {r}]]
    /\ UNCHANGED <<now, trig, firings, runs, web, rewound, budget>>

\* An error, of the transaction or of one start: the loop logs it and goes on; the runs
\* that are not started yet are never looked at again.
IterationFails(p) ==
    /\ loop[p].phase # "read"
    /\ Spend("faults")
    /\ loop' = [loop EXCEPT ![p] = GoesOn(p)]
    /\ UNCHANGED <<now, trig, firings, runs, started, web, rewound>>

\* A replica stops and starts anew.
ReplicaCrash(p) ==
    /\ loop[p] # FirstLoop
    /\ Spend("faults")
    /\ loop' = [loop EXCEPT ![p] = FirstLoop]
    /\ UNCHANGED <<now, trig, firings, runs, started, web, rewound>>

-------------------------------------------------------------------------------
\* An editor takes a copy of a trigger ...
EditTrigger(t) ==
    /\ web.phase = "idle" /\ trig[t].live
    /\ Spend("edits")
    /\ web' = [phase |-> "edit", trigger |-> t, next |-> trig[t].next]
    /\ UNCHANGED <<now, trig, firings, runs, started, loop, rewound>>

\* ... and upsert_workflow_trigger writes all of it back, next_execution included.
upsert_trigger ==
    /\ web.phase = "edit"
    /\ LET t == web.trigger
       IN \E enabled \in BOOLEAN :
          /\ trig' = [trig EXCEPT ![t].enabled = enabled, ![t].next = web.next]
          /\ rewound' = IF web.next # trig[t].next THEN rewound \cup {Incarnation(t)} ELSE rewound
    /\ web' = NoEdit
    /\ UNCHANGED <<now, firings, runs, started, loop, budget>>

\* materialize_workflow_triggers: an import deletes the triggers a workflow declares ...
DeleteTrigger(t) ==
    /\ web.phase = "idle" /\ trig[t].live /\ Kind[t] = "workflow"
    /\ Spend("edits")
    /\ trig' = [trig EXCEPT ![t].live = FALSE]
    /\ web' = [NoEdit EXCEPT !.phase = "import", !.trigger = t]
    /\ UNCHANGED <<now, firings, runs, started, loop, rewound>>

\* ... and inserts them again, under new ids and without an instant.
InsertTrigger ==
    /\ web.phase = "import"
    /\ trig' = [trig EXCEPT ![web.trigger] = Fresh(@.gen + 1)]
    /\ web' = NoEdit
    /\ UNCHANGED <<now, firings, runs, started, loop, rewound, budget>>

Tick ==
    /\ now < MaxTime
    /\ now' = now + 1
    /\ UNCHANGED <<trig, firings, runs, started, loop, web, rewound, budget>>

LoopStep(p) == ReadClock(p) \/ claim_due_trigger_firings(p) \/ enqueue_start_ready_node(p)

Next ==
    \/ \E p \in Replicas : LoopStep(p) \/ IterationFails(p) \/ ReplicaCrash(p)
    \/ \E t \in Triggers : EditTrigger(t) \/ DeleteTrigger(t)
    \/ upsert_trigger \/ InsertTrigger \/ Tick

\* Fairness: every replica's loop goes round, time passes, an import that has begun is
\* finished.  An editor may stay open.
Fairness ==
    /\ \A p \in Replicas : WF_vars(LoopStep(p))
    /\ WF_vars(Tick) /\ WF_vars(InsertTrigger)

Spec == Init /\ [][Next]_vars
FairSpec == Spec /\ Fairness

-------------------------------------------------------------------------------
Keys == [trigger : Triggers, gen : Nat, key : Nat]

TriggerRow == [live : BOOLEAN, enabled : BOOLEAN, next : Instants, gen : Nat]

LoopState == [phase : {"read", "claim", "start"}, kind : {"workflow", "pipeline"},
              clock : 0..now, todo : SUBSET (runs \ started)]

\* Types; every run was recorded as a firing in the transaction that created it, and what
\* a replica has yet to start was created and not started.
TypeOK ==
    /\ now \in 0..MaxTime
    /\ trig \in [Triggers -> TriggerRow]
    /\ runs \subseteq [run : Keys, at : Nat, n : Nat] /\ firings = {r.run : r \in runs}
    /\ started \subseteq runs
    /\ loop \in [Replicas -> LoopState]
    /\ web \in [phase : {"idle", "edit", "import"}, trigger : Nat, next : Instants]
    /\ web.phase # "idle" => web.trigger \in Triggers
    /\ rewound \subseteq [trigger : Triggers, gen : Nat]
    /\ budget \in [edits : Nat, faults : Nat] /\ budget.edits + budget.faults <= MaxTrouble

\* One instant of one trigger starts one run, whichever replicas see it due, whatever
\* clock they go by and even when an editor puts the instant back.
OncePerSlot == \A r, s \in runs : r.run = s.run => r = s

\* Instants that were missed are made up for by one run: a trigger that has fired does
\* not fire for an instant that was over by then.
CatchUpOnce ==
    \A r, s \in runs :
        r.run.trigger = s.run.trigger /\ r.run.gen = s.run.gen /\ r.run.key < s.run.key
            => r.at < s.run.key \/ [trigger |-> r.run.trigger, gen |-> r.run.gen] \in rewound

\* Runs that were created and that no replica will start.
Orphans == {r \in runs \ started : \A p \in Replicas : r \notin loop[p].todo}

\* A run is orphaned by a failure between the transaction and its start only: one
\* failure orphans no more than the runs of one claim.
OrphansAreEarned == Cardinality(Orphans) <= Limit * budget.faults

\* The instant a trigger waits for has come.
Ripe(t) == trig[t].live /\ trig[t].enabled /\ trig[t].next \in 0..now

\* Triggers whose present incarnation was saved with an old instant.
Stuck == {t \in Triggers : Incarnation(t) \in rewound}

\* A trigger whose instant has come moves on, past blackouts, failures and crashes and
\* behind others in the queue; unless it, or as many as a claim takes, were saved with an
\* instant that is over.
Advances ==
    \A t \in Triggers :
        Ripe(t) ~> (~Ripe(t) \/ t \in Stuck \/ Cardinality(Stuck) >= Limit)

\* An enabled trigger keeps firing.
KeepsFiring == \A t \in Triggers : Ripe(t) ~> ~Ripe(t)
===============================================================================
