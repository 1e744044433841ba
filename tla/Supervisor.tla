------------------------------- MODULE Supervisor -------------------------------
(***************************************************************************)
(* The process supervisor (runinator-supervisor/src/supervisor.rs) and the *)
(* provisioner that scales nodes through it (runinator-provisioner/src/    *)
(* supervisor.rs).  They share three things on disk: the queue of control  *)
(* commands, the snapshot of the process table, and the pid and stop files.*)
(*                                                                         *)
(* Between the rounds of the supervisor's loop, and while it waits for a   *)
(* process to stop, processes end and requests come in.  A command of the  *)
(* command line that starts or stops the supervisor is given after the     *)
(* last one has returned.                                                  *)
(***************************************************************************)
EXTENDS Naturals, FiniteSets, SequencesExt

CONSTANTS
    Configured,   \* names of the processes in the configuration file
    Autostart,    \* those of them that are started with the supervisor
    Nodes,        \* names the provisioner may give to the nodes of its group
    Oneshot,      \* names with restart_on_failure = false
    Limit,        \* max_restarts_per_minute
    Window,       \* a minute, in rounds of the loop
    Delay,        \* restart_delay, in rounds
    MaxEvents     \* failures, requests and deaths of the supervisor in a behaviour

ASSUME NamesAssumption ==
    /\ IsFiniteSet(Configured \cup Nodes) /\ Configured \cap Nodes = {}
    /\ Autostart \subseteq Configured
ASSUME SupervisorBoundsAssumption ==
    {Limit, Window, MaxEvents} \subseteq Nat /\ Delay \in Nat \ {0}

VARIABLES
    table,      \* name -> entry of the process table
    stray,      \* name -> live processes of that name that no entry has a handle of
    sup,        \* the supervisor: where its loop is, and the commands it has drained
    control,    \* control directory: commands in the order of their file names
    snapshot,   \* names listed in state.json
    files,      \* whether the pid file and the stop file exist
    client,     \* the command line's start or stop command
    web,        \* the provisioner: commands to enqueue, last request, whether it read the truth
    starts,     \* history: name -> how many rounds ago it was restarted automatically
    stopped,    \* history: names whose last command was to stop
    outlived,   \* history: names that were given up while still alive
    events      \* how many there were

vars == <<table, stray, sup, control, snapshot, files, client, web,
          starts, stopped, outlived, events>>

Names == Configured \cup Nodes

\* An entry: the process it has a handle of (none, alive, told to terminate, or ended
\* well or badly and not yet reaped), manual_stop, next_restart_at and restart_history.
build_one_process ==
    [known |-> TRUE, child |-> "none", manual |-> FALSE,
     armed |-> FALSE, wait |-> 0, history |-> <<>>]
NoEntry == [build_one_process EXCEPT !.known = FALSE]

Alive(p) == p.child \in {"alive", "told"}
Live(n) == stray[n] + IF Alive(table[n]) THEN 1 ELSE 0
Known == {n \in Names : table[n].known}
Up == sup.phase # "down"

Event == events < MaxEvents /\ events' = events + 1

-------------------------------------------------------------------------------
(* Starting, restarting and stopping one process.                          *)

\* Fault: the budget is not looked at.
schedule_restart_always(p, n) ==
    IF n \in Oneshot THEN p ELSE [p EXCEPT !.armed = TRUE, !.wait = Delay]

\* Entries older than the window leave from the front, up to the first one that is not.
Recent(ages) ==
    LET old == {i \in DOMAIN ages : \A j \in 1..i : ages[j] > Window}
    IN SubSeq(ages, Cardinality(old) + 1, Len(ages))

schedule_restart(p, n) ==
    LET recent == Recent(p.history)
    IN IF n \in Oneshot THEN p
       ELSE IF Len(recent) >= Limit THEN [p EXCEPT !.history = recent, !.armed = FALSE, !.wait = 0]
       ELSE [p EXCEPT !.history = Append(recent, 0), !.armed = TRUE, !.wait = Delay]

\* Spawning works, or it does not.
attempt_start(p, n, spawned) ==
    LET q == [p EXCEPT !.manual = FALSE]
    IN IF spawned THEN [q EXCEPT !.child = "alive", !.armed = FALSE, !.wait = 0]
       ELSE schedule_restart(q, n)

\* Fault: a stopped process that ends badly is restarted as any other.
handle_exit_forgetful(p, n) ==
    LET q == [p EXCEPT !.child = "none"]
    IN IF p.child = "ok" THEN [q EXCEPT !.armed = FALSE, !.wait = 0] ELSE schedule_restart(q, n)

handle_exit(p, n) ==
    LET q == [p EXCEPT !.child = "none"]
    IN IF p.manual \/ p.child = "ok" THEN [q EXCEPT !.armed = FALSE, !.wait = 0]
       ELSE schedule_restart(q, n)

\* stop_one: the process is told to terminate and has half a second for it (`prompt`);
\* otherwise the entry keeps its handle.
stop_one(p, prompt) ==
    [p EXCEPT !.manual = TRUE, !.armed = FALSE, !.wait = 0,
              !.child = IF prompt \/ ~Alive(p) THEN "none" ELSE "told"]

\* poll_process: an ended child is reaped, then a restart that is due is attempted.
Reaped(p, n) == IF p.child \in {"ok", "bad"} THEN handle_exit(p, n) ELSE p
RestartDue(p, n) == LET q == Reaped(p, n) IN q.child = "none" /\ q.armed /\ q.wait = 0
poll_process(p, n, spawned) ==
    IF RestartDue(p, n) THEN attempt_start(Reaped(p, n), n, spawned) ELSE Reaped(p, n)

-------------------------------------------------------------------------------
(* Control commands.                                                       *)

Cmd(op, n, auto) == [op |-> op, name |-> n, auto |-> auto]
Command == {c \in [op : {"add", "start", "stop", "remove"}, name : Names, auto : BOOLEAN] :
              c.auto => c.op = "add"}

\* drain: the whole directory is read and emptied.
drain ==
    /\ sup.phase = "drain"
    /\ sup' = [phase |-> "apply", todo |-> control]
    /\ control' = <<>>
    /\ UNCHANGED <<table, stray, snapshot, files, client, web, starts, stopped, outlived, events>>

\* What becomes of the entry and of its process.  An entry that is dropped leaves a
\* process that did not stop in time behind.
Dropped(n, prompt) ==
    LET left == Alive(table[n]) /\ ~prompt
    IN /\ stray' = IF left THEN [stray EXCEPT ![n] = @ + 1] ELSE stray
       /\ outlived' = IF left THEN outlived \cup {n} ELSE outlived

AddProcess(c, prompt, spawned) ==
    /\ Dropped(c.name, prompt)
    /\ table' = [table EXCEPT ![c.name] =
                    IF c.auto THEN attempt_start(build_one_process, c.name, spawned)
                    ELSE build_one_process]
    /\ starts' = [starts EXCEPT ![c.name] = <<>>]
    /\ stopped' = stopped \ {c.name}

\* Fault: a process that runs is started once more.
StartProcess_again(c, spawned) ==
    /\ table' = IF table[c.name].known
                THEN [table EXCEPT ![c.name] = attempt_start(@, c.name, spawned)] ELSE table
    /\ stray' = IF Alive(table[c.name]) THEN [stray EXCEPT ![c.name] = @ + 1] ELSE stray
    /\ stopped' = stopped \ {c.name}
    /\ UNCHANGED <<outlived, starts>>

\* A process whose handle is still there is left alone, one that is stopping too.
StartProcess(c, spawned) ==
    LET starting == table[c.name].known /\ table[c.name].child = "none"
    IN /\ table' = IF starting THEN [table EXCEPT ![c.name] = attempt_start(@, c.name, spawned)]
                   ELSE table
       /\ stopped' = IF starting THEN stopped \ {c.name} ELSE stopped
       /\ UNCHANGED <<stray, outlived, starts>>

StopProcess(c, prompt) ==
    /\ table' = IF table[c.name].known THEN [table EXCEPT ![c.name] = stop_one(@, prompt)] ELSE table
    /\ stopped' = stopped \cup {c.name}
    /\ UNCHANGED <<stray, outlived, starts>>

RemoveProcess(c, prompt) ==
    /\ Dropped(c.name, prompt)
    /\ table' = [table EXCEPT ![c.name] = NoEntry]
    /\ stopped' = stopped \cup {c.name}
    /\ UNCHANGED starts

\* A spawn that fails is an event.
Spawning(spawned) == IF spawned THEN UNCHANGED events ELSE Event

apply_control ==
    /\ sup.phase = "apply" /\ sup.todo # <<>>
    /\ LET c == Head(sup.todo)
       IN \E prompt, spawned \in BOOLEAN :
            /\ Spawning(spawned)
            /\ CASE c.op = "add" -> AddProcess(c, prompt, spawned)
                 [] c.op = "start" -> prompt /\ StartProcess(c, spawned)
                 [] c.op = "stop" -> spawned /\ StopProcess(c, prompt)
                 [] c.op = "remove" -> spawned /\ RemoveProcess(c, prompt)
    /\ sup' = [sup EXCEPT !.todo = Tail(@)]
    /\ UNCHANGED <<control, snapshot, files, client, web>>

-------------------------------------------------------------------------------
(* The loop and the end of the supervisor.                                 *)

\* Every process is polled, then the snapshot is written.
poll_processes ==
    /\ sup.phase = "apply" /\ sup.todo = <<>>
    /\ \E fails \in {{}} \cup {{n} : n \in {m \in Known : RestartDue(table[m], m)}} :
          /\ Spawning(fails = {})
          /\ table' = [n \in Names |-> IF table[n].known
                                       THEN poll_process(table[n], n, n \notin fails) ELSE table[n]]
    /\ starts' = [n \in Names |-> IF table[n].known /\ RestartDue(table[n], n)
                                  THEN Append(starts[n], 0) ELSE starts[n]]
    /\ snapshot' = Known
    /\ sup' = [sup EXCEPT !.phase = "look"]
    /\ UNCHANGED <<stray, control, files, client, web, stopped, outlived>>

Older(ages) == [i \in DOMAIN ages |-> IF ages[i] > Window THEN ages[i] ELSE ages[i] + 1]

\* No stop file: the loop sleeps, and a round has passed.
Sleep ==
    /\ sup.phase = "look" /\ ~files.stop
    /\ starts' = [n \in Names |-> Recent(Older(starts[n]))]
    /\ table' = [n \in Names |-> [table[n] EXCEPT !.wait = IF @ > 0 THEN @ - 1 ELSE 0,
                                                  !.history = Older(@)]]
    /\ sup' = [sup EXCEPT !.phase = "drain"]
    /\ UNCHANGED <<stray, control, snapshot, files, client, web, stopped, outlived, events>>

\* stop_children: everybody is told to terminate, ...
terminate_children ==
    /\ sup.phase = "look" /\ files.stop
    /\ table' = [n \in Names |-> IF Alive(table[n]) THEN [table[n] EXCEPT !.child = "told"] ELSE table[n]]
    /\ sup' = [sup EXCEPT !.phase = "stopping"]
    /\ UNCHANGED <<stray, control, snapshot, files, client, web, starts, stopped, outlived, events>>

\* ... is reaped, and killed when the shutdown timeout is over.
stop_children ==
    /\ sup.phase = "stopping"
    /\ stray' = stray
    /\ table' = [n \in Names |-> NoEntry]

\* The supervisor writes its last snapshot and removes its files.
run_supervisor_returns ==
    /\ stop_children
    /\ snapshot' = Known
    /\ sup' = [phase |-> "down", todo |-> <<>>]
    /\ files' = [pid |-> FALSE, stop |-> FALSE]
    /\ web' = [web EXCEPT !.sure = FALSE]
    /\ UNCHANGED <<control, client, starts, stopped, outlived, events>>

\* It dies: killed by a stop command that has waited too long, or by an error.  Its
\* processes live on without it; the pid file stays.
SupervisorDies ==
    /\ Up
    /\ Event
    /\ stray' = [n \in Names |-> Live(n)]
    /\ outlived' = outlived \cup {n \in Names : Alive(table[n])}
    /\ table' = [n \in Names |-> NoEntry]
    /\ sup' = [phase |-> "down", todo |-> <<>>]
    /\ web' = [web EXCEPT !.sure = FALSE]
    /\ UNCHANGED <<control, snapshot, files, client, starts, stopped>>

\* start_daemon: files that an earlier supervisor has left are removed, a new one is spawned.
start_daemon ==
    /\ ~Up /\ client = "idle"
    /\ files' = [pid |-> FALSE, stop |-> FALSE]
    /\ sup' = [phase |-> "boot", todo |-> <<>>]
    /\ client' = "starting"
    /\ UNCHANGED <<table, stray, control, snapshot, web, starts, stopped, outlived, events>>

\* It returns when there is a pid file, or without success.
start_daemon_returns ==
    /\ client = "starting" /\ (files.pid \/ ~Up)
    /\ client' = "idle"
    /\ UNCHANGED <<table, stray, sup, control, snapshot, files, web, starts, stopped, outlived, events>>

\* run_supervisor up to its loop: leftover commands are discarded, configured
\* processes are started.
run_supervisor ==
    /\ sup.phase = "boot"
    /\ files' = [pid |-> TRUE, stop |-> FALSE]
    /\ control' = <<>>
    /\ \E spawned \in BOOLEAN :
          /\ Spawning(spawned)
          /\ table' = [n \in Names |->
                          IF n \in Autostart THEN attempt_start(build_one_process, n, spawned)
                          ELSE IF n \in Configured THEN build_one_process ELSE NoEntry]
    /\ starts' = [n \in Names |-> <<>>]
    /\ stopped' = {}
    /\ sup' = [phase |-> "drain", todo |-> <<>>]
    /\ UNCHANGED <<stray, snapshot, client, web, outlived>>

-------------------------------------------------------------------------------
(* Processes, operators, the provisioner.                                  *)

\* A process ends; one that was told to needs no reason.
ProcessEnds(n, how) ==
    /\ Alive(table[n])
    /\ IF table[n].child = "told" THEN UNCHANGED events ELSE Event
    /\ table' = [table EXCEPT ![n].child = how]
    /\ UNCHANGED <<stray, sup, control, snapshot, files, client, web, starts, stopped, outlived>>

StrayEnds(n) ==
    /\ stray[n] > 0
    /\ stray' = [stray EXCEPT ![n] = @ - 1]
    /\ UNCHANGED <<table, sup, control, snapshot, files, client, web, starts, stopped, outlived, events>>

\* run_process_command: the command line adds, starts, stops or removes a process.
run_process_command(c) ==
    /\ Event
    /\ control' = Append(control, c)
    /\ web' = IF c.name \in Nodes THEN [web EXCEPT !.sure = FALSE] ELSE web
    /\ UNCHANGED <<table, stray, sup, snapshot, files, client, starts, stopped, outlived>>

stop_supervisor ==
    /\ client = "idle" /\ files.pid
    /\ Event
    /\ files' = [files EXCEPT !.stop = TRUE]
    /\ client' = "waiting"
    /\ web' = [web EXCEPT !.sure = FALSE]
    /\ UNCHANGED <<table, stray, sup, control, snapshot, starts, stopped, outlived>>

\* The supervisor is gone; its files are removed once more.
stop_supervisor_returns ==
    /\ client = "waiting" /\ ~Up
    /\ files' = [pid |-> FALSE, stop |-> FALSE]
    /\ client' = "idle"
    /\ UNCHANGED <<table, stray, sup, control, snapshot, web, starts, stopped, outlived, events>>

\* The snapshot says what there is, nothing else is on its way, and the supervisor has
\* done with what it discards.
Truthful ==
    /\ sup.phase \notin {"down", "boot"}
    /\ control = <<>> /\ sup.todo = <<>> /\ snapshot = Known

\* Fault: nodes that are missing are counted from the wrong end.
scale_off(desired, current) == desired + 1 - Cardinality(current)

Missing(desired, current) == desired - Cardinality(current)

\* scale: new nodes get names of their own, superfluous ones are removed, as far as the
\* snapshot knows.
scale(desired) ==
    /\ web.todo = <<>>
    /\ Event
    /\ LET current == snapshot \cap Nodes
           fresh == {n \in Nodes : stray[n] = 0} \ (current \cup Known \cup {c.name : c \in ToSet(control \o sup.todo)})
       IN IF desired > Cardinality(current)
          THEN /\ Cardinality(fresh) >= Missing(desired, current)
               /\ \E new \in {s \in SUBSET fresh : Cardinality(s) = Missing(desired, current)} :
                    web' = [todo |-> SetToSeq({Cmd("add", n, TRUE) : n \in new}),
                            desired |-> desired, sure |-> Truthful]
          ELSE \E old \in {s \in SUBSET current : Cardinality(s) = Cardinality(current) - desired} :
                    web' = [todo |-> SetToSeq({Cmd("remove", n, FALSE) : n \in old}),
                            desired |-> desired, sure |-> Truthful]
    /\ UNCHANGED <<table, stray, sup, control, snapshot, files, client, starts, stopped, outlived>>

\* enqueue: one file per command.
enqueue ==
    /\ web.todo # <<>>
    /\ control' = Append(control, Head(web.todo))
    /\ web' = [web EXCEPT !.todo = Tail(@)]
    /\ UNCHANGED <<table, stray, sup, snapshot, files, client, starts, stopped, outlived, events>>

-------------------------------------------------------------------------------
Init ==
    /\ table = [n \in Names |-> NoEntry]
    /\ stray = [n \in Names |-> 0]
    /\ sup = [phase |-> "down", todo |-> <<>>]
    /\ control = <<>> /\ snapshot = {}
    /\ files = [pid |-> FALSE, stop |-> FALSE] /\ client = "idle"
    /\ web = [todo |-> <<>>, desired |-> 0, sure |-> FALSE]
    /\ starts = [n \in Names |-> <<>>]
    /\ stopped = {} /\ outlived = {}
    /\ events = 0

Loop == run_supervisor \/ drain \/ apply_control \/ poll_processes \/ Sleep
        \/ terminate_children \/ run_supervisor_returns

Next ==
    \/ start_daemon \/ start_daemon_returns \/ Loop \/ SupervisorDies
    \/ \E n \in Names, how \in {"ok", "bad"} : ProcessEnds(n, how)
    \/ \E n \in Names : StrayEnds(n)
    \/ \E c \in Command : run_process_command(c)
    \/ stop_supervisor \/ stop_supervisor_returns
    \/ \E desired \in 0..Cardinality(Nodes) : scale(desired)
    \/ enqueue

\* Fairness: the supervisor's loop goes on until it ends, a request that has been begun
\* is finished.  Nobody has to end, to give a command or to die.
Fairness ==
    /\ WF_vars(Loop) /\ WF_vars(enqueue)
    /\ WF_vars(start_daemon_returns) /\ WF_vars(stop_supervisor_returns)

Spec == Init /\ [][Next]_vars
FairSpec == Spec /\ Fairness

-------------------------------------------------------------------------------
Entry == [known : BOOLEAN, child : {"none", "alive", "told", "ok", "bad"}, manual : BOOLEAN,
          armed : BOOLEAN, wait : Nat, history : Seq(Nat)]

\* Types of what the supervisor and its commands keep.
TypeOK ==
    /\ table \in [Names -> Entry]
    /\ stray \in [Names -> Nat]
    /\ starts \in [Names -> Seq(Nat)]
    /\ sup \in [phase : {"down", "boot", "drain", "apply", "look", "stopping"}, todo : Seq(Command)]
    /\ control \in Seq(Command) /\ web.todo \in Seq(Command)
    /\ DOMAIN web = {"todo", "desired", "sure"}
    /\ snapshot \subseteq Names /\ stopped \subseteq Names /\ outlived \subseteq Names

\* "Manually-stopped processes are not auto-restarted": no process appears under a name
\* between a command that stopped it and one that starts it.
StopHolds ==
    [][\A n \in stopped \cap stopped' : Live(n)' <= Live(n)]_vars

\* A name has one process, and a process an entry of a running supervisor, unless it
\* outlived a removal, a replacement or the supervisor.
NoStrays == \A n \in Names : Live(n) > 1 \/ stray[n] > 0 => n \in outlived

\* No process is restarted automatically more than max_restarts_per_minute times in
\* a minute of the loop's rounds.
RestartBudget == \A n \in Names : Len(starts[n]) <= Limit

\* A group that was scaled on a true snapshot gets the size that was asked for.
ScaleReached ==
    web.sure ~> (~web.sure \/ Cardinality(Known \cap Nodes) = web.desired)
===============================================================================
