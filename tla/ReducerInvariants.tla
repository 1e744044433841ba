--------------------------- MODULE ReducerInvariants ---------------------------
(***************************************************************************)
(* What the proofs about the reducer are stated with: the parts of the     *)
(* inductive invariants, which are about a state, and the effects of a     *)
(* step that preserve them, which are about a state and the next one.      *)
(***************************************************************************)
EXTENDS Reducer

(***************************************************************************)
(* The shape of the state.                                                 *)
(***************************************************************************)
Busy(e) == eng[e].phase # "idle"

\* A drive in the middle of a handler.
Mid(e) == eng[e].phase \notin {"idle", "step", "hook", "done"}

\* A child that ends with its body.
Child(c) == IsChild(c) /\ (def.kind = "subflow" \/ run[c].linked)

\* A row of the run that is due or will be.
HasRow(r) == rows[r].due > 0 \/ rows[r].timers # {}

Parents == {"map", "subflow"}
Answered == {"signal", "approval", "input"}

Blank(r) == /\ run[r].node = "none" /\ run[r].parent = r /\ ~run[r].linked /\ run[r].body = "none"
            /\ run[r].frame = NoFrame /\ rows[r] = NoRows

\* A run that is not there yet has left no trace; a parent is there.
Presence ==
    /\ Present(0)
    /\ \A r \in Runs : ~Present(r) => Blank(r)
    /\ \A r \in Runs : Present(r) => Present(run[r].parent)
    /\ \A e \in Engines : Present(eng[e].run)

\* Which kinds reach a phase, and which runs.
PhaseFits(p) ==
    /\ p = "record" => def.kind \in {"approval", "gate"}
    /\ p \in {"barrier", "throttle"} => def.kind = p
    /\ p \in {"cooldown", "skip", "skip_run"} => def.kind = "cooldown"
    /\ p \in {"harvest", "cancel", "fan"} => def.kind = "map"
    /\ p = "spawn" => def.kind = "subflow"
    /\ p = "link" => def.kind = "subflow" /\ def.body = "detached"
    /\ p = "node" => def.kind # "cooldown" /\ ~(def.kind = "subflow" /\ def.body = "detached")
    /\ p \in {"run", "poll", "arm"} => def.kind # "cooldown"

PhaseKinds == \A e \in Engines : PhaseFits(eng[e].phase) /\ (Mid(e) => ~Child(eng[e].run))

Kinship ==
    /\ \A c \in Runs : run[c].linked => IsChild(c) /\ run[c].parent # c /\ ~Child(run[c].parent)
    /\ def.kind \notin Parents =>
          \A r \in Runs : /\ run[r].body = "none" /\ run[r].parent = r /\ ~run[r].linked
                          /\ Present(r) => r \in Started(def)
    /\ def.body = "plain" => \A c \in Runs : IsChild(c) => run[c].linked
    /\ api.phase # "idle" => def.kind \in Answered \cup {"gate"} /\ api.run = 0
    /\ api.phase \in {"node", "run"} => def.kind \in Answered

Shape == Presence /\ PhaseKinds /\ Kinship
RunsTyped == run \in [Runs -> RunRecords]
RowsTyped == rows \in [Runs -> RowRecords]
TriesBounded == \A r \in Runs : run[r].tries <= def.attempts

(***************************************************************************)
(* The rates of throttles and cooldowns: who passed in which window.       *)
(***************************************************************************)
Current == {r \in Runs : run[r].since <= record.age /\ run[r].since < Window}
Previous == {r \in Runs : run[r].since > record.age /\ run[r].since < Window}

ThrottleCounts ==
    def.kind = "throttle" =>
        /\ \A r \in Runs : ~Present(r) => run[r].since = Timeout
        /\ record.status = "none" => \A r \in Runs : run[r].since = Timeout
        /\ record.status # "none" =>
              /\ \A r \in Runs : run[r].since = 0 => record.age < Window
              /\ record.used <= MaxPerWindow
              /\ Cardinality(Current) <= record.used
              /\ Cardinality(Previous) <= MaxPerWindow

CooldownStamps ==
    def.kind = "cooldown" =>
        /\ \A r \in Runs : ~Present(r) => run[r].since = Timeout
        /\ \A r \in Runs : run[r].since < Window => record.status # "none" /\ run[r].since = record.age
        /\ \A q, r \in Runs : run[q].since < Window /\ run[r].since < Window => q = r

Rates == ThrottleCounts /\ CooldownStamps

(***************************************************************************)
(* Two hypotheses of the theorems about parents and their children.        *)
(***************************************************************************)
\* What mutex.rs and its siblings rely on: one drive at a time.
OneDrive == \A d, e \in Engines : d = e

\* The body of a map's children does not park.
MapsArePlain == \A d \in Scenarios : d.kind = "map" => d.body = "plain"

(***************************************************************************)
(* Parents and children.                                                   *)
(***************************************************************************)
\* The children on record.
Family(r, flight) ==
    \A f \in flight :
        /\ f[2] # r /\ Present(f[2]) /\ IsChild(f[2])
        /\ ~run[r].hole \/ def.kind = "map" => run[f[2]].parent = r
        /\ ~run[r].hole => run[f[2]].linked
        /\ def.kind = "map" => run[f[2]].index = f[1]

Families ==
    def.kind \in Parents =>
        /\ \A r \in Runs : Family(r, run[r].frame.flight)
        /\ \A e \in Engines : Family(eng[e].run, eng[e].frame.flight)

\* The items are those done, those in flight, and those to come.
Tally(fr) == /\ fr.next <= def.items
             /\ \A i \in Nat : i < fr.next <=> (i \in fr.done \/ \E f \in fr.flight : f[1] = i)

Tallies ==
    def.kind = "map" =>
        /\ \A r \in Runs : Tally(run[r].frame)
        /\ \A e \in Engines : Tally(eng[e].frame)

\* A child that is over has no row left, and is at its first step only if it was canceled.
ChildrenRest ==
    \A c \in Runs : Child(c) /\ run[c].status \in Terminal =>
        /\ rows[c] = NoRows
        /\ \A e \in Engines : eng[e].phase = "step" /\ eng[e].run = c => run[run[c].parent].hole

\* A run that a subflow node may reuse is a child of somebody, if only of itself.
Reuse == def.body = "reused" => \A c \in Runs : Present(c) /\ c # 0 => IsChild(c)

Kindred == Families /\ Tallies /\ (def.kind \in Parents => ChildrenRest) /\ Reuse

(***************************************************************************)
(* What a failed map node leaves behind.                                   *)
(***************************************************************************)
\* All children on record are over and one of them failed.
Lost(r) == /\ \A f \in run[r].frame.flight : run[f[2]].status \in Terminal
           /\ flight_failed(run[r].frame.flight)

\* A drive that fails its node has seen to that.
Doomed(e) ==
    LET r == eng[e].run
    IN /\ eng[e].phase = "settle" /\ eng[e].verdict = "failed" => Lost(r)
       /\ eng[e].phase = "cancel" => flight_failed(run[r].frame.flight)
       /\ eng[e].phase \in {"fan", "node", "create", "run"} => run[r].node # "failed"

FailureKnown ==
    def.kind = "map" =>
        /\ \A r \in Runs : run[r].node = "failed" => Lost(r)
        /\ \A e \in Engines : Doomed(e)

(***************************************************************************)
(* What a success stands on.                                               *)
(***************************************************************************)
\* A drive that is about to end its run as succeeded.
Passing(e) == eng[e].phase \in {"settle", "finish"} /\ eng[e].verdict = "succeeded"

Success(r) == run[r].status = "succeeded" \/ \E e \in Engines : eng[e].run = r /\ Passing(e)
SomebodyPassed == \E s \in Runs : run[s].passed \/ run[s].hole
Solid(c) == run[c].status = "succeeded" /\ IsChild(c) /\ ~Driven(c)
ItemDone(r, i) == \E c \in Runs : run[c].parent = r /\ run[c].index = i /\ Solid(c)

\* A run in the middle of its drive has not succeeded yet.
LiveKnown == \A e \in Engines : Mid(e) => run[eng[e].run].status # "succeeded"

WaitsKnown ==
    /\ def.kind \in Answered => \A r \in Runs : Success(r) \/ run[r].node = "succeeded" => run[r].answered
    /\ def.kind \in {"wait", "debounce", "collect"} => \A r \in Runs : Success(r) => run[r].age = Timeout
    /\ def.kind = "collect" /\ ~def.timed => \A r \in Runs : ~Success(r)
    /\ def.kind = "event_source" => \A r \in Runs : ~Success(r)

BarrierKnown ==
    def.kind = "barrier" =>
        /\ record.arrivals \subseteq Started(def)
        /\ \A e \in Engines : eng[e].phase = "create" /\ eng[e].verdict = "succeeded"
                              => record.arrivals = Started(def)
        /\ \A r \in Runs : Success(r) => record.arrivals = Started(def)

CooldownKnown ==
    def.kind = "cooldown" =>
        /\ record.status # "none" => SomebodyPassed \/ \E e \in Engines : Passing(e)
        /\ \A e \in Engines : eng[e].phase \in {"skip", "skip_run"} => SomebodyPassed
        /\ \A r \in Runs : run[r].status = "succeeded" => SomebodyPassed

MapKnown ==
    def.kind = "map" =>
        /\ \A r \in Runs : \A i \in run[r].frame.done : ItemDone(r, i)
        /\ \A e \in Engines : \A i \in eng[e].frame.done : ItemDone(eng[e].run, i)
        /\ \A r \in Runs : Success(r) /\ ~IsChild(r) => \A i \in 0..(def.items - 1) : ItemDone(r, i)

SubflowKnown ==
    def.kind = "subflow" /\ def.body # "detached" =>
        \A r \in Runs : Success(r) /\ ~IsChild(r) => \A f \in run[r].frame.flight : Solid(f[2])

\* All that is known of a success.
SuccessKnown == LiveKnown /\ WaitsKnown /\ BarrierKnown /\ CooldownKnown /\ MapKnown /\ SubflowKnown

(***************************************************************************)
(* What will take up a run that nobody drives.                             *)
(***************************************************************************)
AtHook(c) == \E e \in Engines : eng[e].phase = "hook" /\ eng[e].run = c
Working(f) == Active(f[2]) \/ AtHook(f[2])

Awaits(r) ==
    \/ run[r].body = "busy"
    \/ run[r].node = "parked" /\
          \/ def.kind \in Answered
          \/ def.kind \in {"event_source", "collect"} /\ ~def.timed
          \/ def.kind \in Parents /\ \E f \in run[r].frame.flight : Working(f)

AnswerComes(r) == api.run = r /\ (api.phase = "row" \/ (api.phase = "run" /\ api.verdict = "succeeded"))
Excused(r) == run[r].hole \/ run[r].status \in Terminal \cup {"absent"}
Kept(r) == Excused(r) \/ run[r].node = "blocked" \/ AnswerComes(r) \/ HasRow(r) \/ Awaits(r)

\* What a drive leaves behind, whether it goes on or not.
Backed(e) ==
    LET r == eng[e].run
        p == eng[e].phase
    IN /\ Busy(e) => run[r].hole \/ e \in rows[r].claimed \/ HasRow(r)
                     \/ (run[r].status \in Terminal /\ p \in {"step", "hook", "done"})
       /\ p = "hook" \/ (p = "done" /\ ~eng[e].keep) => Kept(r)
       /\ p \in {"run", "poll", "arm"} =>
             \/ run[r].hole \/ run[r].node \in {"blocked", "parked"} \/ HasRow(r)
             \/ run[r].node = "succeeded" /\ AnswerComes(r)
       /\ p = "arm" => run[r].hole \/ PollAfter = 0 \/ HasRow(r)

\* The children a drive counts on.
Nursed(e) ==
    LET r == eng[e].run
        p == eng[e].phase
    IN ~run[r].hole =>
       /\ p = "fan" => \A f \in eng[e].frame.flight : Active(f[2])
       /\ \/ def.kind = "map" /\ p \in {"node", "run"}
          \/ def.kind = "subflow" /\ p \in {"create", "node"}
          => \E f \in eng[e].frame.flight : Active(f[2])
       /\ \/ def.kind = "map" /\ p \in {"poll", "arm"}
          \/ def.kind = "subflow" /\ p \in {"run", "poll", "arm"}
          => \E f \in run[r].frame.flight : Active(f[2])

\* What decides a subflow node.
DecidedSubflow(r) ==
    \/ timed_out(r)
    \/ \A f \in run[r].frame.flight : run[f[2]].status = "succeeded"
    \/ \E f \in run[r].frame.flight : run[f[2]].status \in Failed \cup {"blocked"}

SubflowDecided ==
    def.kind = "subflow" /\ def.body # "detached" =>
        /\ \A r \in Runs : ~run[r].hole /\ run[r].node # "parked" => DecidedSubflow(r)
        /\ \A e \in Engines : eng[e].phase = "settle" /\ ~run[eng[e].run].hole => DecidedSubflow(eng[e].run)

\* Nobody rejects a parent or a child.
Unblocked == def.kind \in Parents => \A r \in Runs : run[r].status # "blocked"

Strands ==
    /\ \A r \in Runs : ~Driven(r) => Kept(r)
    /\ \A e \in Engines : Backed(e) /\ Nursed(e)
    /\ SubflowDecided /\ Unblocked

\* What a drive that only reads on may count on.
Assured(r) == \/ run[r].hole \/ run[r].node \in {"blocked", "parked"} \/ HasRow(r)
              \/ run[r].node = "succeeded" /\ AnswerComes(r)

(***************************************************************************)
(* What one step does to the runs, their rows and the drives.              *)
(***************************************************************************)
Fields == {"status", "node", "tries", "age", "since", "answered", "passed", "hole", "parent",
           "linked", "index", "frame", "body"}

\* Run q keeps every field but those of S; only its hole may be marked; nothing but r changes.
Keeps(q, S) == \A f \in Fields \ S : run'[q][f] = run[q][f]

Like(q) == Keeps(q, {"hole"}) /\ (run[q].hole => run'[q].hole)
Apart(r) == \A q \in Runs : q # r => run'[q] = run[q]
LikeApart(r) == \A q \in Runs : q # r => Like(q) /\ (run'[q].hole # run[q].hole => q = run[r].parent)

\* The hole of a run and of its parent is marked.
Holed(r) == run'[r].hole /\ run'[run[r].parent].hole

Moves(e, p, v, fr) ==
    /\ eng' \in [Engines -> DriveRecords]
    /\ eng'[e].phase = p /\ eng'[e].verdict = v /\ eng'[e].frame = fr
    /\ eng'[e].run = eng[e].run
    /\ \A d \in Engines : d # e => eng'[d] = eng[d]

RowsApart(r) == \A q \in Runs : q # r => rows'[q] = rows[q]

\* The claims that stay are those of drives that go on.
ClaimsOnly == \A q \in Runs : rows'[q].claimed \subseteq rows[q].claimed

\* What time does to an age.
Older(n) == IF n < Timeout THEN n + 1 ELSE n

Aged(x, a, b) == [x EXCEPT !.age = a, !.since = b]

AtStep(e) == /\ eng[e].phase = "step" /\ eng[e].run \in Runs
             /\ Active(eng[e].run) /\ run[eng[e].run].status # "paused"

Goes(e, p) == Moves(e, p, eng[e].verdict, eng[e].frame)
Settles(e, v) == Moves(e, "settle", v, eng[e].frame)

\* A move that keeps the types of the drive.
Sound(e) == \E p, v : /\ Moves(e, p, v, eng[e].frame) /\ p # "idle"
                      /\ p \in {"settle", "finish"} => v # "none"

Watchers == {"wait", "debounce", "gate", "await_run", "event_source", "collect"}
Asks == deliver_signal(0) \/ resolve_approval(0) \/ resolve_workflow_input(0)

\* A first look goes on to the node run, with the verdict it will have.
Creates(e, v) == Moves(e, "create", v, eng[e].frame)

\* What a harvest leaves in the window, and what it takes out of it.
Harvested(fr, old) ==
    /\ fr.next = old.next
    /\ \A f : f \in fr.flight <=> f \in old.flight /\ run[f[2]].status \notin Terminal
    /\ \A i : i \in fr.done <=> i \in old.done
                                \/ \E f \in old.flight : f[1] = i /\ run[f[2]].status \in Terminal

\* A child is started: a new run, its link and its row.
Spawns(r, c, i) ==
    /\ c \in Runs /\ ~Present(c)
    /\ Keeps(c, {"status", "parent", "linked", "body", "index", "node"}) /\ Apart(c)
    /\ run'[c].status = "queued" /\ run'[c].parent = r /\ run'[c].linked
    /\ run'[c].body = "todo" /\ run'[c].index = i /\ run'[c].node \in {"none", "succeeded"}
    /\ RowsApart(c) /\ rows'[c].due = 1 /\ rows'[c].claimed = {}

\* The child a drive has found or started, to be put on record.
Links(e, c) ==
    /\ Moves(e, "create", eng[e].verdict, eng'[e].frame) /\ c \in Runs
    /\ eng'[e].frame.flight = {<<0, c>>}

\* What a step that starts no child leaves alone; a link may be lost.
SameKin ==
    \A q \in Runs :
        /\ run'[q].parent = run[q].parent
        /\ run'[q].linked => run[q].linked
        /\ def.body = "plain" /\ run[q].linked => run'[q].linked
        /\ run'[q].body = "none" <=> run[q].body = "none"
        /\ run'[q].status = "absent" <=> run[q].status = "absent"
        /\ run[q].status = "absent" =>
              run'[q].node = run[q].node /\ run'[q].frame = run[q].frame /\ rows'[q] = rows[q]

\* The drive goes on to a phase of its kind.
Fits(e) == \E p, v, fr : /\ Moves(e, p, v, fr) /\ PhaseFits(p)
                         /\ p \in {"step", "hook", "done"} \/ ~Child(eng[e].run)

SinceSame == \A q \in Runs : run'[q].since = run[q].since /\ (Present(q) => Present(q)')

\* Kinship is for life, but for a link that is lost through a hole of the parent.
KinStable ==
    \A q \in Runs :
        /\ run'[q].parent = run[q].parent /\ run'[q].index = run[q].index
        /\ Present(q)' <=> Present(q)
        /\ IsChild(q)' <=> IsChild(q)
        /\ run'[q].linked => run[q].linked
        /\ run[q].linked => run'[q].linked \/ run'[run[q].parent].hole
        /\ run[q].hole => run'[q].hole

\* A frame is kept, dropped, or written by the drive that carries it.
RunsInherit ==
    \A q \in Runs : \/ run'[q].frame = run[q].frame
                    \/ run'[q].frame = NoFrame
                    \/ \E d \in Engines : eng[d].run = q /\ run'[q].frame = eng[d].frame

DriveInherits(d) == \/ eng'[d].run = eng[d].run /\ eng'[d].frame = eng[d].frame
                    \/ eng'[d].frame = NoFrame

Inherits == RunsInherit /\ \A d \in Engines : DriveInherits(d)

\* Children that are over are left alone, and those that end now are left with nothing.
RowsRest ==
    /\ \A c \in Runs : Child(c) /\ run[c].status \in Terminal /\ rows[c] = NoRows => rows'[c] = NoRows
    /\ \A c \in Runs : Child(c) /\ run'[c].status \in Terminal /\ run[c].status \notin Terminal =>
          /\ rows'[c] = NoRows
          /\ \/ \A d \in Engines : ~(eng'[d].phase = "step" /\ eng'[d].run = c)
             \/ run'[run[c].parent].hole
    /\ \A d \in Engines : eng'[d].phase = "step" =>
          \/ eng[d].phase = "step" /\ eng'[d].run = eng[d].run
          \/ rows[eng'[d].run] # NoRows

\* A child that is over stays so; one that is being driven may be marked as failed.
EndsHeld ==
    \A c \in Runs : Child(c) /\ run[c].status \in Terminal =>
        run'[c].status = run[c].status \/ (run'[c].status = "failed" /\ Driven(c))

\* What is kept of a run, and where what changes comes from.
NodeFate(e, q) ==
    \/ run'[q].node = run[q].node
    \/ q = eng[e].run /\ run'[q].node = "parked"
    \/ q = eng[e].run /\ eng[e].phase = "settle" /\ run'[q].node \in {"queued", eng[e].verdict}

FrameFate(e, q) ==
    \/ run'[q].frame = run[q].frame
    \/ /\ q = eng[e].run /\ run'[q].frame = eng[e].frame
       /\ (eng[e].phase = "run" /\ def.kind = "map") \/ (eng[e].phase = "node" /\ def.kind = "subflow")

RunFate(e, q) ==
    /\ run'[q].answered = run[q].answered
    /\ def.kind # "map" => run'[q].age = run[q].age
    /\ run[q].hole => run'[q].hole
    /\ run[q].passed => run'[q].passed
    /\ run'[q].status = "succeeded" => run[q].status = "succeeded" \/ run'[q].passed
    /\ Success(q)' => Success(q)

Fate(e, q) == NodeFate(e, q) /\ FrameFate(e, q) /\ RunFate(e, q)

DriveFate(e) ==
    /\ eng'[e].phase \in {"idle", "step", "run", "poll", "arm", "hook", "done", "retry", "finish", "backoff"}
    /\ eng'[e].phase = "run" => run'[eng[e].run].node = "parked"
    /\ Mid(e)' => /\ Mid(e) /\ eng'[e].run = eng[e].run /\ eng'[e].frame = eng[e].frame
                  /\ run'[eng[e].run].status = "succeeded" => run[eng[e].run].status = "succeeded"
    /\ eng'[e].frame = NoFrame \/ (eng'[e].run = eng[e].run /\ eng'[e].frame = eng[e].frame)
    /\ Passing(e) => Passing(e)' \/ run'[eng[e].run].passed

\* What comes from outside of the drives: an answer, a body's end, an operator, a crash, time.
OutsideFate(q) ==
    /\ run'[q].frame = run[q].frame /\ run'[q].parent = run[q].parent /\ run'[q].index = run[q].index
    /\ IsChild(q)' <=> IsChild(q)
    /\ run'[q].node = run[q].node
          \/ (def.kind \notin Parents /\ (run'[q].node = "succeeded" => run'[q].answered))
    /\ run[q].answered => run'[q].answered
    /\ run[q].hole => run'[q].hole
    /\ run[q].passed => run'[q].passed
    /\ run'[q].status = "succeeded" => run[q].status = "succeeded"
    /\ run'[q].age \in {run[q].age, Older(run[q].age)}

Dropped(e) ==
    /\ eng[e].phase # "idle" /\ eng'[e] = Idle
    /\ \A d \in Engines : d # e => eng'[d] = eng[d]
    /\ def.kind = "cooldown" /\ Passing(e) => run'[eng[e].run].hole

\* A handler takes up a run that is not over, and leaves its status alone until it is done.
Proceeds(e) ==
    /\ eng'[e].run = eng[e].run
    /\ \/ ~Mid(e)'
       \/ AtStep(e) \/ Mid(e)
    /\ Mid(e)' => run'[eng[e].run].status = run[eng[e].run].status

\* Why a waiting node succeeds.
Due(e) ==
    LET r == eng[e].run
    IN /\ def.kind \in Answered => run[r].node = "succeeded"
       /\ def.kind # "event_source"
       /\ def.kind = "collect" => timed_out(r)
       /\ def.kind \in {"wait", "debounce"} => run[r].age >= Timeout

\* Why a barrier lets a run pass, and what a cooldown's record stands for.
Met(e) == \/ arrivals_complete(record'.arrivals)
          \/ eng[e].phase = "create" /\ eng[e].verdict = "succeeded"

BarrierFate(e) ==
    /\ record'.arrivals = record.arrivals \/ record'.arrivals = record.arrivals \cup {eng[e].run}
    /\ Passing(e)' => Met(e)
    /\ (eng[e].phase = "create" /\ eng[e].verdict = "succeeded")' => Met(e)

CooldownFate(e) ==
    /\ record'.status = record.status \/ Passing(e)'
    /\ eng'[e].phase = "skip" => eng[e].phase = "cooldown" /\ record.status # "none"
    /\ eng'[e].phase = "skip_run" => eng[e].phase = "skip"
    /\ eng[e].phase \notin {"settle", "finish"}

\* Nobody takes up a child that is over, and a child remains one.
Steadfast ==
    /\ EndsHeld
    /\ \A q \in Runs : Driven(q)' => Driven(q) \/ rows[q] # NoRows
    /\ \A q \in Runs : IsChild(q) => /\ IsChild(q)'
                                     /\ run'[q].parent = run[q].parent /\ run'[q].index = run[q].index

\* What a step that leaves the drives alone does for each run.
Stays(q) ==
    /\ Kept(q) => Kept(q)'
    /\ Assured(q) => Assured(q)'
    /\ run[q].hole => run'[q].hole
    /\ HasRow(q) => HasRow(q)' \/ run'[q].hole
    /\ \A e \in rows[q].claimed : e \in rows'[q].claimed \/ HasRow(q)' \/ run'[q].hole
    /\ run[q].status \in Terminal => run'[q].status \in Terminal \/ run'[q].hole
    /\ def.kind \in Parents =>
          /\ Active(q) => Active(q)' \/ run'[run[q].parent].hole
          /\ run'[q].frame = run[q].frame

===============================================================================
