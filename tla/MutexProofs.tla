------------------------------ MODULE MutexProofs ------------------------------
(***************************************************************************)
(* Proofs about named mutexes, for any number of runs, visits, faults and  *)
(* hold timeouts.                                                          *)
(*                                                                         *)
(* Both theorems are about one drive at a time, which is what mutex.rs     *)
(* itself relies on ("the ws ingress consumer driving the reducer one node *)
(* at a time per replica"): with two engines each of them is false, since  *)
(* the check of the mutex and its acquisition are two writes.              *)
(***************************************************************************)
EXTENDS Mutex, TLAPS

OneDrive == \A d, e \in Engines : d = e

\* What a drive has read or written, and what is still so while it goes on: handlers,
\* deadlines and the work of other runs come between any two of its steps.
DriveKnows(e) ==
    LET r == eng[e].run
        phase == eng[e].phase
    IN /\ phase \in {"acquire", "enter", "park"} => run[r].at = "acquire"
       /\ phase \in {"acquire", "enter"} => ~mutex_is_locked(r)
       /\ phase = "enter" => \E l \in leases : l.run = r
       /\ phase = "park" => \A l \in leases : l.run = r => l.lapsed
       /\ phase \in {"release", "leave"} => run[r].at = "release"
       /\ phase = "leave" => \A l \in leases : l.run # r
       /\ phase = "hook" => ~Active(r)

DrivesKnow == \A e \in Engines : eng[e] # Idle => DriveKnows(e)

\* A run before its acquire node has a visit left.
VisitsLeft == \A r \in Runs : run[r].at = "acquire" => run[r].visits < MaxVisits

IInv == TypeOK /\ HeldByOne /\ SectionIsBacked /\ DrivesKnow /\ VisitsLeft

-------------------------------------------------------------------------------
LEMMA InitIInv == Init => IInv
<1> SUFFICES ASSUME Init PROVE IInv
  OBVIOUS
<1> USE DEF Init
<1>1. TypeOK
  BY RunsAssumption, EnginesAssumption, LimitsAssumption
     DEF TypeOK, ClaimsAreDriven, RunState, DriveState, Terminal, Sorts
<1>2. HeldByOne /\ SectionIsBacked
  BY DEF HeldByOne, SectionIsBacked
<1>3. DrivesKnow
  BY DEF DrivesKnow
<1>4. VisitsLeft
  BY LimitsAssumption DEF VisitsLeft
<1> QED BY <1>1, <1>2, <1>3, <1>4 DEF IInv

-------------------------------------------------------------------------------
(***************************************************************************)
(* What the steps have in common.                                          *)
(***************************************************************************)
\* A drive goes on with another phase, and it is the only one.
LEMMA Moving ==
    ASSUME OneDrive, TypeOK, NEW e \in Engines, eng[e] # Idle,
           NEW p \in Phases, eng' = Moved(e, p)
    PROVE  /\ eng' \in [Engines -> {Idle} \cup DriveState]
           /\ eng[e].run \in Runs /\ eng[e].sort \in Sorts /\ eng[e].phase \in Phases
           /\ eng'[e] # Idle /\ eng'[e].phase = p
           /\ eng'[e].run = eng[e].run /\ eng'[e].sort = eng[e].sort
           /\ \A d \in Engines : d = e
<1>1. eng[e] \in DriveState
  BY DEF TypeOK
<1> DEFINE new == [eng[e] EXCEPT !.phase = p]
<1>2. /\ new \in DriveState /\ new.phase = p
      /\ new.run = eng[e].run /\ new.sort = eng[e].sort
  BY <1>1 DEF DriveState
<1>3. eng' = [eng EXCEPT ![e] = new]
  BY DEF Moved
<1> HIDE DEF new
<1>4. new # Idle
  BY <1>2 DEF Idle, Phases
<1> QED BY <1>1, <1>2, <1>3, <1>4 DEF TypeOK, OneDrive, DriveState

\* A drive ends: no engine drives any more.
LEMMA Ending ==
    ASSUME OneDrive, TypeOK, NEW e \in Engines, eng' = [eng EXCEPT ![e] = Idle]
    PROVE  /\ eng' \in [Engines -> {Idle} \cup DriveState]
           /\ \A d \in Engines : eng'[d] = Idle
           /\ DrivesKnow'
  BY DEF OneDrive, TypeOK, DrivesKnow

\* No step of the mutex makes up a claim: rows that are claimed were so before, and
\* their drives go on.
LEMMA ClaimsKept ==
    ASSUME TypeOK,
           \A r \in Runs, k \in Sorts : ready'[r][k] \in Engines => ready'[r][k] = ready[r][k],
           \A d \in Engines : eng[d] # Idle =>
               eng'[d] # Idle /\ eng'[d].run = eng[d].run /\ eng'[d].sort = eng[d].sort
    PROVE  ClaimsAreDriven'
  BY DEF TypeOK, ClaimsAreDriven

\* Rows that are enqueued or settled are nobody's.
LEMMA RowsOf ==
    ASSUME TypeOK, NEW r \in Runs, NEW sort \in Sorts
    PROVE  /\ Enqueued(r, sort) \in [Runs -> [Sorts -> {"none", "later", "due"} \cup Engines]]
           /\ Settled(r) \in [Runs -> [Sorts -> {"none", "later", "due"} \cup Engines]]
           /\ \A q \in Runs, k \in Sorts : Enqueued(r, sort)[q][k] \in Engines =>
                  q # r /\ Enqueued(r, sort)[q][k] = ready[q][k]
           /\ \A q \in Runs, k \in Sorts : Settled(r)[q][k] \in Engines =>
                  q # r /\ Settled(r)[q][k] = ready[q][k]
  BY EnginesAssumption DEF TypeOK, Enqueued, Settled

\* A run is written as a whole.
LEMMA RunWritten ==
    ASSUME TypeOK, NEW r \in Runs, NEW new \in RunState, run' = [run EXCEPT ![r] = new]
    PROVE  /\ run' \in [Runs -> RunState] /\ run'[r] = new
           /\ \A q \in Runs : q # r => run'[q] = run[q]
  BY DEF TypeOK

-------------------------------------------------------------------------------
(***************************************************************************)
(* Time, handlers of the web service, and the work in a section.           *)
(***************************************************************************)
LEMMA DueStep ==
    ASSUME IInv, NEW r \in Runs, NEW k \in Sorts, BecomeDue(r, k)
    PROVE  IInv'
<1> USE DEF BecomeDue
<1>1. TypeOK'
  <2>1. ready' \in [Runs -> [Sorts -> {"none", "later", "due"} \cup Engines]]
    BY DEF IInv, TypeOK
  <2>2. ClaimsAreDriven'
    BY EnginesAssumption, ClaimsKept DEF IInv, TypeOK
  <2> QED BY <2>1, <2>2 DEF IInv, TypeOK
<1>2. (HeldByOne /\ SectionIsBacked /\ DrivesKnow /\ VisitsLeft)'
  BY DEF IInv, HeldByOne, SectionIsBacked, DrivesKnow, DriveKnows, VisitsLeft,
         mutex_is_locked, Active
<1> QED BY <1>1, <1>2 DEF IInv

LEMMA DeadlineStep ==
    ASSUME IInv, NEW r \in Runs, Deadline(r)
    PROVE  IInv'
<1> DEFINE new == [run[r] EXCEPT !.late = TRUE]
<1>1. /\ new \in RunState /\ new.status = run[r].status
      /\ new.at = run[r].at /\ new.visits = run[r].visits
  BY DEF IInv, TypeOK, RunState
<1>2. run' = [run EXCEPT ![r] = new]
  BY DEF Deadline
<1> HIDE DEF new
<1>3. /\ run' \in [Runs -> RunState]
      /\ \A q \in Runs : /\ run'[q].status = run[q].status
                         /\ run'[q].at = run[q].at /\ run'[q].visits = run[q].visits
  BY <1>1, <1>2, RunWritten DEF IInv
<1>4. UNCHANGED <<leases, ready, eng, faults>>
  BY DEF Deadline
<1>5. TypeOK'
  BY <1>3, <1>4 DEF IInv, TypeOK, ClaimsAreDriven
<1>6. \A q \in Runs : Active(q)' <=> Active(q)
  BY <1>3 DEF Active
<1>7. \A l \in leases : l.run \in Runs
  BY DEF IInv, TypeOK
<1>8. \A q \in Runs : mutex_is_locked(q)' <=> mutex_is_locked(q)
  BY <1>4, <1>6, <1>7 DEF mutex_is_locked
<1>9. HeldByOne' /\ SectionIsBacked' /\ VisitsLeft'
  BY <1>3, <1>4, <1>6, <1>7 DEF IInv, HeldByOne, SectionIsBacked, VisitsLeft
<1>10. DrivesKnow'
  BY <1>3, <1>4, <1>6, <1>8 DEF IInv, DrivesKnow, DriveKnows, TypeOK, DriveState
<1> QED BY <1>5, <1>9, <1>10 DEF IInv

LEMMA LapseStep ==
    ASSUME IInv, NEW l \in leases, Lapse(l)
    PROVE  IInv'
<1> DEFINE late == [l EXCEPT !.lapsed = TRUE]
<1>1. /\ late \in [run : Runs, lapsed : BOOLEAN] /\ late.run = l.run /\ late.lapsed
  BY DEF IInv, TypeOK
<1>2. leases' = (leases \ {l}) \cup {late} /\ UNCHANGED <<run, ready, eng, faults>>
  BY DEF Lapse
<1> HIDE DEF late
<1>3. TypeOK'
  BY <1>1, <1>2 DEF IInv, TypeOK, ClaimsAreDriven
<1>4. HeldByOne' /\ SectionIsBacked' /\ VisitsLeft'
  BY <1>1, <1>2 DEF IInv, HeldByOne, SectionIsBacked, VisitsLeft, Active
<1>5. \A q \in Runs : mutex_is_locked(q)' => mutex_is_locked(q)
  BY <1>1, <1>2 DEF mutex_is_locked, Active
<1>6. DrivesKnow'
  BY <1>1, <1>2, <1>5 DEF IInv, DrivesKnow, DriveKnows, Active, TypeOK, DriveState
<1> QED BY <1>3, <1>4, <1>6 DEF IInv

LEMMA SectionStep ==
    ASSUME IInv, NEW r \in Runs, SectionDone(r)
    PROVE  IInv'
<1>1. PICK next \in {"release", "end"} \cup (IF run[r].visits < MaxVisits THEN {"acquire"} ELSE {}) :
        run' = [run EXCEPT ![r].at = next]
  BY DEF SectionDone
<1> DEFINE new == [run[r] EXCEPT !.at = next]
<1>2. /\ new \in RunState /\ new.status = run[r].status
      /\ new.at = next /\ new.visits = run[r].visits
  BY DEF IInv, TypeOK, RunState
<1>3. run' = [run EXCEPT ![r] = new]
  BY <1>1
<1> HIDE DEF new
<1>4. /\ run' \in [Runs -> RunState] /\ run'[r] = new
      /\ \A q \in Runs : q # r => run'[q] = run[q]
  BY <1>2, <1>3, RunWritten DEF IInv
<1>5. /\ run[r].at = "inside" /\ ready' = Enqueued(r, "event")
      /\ UNCHANGED <<leases, eng, faults>>
  BY DEF SectionDone
<1>6. TypeOK'
  <2>1. "event" \in Sorts
    BY DEF Sorts
  <2>2. ready' \in [Runs -> [Sorts -> {"none", "later", "due"} \cup Engines]]
    BY <1>5, <2>1, RowsOf DEF IInv
  <2>3. ClaimsAreDriven'
    BY <1>5, <2>1, RowsOf, ClaimsKept DEF IInv
  <2> QED BY <1>4, <1>5, <2>2, <2>3 DEF IInv, TypeOK
<1>7. \A q \in Runs : Active(q)' <=> Active(q)
  BY <1>2, <1>4 DEF Active
<1>8. \A l \in leases : l.run \in Runs
  BY DEF IInv, TypeOK
<1>9. \A q \in Runs : mutex_is_locked(q)' <=> mutex_is_locked(q)
  BY <1>5, <1>7, <1>8 DEF mutex_is_locked
<1>10. HeldByOne' /\ SectionIsBacked' /\ VisitsLeft'
  BY <1>2, <1>4, <1>5, <1>7, <1>8 DEF IInv, HeldByOne, SectionIsBacked, VisitsLeft
<1>11. DrivesKnow'
  BY <1>2, <1>4, <1>5, <1>7, <1>9 DEF IInv, DrivesKnow, DriveKnows, TypeOK, DriveState
<1> QED BY <1>6, <1>10, <1>11 DEF IInv

\* A run ends, in whatever way: less is held than before, and nobody loses a lease.
LEMMA RunEnds ==
    ASSUME IInv, NEW r \in Runs, NEW status \in Terminal,
           run' = [run EXCEPT ![r].status = status], UNCHANGED leases
    PROVE  /\ run' \in [Runs -> RunState]
           /\ \A q \in Runs : run'[q].at = run[q].at
           /\ \A q \in Runs : Active(q)' => Active(q)
           /\ ~Active(r)'
           /\ \A q \in Runs : mutex_is_locked(q)' => mutex_is_locked(q)
           /\ HeldByOne' /\ SectionIsBacked' /\ VisitsLeft'
<1> DEFINE new == [run[r] EXCEPT !.status = status]
<1>1. /\ new \in RunState /\ new.status = status
      /\ new.at = run[r].at /\ new.visits = run[r].visits
  BY DEF IInv, TypeOK, RunState
<1>2. run' = [run EXCEPT ![r] = new]
  OBVIOUS
<1> HIDE DEF new
<1>3. /\ run' \in [Runs -> RunState] /\ run'[r] = new
      /\ \A q \in Runs : q # r => run'[q] = run[q]
  BY <1>1, <1>2, RunWritten DEF IInv
<1>4. ~Active(r)' /\ \A q \in Runs : Active(q)' => Active(q)
  BY <1>1, <1>3 DEF Active
<1>5. \A l \in leases : l.run \in Runs
  BY DEF IInv, TypeOK
<1>6. \A q \in Runs : mutex_is_locked(q)' => mutex_is_locked(q)
  BY <1>4, <1>5 DEF mutex_is_locked
<1>7. HeldByOne' /\ SectionIsBacked' /\ VisitsLeft'
  BY <1>1, <1>3, <1>4, <1>5 DEF IInv, HeldByOne, SectionIsBacked, VisitsLeft
<1> QED BY <1>1, <1>3, <1>4, <1>6, <1>7

LEMMA CancelStep ==
    ASSUME IInv, NEW r \in Runs, cancel_workflow_run(r)
    PROVE  IInv'
<1>1. /\ run' = [run EXCEPT ![r].status = "canceled"] /\ ready' = Settled(r)
      /\ UNCHANGED <<leases, eng>> /\ "canceled" \in Terminal
      /\ faults < MaxFaults /\ faults' = faults + 1
  BY DEF cancel_workflow_run, Fault, Terminal
<1>2. TypeOK'
  <2>1. "event" \in Sorts
    BY DEF Sorts
  <2>2. ready' \in [Runs -> [Sorts -> {"none", "later", "due"} \cup Engines]] /\ ClaimsAreDriven'
    BY <1>1, <2>1, RowsOf, ClaimsKept DEF IInv
  <2>3. faults' \in 0..MaxFaults
    BY <1>1, LimitsAssumption DEF IInv, TypeOK
  <2> QED BY <1>1, <2>2, <2>3, RunEnds DEF IInv, TypeOK
<1>3. DrivesKnow'
  <2>1. /\ \A q \in Runs : run'[q].at = run[q].at
        /\ \A q \in Runs : Active(q)' => Active(q)
        /\ \A q \in Runs : mutex_is_locked(q)' => mutex_is_locked(q)
    BY <1>1, RunEnds
  <2>2. \A e \in Engines : eng[e] # Idle => DriveKnows(e) /\ eng[e].run \in Runs
    BY DEF IInv, DrivesKnow, TypeOK, DriveState
  <2>3. ASSUME NEW e \in Engines, eng[e] # Idle PROVE DriveKnows(e)'
    <3>1. DriveKnows(e) /\ eng[e].run \in Runs /\ UNCHANGED <<leases, eng>>
      BY <1>1, <2>2, <2>3
    <3> QED BY <2>1, <3>1 DEF DriveKnows
  <2> QED BY <1>1, <2>3 DEF DrivesKnow
<1> QED BY <1>1, <1>2, <1>3, RunEnds DEF IInv

-------------------------------------------------------------------------------
(***************************************************************************)
(* The steps of a drive.                                                   *)
(***************************************************************************)
LEMMA DriveStep ==
    ASSUME OneDrive, IInv, NEW e \in Engines, NEW r \in Runs, NEW k \in Sorts, Drive(e, r, k)
    PROVE  IInv'
<1> DEFINE new == [phase |-> "step", run |-> r, sort |-> k]
<1>1. /\ eng[e] = Idle /\ ready' = [ready EXCEPT ![r][k] = e]
      /\ eng' = [eng EXCEPT ![e] = new] /\ UNCHANGED <<run, leases, faults>>
  BY DEF Drive
<1>2. new \in DriveState /\ new.phase = "step" /\ new.run = r /\ new.sort = k
  BY DEF DriveState, Phases
<1> HIDE DEF new
<1>3. new # Idle
  BY <1>2 DEF Idle
<1>4. eng'[e] = new /\ \A d \in Engines : d = e
  BY <1>1 DEF IInv, TypeOK, OneDrive
<1>5. ready' \in [Runs -> [Sorts -> {"none", "later", "due"} \cup Engines]]
  BY <1>1 DEF IInv, TypeOK
<1>6. \A q \in Runs, j \in Sorts : ready'[q][j] = IF q = r /\ j = k THEN e ELSE ready[q][j]
  BY <1>1 DEF IInv, TypeOK
<1>7. \A q \in Runs, j \in Sorts : ready[q][j] \notin Engines
  BY <1>1, <1>4 DEF IInv, TypeOK, ClaimsAreDriven
<1>8. ClaimsAreDriven'
  BY <1>2, <1>3, <1>4, <1>6, <1>7 DEF ClaimsAreDriven
<1>9. TypeOK'
  BY <1>1, <1>2, <1>5, <1>8 DEF IInv, TypeOK
<1>10. (HeldByOne /\ SectionIsBacked /\ VisitsLeft)'
  BY <1>1 DEF IInv, HeldByOne, SectionIsBacked, VisitsLeft, Active
<1>11. DrivesKnow'
  BY <1>2, <1>4 DEF DrivesKnow, DriveKnows
<1> QED BY <1>9, <1>10, <1>11 DEF IInv

\* The types, when a drive goes on and the rows it leaves are nobody new's.
LEMMA TypesKept ==
    ASSUME OneDrive, IInv, NEW e \in Engines, eng[e] # Idle,
           NEW p \in Phases, eng' = Moved(e, p),
           run' \in [Runs -> RunState], leases' \subseteq [run : Runs, lapsed : BOOLEAN],
           \/ UNCHANGED ready
           \/ \E sort \in Sorts : ready' = Enqueued(eng[e].run, sort)
           \/ ready' = Settled(eng[e].run),
           UNCHANGED faults
    PROVE  TypeOK'
<1>1. /\ eng' \in [Engines -> {Idle} \cup DriveState] /\ eng[e].run \in Runs
      /\ \A d \in Engines : eng[d] # Idle =>
            eng'[d] # Idle /\ eng'[d].run = eng[d].run /\ eng'[d].sort = eng[d].sort
  BY Moving DEF IInv
<1>2. /\ ready' \in [Runs -> [Sorts -> {"none", "later", "due"} \cup Engines]]
      /\ \A q \in Runs, k \in Sorts : ready'[q][k] \in Engines => ready'[q][k] = ready[q][k]
  <2>1. CASE UNCHANGED ready
    BY <2>1 DEF IInv, TypeOK
  <2>2. CASE \E sort \in Sorts : ready' = Enqueued(eng[e].run, sort)
    BY <2>2, <1>1, RowsOf DEF IInv
  <2>3. CASE ready' = Settled(eng[e].run)
    <3>1. "event" \in Sorts
      BY DEF Sorts
    <3> QED BY <2>3, <3>1, <1>1, RowsOf DEF IInv
  <2> QED BY <2>1, <2>2, <2>3
<1>3. ClaimsAreDriven'
  BY <1>1, <1>2, ClaimsKept DEF IInv
<1> QED BY <1>1, <1>2, <1>3 DEF IInv, TypeOK

\* A drive that goes on without a write.
LEMMA PhaseStep ==
    ASSUME OneDrive, IInv, NEW e \in Engines, eng[e] # Idle,
           NEW p \in Phases, eng' = Moved(e, p), UNCHANGED <<run, leases, faults>>,
           \/ UNCHANGED ready
           \/ \E sort \in Sorts : ready' = Enqueued(eng[e].run, sort),
           p \in {"acquire", "park"} =>
               run[eng[e].run].at = "acquire" /\ Active(eng[e].run),
           p = "acquire" => ~mutex_is_locked(eng[e].run),
           p = "park" => mutex_is_locked(eng[e].run),
           p = "release" => run[eng[e].run].at = "release",
           p = "hook" => ~Active(eng[e].run),
           p \notin {"enter", "leave"}
    PROVE  IInv'
<1>1. TypeOK'
  BY TypesKept DEF IInv, TypeOK
<1>2. (HeldByOne /\ SectionIsBacked /\ VisitsLeft)'
  BY DEF IInv, HeldByOne, SectionIsBacked, VisitsLeft, Active
<1>3. /\ eng'[e].phase = p /\ eng'[e].run = eng[e].run /\ eng[e].run \in Runs
      /\ \A d \in Engines : d = e
  BY Moving DEF IInv
<1>4. p = "park" => \A l \in leases : l.run = eng[e].run => l.lapsed
  <2> SUFFICES ASSUME p = "park", NEW l \in leases, l.run = eng[e].run, ~l.lapsed PROVE FALSE
    BY DEF IInv, TypeOK
  <2>1. PICK k \in leases : k.run # eng[e].run /\ ~k.lapsed /\ Active(k.run)
    BY DEF mutex_is_locked
  <2> QED BY <2>1 DEF IInv, HeldByOne
<1>5. \A q \in Runs : (mutex_is_locked(q)' <=> mutex_is_locked(q)) /\ (Active(q)' <=> Active(q))
  BY DEF mutex_is_locked, Active
<1>6. DrivesKnow'
  BY <1>3, <1>4, <1>5 DEF DrivesKnow, DriveKnows
<1> QED BY <1>1, <1>2, <1>6 DEF IInv

LEMMA ProcessStep ==
    ASSUME OneDrive, IInv, NEW e \in Engines, process_step(e)
    PROVE  IInv'
<1>1. eng[e] # Idle /\ UNCHANGED <<leases, faults>>
  BY DEF process_step, Idle
<1>2. PICK r \in Runs : r = eng[e].run
  BY <1>1 DEF IInv, TypeOK, DriveState
<1>3. CASE \/ /\ ~Active(r) /\ eng' = Moved(e, "hook") /\ UNCHANGED <<run, ready>>
           \/ /\ run[r].at = "inside" /\ eng' = Moved(e, "complete") /\ UNCHANGED <<run, ready>>
           \/ /\ run[r].at = "release" /\ eng' = Moved(e, "release") /\ UNCHANGED <<run, ready>>
  <2>1. PICK p \in {"hook", "complete", "release"} :
          /\ eng' = Moved(e, p) /\ UNCHANGED <<run, ready>>
          /\ p = "hook" => ~Active(r)
          /\ p = "release" => run[r].at = "release"
    BY <1>3
  <2>2. p \in Phases /\ p \notin {"acquire", "park", "enter", "leave"}
    BY DEF Phases
  <2> QED BY <1>1, <1>2, <2>1, <2>2, PhaseStep
<1>4. CASE /\ Active(r) /\ run[r].at = "acquire"
           /\ ~(run[r].status = "waiting" /\ run[r].late)
           /\ eng' = Moved(e, IF ~mutex_is_locked(r) THEN "acquire"
                              ELSE IF run[r].status = "waiting" THEN "poll" ELSE "park")
           /\ UNCHANGED <<run, ready>>
  <2>1. PICK p \in {"acquire", "poll", "park"} :
          /\ eng' = Moved(e, p)
          /\ p = "acquire" => ~mutex_is_locked(r)
          /\ p = "park" => mutex_is_locked(r)
    BY <1>4
  <2>2. p \in Phases /\ p \notin {"release", "hook", "enter", "leave"}
    BY DEF Phases
  <2> QED BY <1>1, <1>2, <1>4, <2>1, <2>2, PhaseStep
<1>5. ASSUME NEW status \in Terminal, run' = [run EXCEPT ![r].status = status],
             ready' = Settled(r), eng' = Moved(e, "hook")
      PROVE  IInv'
  <2>1. "hook" \in Phases
    BY DEF Phases
  <2>2. /\ run' \in [Runs -> RunState] /\ ~Active(r)'
        /\ HeldByOne' /\ SectionIsBacked' /\ VisitsLeft'
    BY <1>1, <1>2, <1>5, RunEnds
  <2>3. TypeOK'
    BY <1>1, <1>2, <1>5, <2>1, <2>2, TypesKept DEF IInv, TypeOK
  <2>4. eng'[e].phase = "hook" /\ eng'[e].run = r /\ \A d \in Engines : d = e
    BY <1>1, <1>2, <1>5, <2>1, Moving DEF IInv
  <2>5. DrivesKnow'
    BY <2>2, <2>4 DEF DrivesKnow, DriveKnows
  <2> QED BY <2>2, <2>3, <2>5 DEF IInv
<1>6. "timed_out" \in Terminal /\ "succeeded" \in Terminal
  BY DEF Terminal
<1> QED BY <1>2, <1>3, <1>4, <1>5, <1>6 DEF process_step, AtAcquire

LEMMA AcquireStep ==
    ASSUME OneDrive, IInv, NEW e \in Engines, acquire_or_reinforce(e)
    PROVE  IInv'
<1>1. /\ eng[e] # Idle /\ eng[e].phase = "acquire" /\ eng' = Moved(e, "enter")
      /\ UNCHANGED <<run, ready, faults>> /\ "enter" \in Phases
  BY DEF acquire_or_reinforce, Idle, Phases
<1>2. PICK r \in Runs : r = eng[e].run
  BY <1>1 DEF IInv, TypeOK, DriveState
<1> DEFINE lease == [run |-> r, lapsed |-> FALSE]
<1>3. leases' = leases \cup {lease}
  BY <1>2 DEF acquire_or_reinforce
<1>4. lease \in [run : Runs, lapsed : BOOLEAN] /\ lease.run = r
  OBVIOUS
<1>5. \A l \in leases : l.run = r /\ ~l.lapsed => l = lease
  BY DEF IInv, TypeOK
<1> HIDE DEF lease
<1>6. ~mutex_is_locked(r) /\ run[r].at = "acquire"
  BY <1>1, <1>2 DEF IInv, DrivesKnow, DriveKnows
<1>7. TypeOK'
  BY <1>1, <1>3, <1>4, TypesKept DEF IInv, TypeOK
<1>8. HeldByOne'
  BY <1>1, <1>3, <1>4, <1>5, <1>6 DEF IInv, HeldByOne, mutex_is_locked, Active
<1>9. (SectionIsBacked /\ VisitsLeft)'
  BY <1>1, <1>3 DEF IInv, SectionIsBacked, VisitsLeft, Active
<1>10. eng'[e].phase = "enter" /\ eng'[e].run = r /\ \A d \in Engines : d = e
  BY <1>1, <1>2, Moving DEF IInv
<1>11. ~mutex_is_locked(r)'
  BY <1>1, <1>3, <1>4, <1>6 DEF mutex_is_locked, Active
<1>12. DrivesKnow'
  BY <1>1, <1>3, <1>4, <1>6, <1>10, <1>11 DEF DrivesKnow, DriveKnows
<1> QED BY <1>7, <1>8, <1>9, <1>12 DEF IInv

LEMMA EnterStep ==
    ASSUME OneDrive, IInv, NEW e \in Engines, enter(e)
    PROVE  IInv'
<1>1. /\ eng[e] # Idle /\ eng[e].phase = "enter" /\ eng' = Moved(e, "complete")
      /\ UNCHANGED <<leases, ready, faults>> /\ "complete" \in Phases
  BY DEF enter, Idle, Phases
<1>2. PICK r \in Runs : r = eng[e].run
  BY <1>1 DEF IInv, TypeOK, DriveState
<1> DEFINE new == [status |-> "running", at |-> "inside", late |-> FALSE, visits |-> run[r].visits + 1]
<1>3. run' = [run EXCEPT ![r] = new]
  BY <1>2 DEF enter
<1>4. /\ run[r].at = "acquire" /\ ~mutex_is_locked(r) /\ \E l \in leases : l.run = r
  BY <1>1, <1>2 DEF IInv, DrivesKnow, DriveKnows
<1>5. new \in RunState /\ new.at = "inside"
  <2>1. run[r].visits + 1 \in 0..MaxVisits
    BY <1>4, LimitsAssumption DEF IInv, TypeOK, RunState, VisitsLeft
  <2> QED BY <2>1 DEF RunState
<1> HIDE DEF new
<1>6. /\ run' \in [Runs -> RunState] /\ run'[r] = new
      /\ \A q \in Runs : q # r => run'[q] = run[q]
  BY <1>3, <1>5, RunWritten DEF IInv
<1>7. TypeOK'
  BY <1>1, <1>6, TypesKept DEF IInv, TypeOK
<1>8. HeldByOne'
  <2> SUFFICES ASSUME NEW k \in leases, NEW l \in leases, ~k.lapsed, ~l.lapsed,
                      run'[k.run].status \notin Terminal, run'[l.run].status \notin Terminal
               PROVE  k = l
    BY <1>1 DEF HeldByOne, Active
  <2>1. k \in [run : Runs, lapsed : BOOLEAN] /\ l \in [run : Runs, lapsed : BOOLEAN]
    BY DEF IInv, TypeOK
  <2>2. k.run # r => ~Active(k.run)
    BY <1>4 DEF mutex_is_locked
  <2>3. l.run # r => ~Active(l.run)
    BY <1>4 DEF mutex_is_locked
  <2>4. k.run = r /\ l.run = r
    BY <1>6, <2>1, <2>2, <2>3 DEF Active
  <2> QED BY <2>1, <2>4
<1>9. SectionIsBacked' /\ VisitsLeft'
  BY <1>1, <1>4, <1>5, <1>6 DEF IInv, SectionIsBacked, VisitsLeft, Active
<1>10. eng'[e].phase = "complete" /\ \A d \in Engines : d = e
  BY <1>1, Moving DEF IInv
<1>11. DrivesKnow'
  BY <1>10 DEF DrivesKnow, DriveKnows
<1> QED BY <1>7, <1>8, <1>9, <1>11 DEF IInv

\* A run that is parked, or that goes on from its release node, may have been canceled
\* since the drive read it; it comes back, and holds nothing that has not lapsed.
LEMMA ComesBack ==
    ASSUME OneDrive, IInv, NEW e \in Engines, eng[e] # Idle,
           NEW p \in {"parked", "step"}, eng' = Moved(e, p),
           NEW r \in Runs, r = eng[e].run, NEW new \in RunState, run' = [run EXCEPT ![r] = new],
           new.at # "inside", new.at = "acquire" => new.visits < MaxVisits,
           \A l \in leases : l.run = r => l.lapsed,
           UNCHANGED <<leases, ready, faults>>
    PROVE  IInv'
<1>1. /\ run' \in [Runs -> RunState] /\ run'[r] = new
      /\ \A q \in Runs : q # r => run'[q] = run[q]
  BY RunWritten DEF IInv
<1>2. p \in Phases
  BY DEF Phases
<1>3. TypeOK'
  BY <1>1, <1>2, TypesKept DEF IInv, TypeOK
<1>4. \A l \in leases : l.run \in Runs
  BY DEF IInv, TypeOK
<1>5. HeldByOne' /\ SectionIsBacked' /\ VisitsLeft'
  BY <1>1, <1>4 DEF IInv, HeldByOne, SectionIsBacked, VisitsLeft, Active
<1>6. eng'[e].phase = p /\ \A d \in Engines : d = e
  BY <1>2, Moving DEF IInv
<1>7. DrivesKnow'
  BY <1>6 DEF DrivesKnow, DriveKnows
<1> QED BY <1>3, <1>5, <1>7 DEF IInv

LEMMA ParkStep ==
    ASSUME OneDrive, IInv, NEW e \in Engines, park(e)
    PROVE  IInv'
<1>1. /\ eng[e] # Idle /\ eng[e].phase = "park" /\ eng' = Moved(e, "parked")
      /\ UNCHANGED <<leases, ready, faults>>
  BY DEF park, Idle
<1>2. PICK r \in Runs : r = eng[e].run
  BY <1>1 DEF IInv, TypeOK, DriveState
<1> DEFINE new == [run[r] EXCEPT !.status = "waiting"]
<1>3. run' = [run EXCEPT ![r] = new]
  BY <1>2 DEF park
<1>4. new \in RunState /\ new.at = run[r].at /\ new.visits = run[r].visits
  BY DEF IInv, TypeOK, RunState
<1> HIDE DEF new
<1>5. run[r].at = "acquire" /\ \A l \in leases : l.run = r => l.lapsed
  BY <1>1, <1>2 DEF IInv, DrivesKnow, DriveKnows
<1>6. run[r].visits < MaxVisits
  BY <1>5 DEF IInv, VisitsLeft
<1> QED BY <1>1, <1>2, <1>3, <1>4, <1>5, <1>6, ComesBack

LEMMA LeaveStep ==
    ASSUME OneDrive, IInv, NEW e \in Engines, leave(e)
    PROVE  IInv'
<1>1. /\ eng[e] # Idle /\ eng[e].phase = "leave" /\ eng' = Moved(e, "step")
      /\ UNCHANGED <<leases, ready, faults>>
  BY DEF leave, Idle
<1>2. PICK r \in Runs : r = eng[e].run
  BY <1>1 DEF IInv, TypeOK, DriveState
<1>3. PICK next \in {"end"} \cup (IF run[r].visits < MaxVisits THEN {"acquire"} ELSE {}) :
        run' = [run EXCEPT ![r].status = "running", ![r].at = next]
  BY <1>2 DEF leave
<1> DEFINE new == [run[r] EXCEPT !.status = "running", !.at = next]
<1>4. run' = [run EXCEPT ![r] = new]
  BY <1>3 DEF IInv, TypeOK
<1>5. new \in RunState /\ new.at = next /\ new.visits = run[r].visits
  BY DEF IInv, TypeOK, RunState
<1> HIDE DEF new
<1>6. \A l \in leases : l.run = r => l.lapsed
  BY <1>1, <1>2 DEF IInv, DrivesKnow, DriveKnows
<1> QED BY <1>1, <1>2, <1>4, <1>5, <1>6, ComesBack

\* The leases of a run go that is out of its section.
LEMMA ReleaseStep ==
    ASSUME OneDrive, IInv, NEW e \in Engines,
           release_run_mutex_named(e) \/ release_run_mutexes(e)
    PROVE  IInv'
<1>1. PICK p \in {"leave", "complete"} :
        /\ eng[e] # Idle /\ eng' = Moved(e, p)
        /\ leases' = release_run_leases(eng[e].run)
        /\ p = "leave" => eng[e].phase = "release"
        /\ p = "complete" => eng[e].phase = "hook"
        /\ UNCHANGED <<run, ready, faults>>
  BY DEF release_run_mutex_named, release_run_mutexes, Idle
<1>2. PICK r \in Runs : r = eng[e].run
  BY <1>1 DEF IInv, TypeOK, DriveState
<1>3. leases' = {l \in leases : l.run # r}
  BY <1>1, <1>2 DEF release_run_leases
<1>4. (p = "leave" => run[r].at = "release") /\ (p = "complete" => ~Active(r))
  BY <1>1, <1>2 DEF IInv, DrivesKnow, DriveKnows
<1>5. p \in Phases
  BY DEF Phases
<1>6. TypeOK'
  BY <1>1, <1>3, <1>5, TypesKept DEF IInv, TypeOK
<1>7. (HeldByOne /\ SectionIsBacked /\ VisitsLeft)'
  BY <1>1, <1>3, <1>4 DEF IInv, HeldByOne, SectionIsBacked, VisitsLeft, Active
<1>8. eng'[e].phase = p /\ eng'[e].run = r /\ \A d \in Engines : d = e
  BY <1>1, <1>2, <1>5, Moving DEF IInv
<1>9. DrivesKnow'
  BY <1>1, <1>3, <1>4, <1>8 DEF DrivesKnow, DriveKnows
<1> QED BY <1>6, <1>7, <1>9 DEF IInv

LEMMA PollStep ==
    ASSUME OneDrive, IInv, NEW e \in Engines, enqueue_mutex_poll(e) \/ arm_node_timeout(e)
    PROVE  IInv'
<1>1. PICK p \in {"arm", "complete"} :
        /\ eng[e] # Idle /\ eng' = Moved(e, p) /\ UNCHANGED <<run, leases, faults>>
        /\ UNCHANGED ready \/ \E sort \in {"poll", "timer"} : ready' = Enqueued(eng[e].run, sort)
  BY DEF enqueue_mutex_poll, arm_node_timeout, Idle
<1>2. p \in Phases /\ {"poll", "timer"} \subseteq Sorts
  BY DEF Phases, Sorts
<1> QED BY <1>1, <1>2, PhaseStep

\* A drive ends with its row: completed, due again after a crash, or failed.
LEMMA EndStep ==
    ASSUME OneDrive, IInv, NEW e \in Engines, eng[e] # Idle,
           complete(e) \/ EngineCrash(e) \/ fail_driven_ready_node(e)
    PROVE  IInv'
<1>1. PICK r \in Runs, k \in Sorts : r = eng[e].run /\ k = eng[e].sort
  BY DEF IInv, TypeOK, DriveState
<1>2. eng' = [eng EXCEPT ![e] = Idle] /\ UNCHANGED leases
  BY DEF complete, EngineCrash, fail_driven_ready_node
<1>3. /\ eng' \in [Engines -> {Idle} \cup DriveState]
      /\ \A d \in Engines : d = e /\ eng'[d] = Idle
      /\ DrivesKnow'
  BY <1>2, Ending DEF IInv, OneDrive
<1>4. faults' \in 0..MaxFaults
  BY LimitsAssumption DEF complete, EngineCrash, fail_driven_ready_node, Fault, IInv, TypeOK
<1>5. \A q \in Runs, j \in Sorts : ready[q][j] = e => q = r /\ j = k
  BY <1>1 DEF IInv, TypeOK, ClaimsAreDriven
<1>6. CASE complete(e) \/ EngineCrash(e)
  <2>1. PICK row \in {"none", "due"} :
          ready' = [ready EXCEPT ![r][k] = IF ready[r][k] = e THEN row ELSE ready[r][k]]
    BY <1>1, <1>6 DEF complete, EngineCrash
  <2>2. ready' \in [Runs -> [Sorts -> {"none", "later", "due"} \cup Engines]]
    BY <2>1 DEF IInv, TypeOK
  <2>3. \A q \in Runs, j \in Sorts :
          ready'[q][j] = IF q = r /\ j = k /\ ready[r][k] = e THEN row ELSE ready[q][j]
    BY <2>1 DEF IInv, TypeOK
  <2>4. \A q \in Runs, j \in Sorts : ready'[q][j] \notin Engines
    BY <1>3, <1>5, <2>3, EnginesAssumption
  <2>5. UNCHANGED run
    BY <1>6 DEF complete, EngineCrash
  <2>6. TypeOK'
    BY <1>2, <1>3, <1>4, <2>2, <2>4, <2>5 DEF IInv, TypeOK, ClaimsAreDriven
  <2>7. (HeldByOne /\ SectionIsBacked /\ VisitsLeft)'
    BY <1>2, <2>5 DEF IInv, HeldByOne, SectionIsBacked, VisitsLeft, Active
  <2> QED BY <1>3, <2>6, <2>7 DEF IInv
<1>7. CASE fail_driven_ready_node(e)
  <2>1. run' = [run EXCEPT ![r].status = "failed"] /\ ready' = Settled(r)
    BY <1>1, <1>7 DEF fail_driven_ready_node
  <2>2. "failed" \in Terminal /\ "event" \in Sorts
    BY DEF Terminal, Sorts
  <2>3. run' \in [Runs -> RunState] /\ HeldByOne' /\ SectionIsBacked' /\ VisitsLeft'
    BY <1>2, <2>1, <2>2, RunEnds
  <2>4. /\ ready' \in [Runs -> [Sorts -> {"none", "later", "due"} \cup Engines]]
        /\ \A q \in Runs, j \in Sorts : ready'[q][j] \in Engines => q # r /\ ready'[q][j] = ready[q][j]
    BY <2>1, <2>2, RowsOf DEF IInv
  <2>5. \A q \in Runs, j \in Sorts : ready'[q][j] \notin Engines
    BY <1>3, <1>5, <2>4
  <2>6. TypeOK'
    BY <1>2, <1>3, <1>4, <2>3, <2>4, <2>5 DEF IInv, TypeOK, ClaimsAreDriven
  <2> QED BY <1>3, <2>3, <2>6 DEF IInv
<1> QED BY <1>6, <1>7

-------------------------------------------------------------------------------
(***************************************************************************)
(* The theorems.                                                           *)
(***************************************************************************)
LEMMA Invariance == ASSUME OneDrive PROVE Spec => []IInv
<1>1. Init => IInv
  BY InitIInv
<1>2. IInv /\ [Next]_vars => IInv'
  <2> SUFFICES ASSUME IInv, [Next]_vars PROVE IInv'
    OBVIOUS
  <2>1. CASE UNCHANGED vars
    BY <2>1 DEF vars, IInv, TypeOK, ClaimsAreDriven, HeldByOne, SectionIsBacked, DrivesKnow,
                DriveKnows, VisitsLeft, mutex_is_locked, Active
  <2>2. ASSUME NEW e \in Engines, EngineStep(e) PROVE IInv'
    <3>1. CASE \E r \in Runs, k \in Sorts : Drive(e, r, k)
      BY <3>1, DriveStep
    <3>2. CASE process_step(e)
      BY <3>2, ProcessStep
    <3>3. CASE acquire_or_reinforce(e) \/ enter(e) \/ park(e) \/ leave(e)
      BY <3>3, AcquireStep, EnterStep, ParkStep, LeaveStep
    <3>4. CASE enqueue_mutex_poll(e) \/ arm_node_timeout(e)
      BY <3>4, PollStep
    <3>5. CASE release_run_mutex_named(e) \/ release_run_mutexes(e)
      BY <3>5, ReleaseStep
    <3>6. CASE complete(e)
      <4>1. eng[e] # Idle
        BY <3>6 DEF complete, Idle
      <4> QED BY <3>6, <4>1, EndStep
    <3> QED BY <2>2, <3>1, <3>2, <3>3, <3>4, <3>5, <3>6 DEF EngineStep
  <2>3. CASE \E r \in Runs : SectionDone(r)
    BY <2>3, SectionStep
  <2>4. CASE Clock
    BY <2>4, DeadlineStep, DueStep, LapseStep DEF Clock
  <2>5. CASE Faulty
    <3>1. \A e \in Engines : EngineCrash(e) \/ fail_driven_ready_node(e) => eng[e] # Idle
      BY DEF EngineCrash, fail_driven_ready_node
    <3> QED BY <2>5, <3>1, EndStep, CancelStep DEF Faulty
  <2> QED BY <2>1, <2>2, <2>3, <2>4, <2>5 DEF Next, Quiet
<1> QED BY <1>1, <1>2, PTL DEF Spec

\* The mutex has one holder that has not ended and whose lease has not lapsed, whatever
\* is canceled, times out, fails or crashes between the check of mutex_is_locked and the
\* write of acquire_or_reinforce, as long as one drive runs at a time.
THEOREM Exclusion == ASSUME OneDrive PROVE Spec => []HeldByOne
<1>1. IInv => HeldByOne
  BY DEF IInv
<1> QED BY <1>1, Invariance, PTL

\* A run in its section has its lease: neither a release node, nor the terminal hook of
\* process_ready_node, nor another run's reclaim takes it away.
THEOREM SectionHeld == ASSUME OneDrive PROVE Spec => []SectionIsBacked
<1>1. IInv => SectionIsBacked
  BY DEF IInv
<1> QED BY <1>1, Invariance, PTL

\* Types, and every claimed row is the row of the drive that claimed it.
THEOREM TypeCorrect == ASSUME OneDrive PROVE Spec => []TypeOK
<1>1. IInv => TypeOK
  BY DEF IInv
<1> QED BY <1>1, Invariance, PTL
===============================================================================
