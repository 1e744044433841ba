---------------------------- MODULE PipelinesProofs ----------------------------
(***************************************************************************)
(* Proofs about pipelines, for any members, links, chained pipelines and   *)
(* number of replicas, faults and commands.                                *)
(***************************************************************************)
EXTENDS Pipelines, TLAPS

Triggers == Links \cup Downstream

\* A member without a run has no ready row, and nobody tags or cancels it.
Unborn ==
    \A m \in Members : run[m].status = "none" =>
        /\ ~run[m].tagged /\ row[m] = "none"
        /\ canceler # Idle => m \notin canceler.todo

\* Where a drive g is, and what holds of the runs r while it is there.
Fine(g, r) ==
    g # Idle =>
        /\ r[g.of].status # "none"
        /\ g.phase \notin {"step", "end"} => r[g.of].status \in Terminal
        /\ g.phase = "create" => g.link \in Triggers
        /\ g.phase \in {"tag", "enqueue"} => g.link \in Links /\ r[g.link.to].status # "none"

DrivesFine == \A e \in Engines : Fine(eng[e], run)

\* Drive g is about to start what l asks for.
Creates(g, l) == g # Idle /\ g.phase = "create" /\ g.link = l

\* Only the replica that recorded a firing starts what it asks for, and it has not yet.
StartedByOne ==
    /\ \A l \in Triggers, e \in Engines : Creates(eng[e], l) =>
          /\ l \in fired /\ started[l] = 0
          /\ \A d \in Engines : Creates(eng[d], l) => d = e
    /\ \A l \in Triggers : started[l] > 0 => l \in fired

\* A chained member has no run before its link has started it, an entry member has one
\* once it was started.
LinkRuns == \A l \in Links : started[l] = 0 => run[l.to].status = "none"
EntryRuns == \A m \in Entry : started[m] > 0 => run[m].status # "none"

IInv == TypeOK /\ StartedOnce /\ Unborn /\ DrivesFine /\ StartedByOne /\ LinkRuns /\ EntryRuns

-------------------------------------------------------------------------------
(***************************************************************************)
(* Names.                                                                  *)
(***************************************************************************)
LEMMA StartsOf ==
    /\ Starts = Entry \cup Triggers
    /\ \A m \in Entry : m \in Members /\ m \notin Triggers
    /\ \A l \in Links : l.to \in Members /\ l.to \notin Entry
    /\ \A k, l \in Links : k.to = l.to => k = l
  BY LinksAssumption, MembersAssumption DEF Starts, Entry, Triggers

LEMMA NotIdle ==
    ASSUME NEW g \in DriveState
    PROVE  /\ g # Idle /\ g.phase \in DrivePhases /\ g.of \in Members /\ g.tagged \in BOOLEAN
           /\ g.status \in {"none"} \cup Terminal
           /\ g.todo \subseteq Triggers /\ g.link \in Triggers \cup {NoLink}
<1>1. g.phase # "idle"
  BY DEF DriveState, DrivePhases
<1> QED BY <1>1 DEF DriveState, Idle, Triggers

-------------------------------------------------------------------------------
(***************************************************************************)
(* What the steps have in common.                                          *)
(***************************************************************************)
\* The types apart from what relates two variables.
Typed ==
    /\ pipeline \in {"none", "queued", "running"} \cup Terminal
    /\ run \in [Members -> [status : RunStatus, tagged : BOOLEAN]]
    /\ row \in [Members -> {"none", "due"} \cup Engines]
    /\ fired \subseteq Triggers
    /\ started \in [Starts -> 0..2]
    /\ starter \in [phase : {"create", "flip", "members"}, todo : SUBSET Entry]
    /\ canceler \in {Idle} \cup [phase : {"members"}, todo : SUBSET Members]
    /\ eng \in [Engines -> {Idle} \cup DriveState]
    /\ controls \in 0..MaxControls /\ faults \in 0..MaxFaults

LEMMA IInvTyped == IInv => Typed
  BY DEF IInv, TypeOK, Typed, Triggers

LEMMA Moves ==
    ASSUME IInv, Typed',
           \A m \in Members : run[m].status # "none" => run'[m].status # "none",
           \A m \in Members : run[m].status \in Terminal => run'[m].status \in Terminal,
           \A m \in Members : run'[m].status = "none" =>
              ~run'[m].tagged /\ row'[m] = "none" /\ (canceler' # Idle => m \notin canceler'.todo),
           \A m \in Members : row'[m] \in Engines => eng'[row'[m]] # Idle /\ eng'[row'[m]].of = m,
           \A e \in Engines : eng'[e] = eng[e] \/ Fine(eng'[e], run'),
           StartedByOne', StartedOnce', LinkRuns', EntryRuns'
    PROVE  IInv'
<1>1. \A e \in Engines : Fine(eng'[e], run')
  <2> SUFFICES ASSUME NEW e \in Engines, eng'[e] = eng[e] PROVE Fine(eng[e], run')
    OBVIOUS
  <2>1. CASE eng[e] = Idle
    BY <2>1 DEF Fine
  <2>2. CASE eng[e] # Idle
    <3>1. PICK g \in DriveState : g = eng[e]
      BY <2>2, IInvTyped DEF Typed
    <3>2. g.of \in Members /\ g.phase \in DrivePhases
      BY NotIdle
    <3>3. Fine(g, run)
      BY <3>1 DEF IInv, DrivesFine
    <3>4. g.phase \in {"tag", "enqueue"} => g.link \in Links /\ g.link.to \in Members
      BY <2>2, <3>1, <3>3, StartsOf DEF Fine
    <3>5. Fine(g, run')
      BY <3>2, <3>3, <3>4 DEF Fine
    <3> QED BY <3>1, <3>5
  <2> QED BY <2>1, <2>2
<1>2. TypeOK'
  BY <1>1 DEF TypeOK, Typed, Triggers, Fine
<1>3. Unborn'
  BY DEF Unborn
<1>4. DrivesFine'
  BY <1>1 DEF DrivesFine
<1> QED BY <1>2, <1>3, <1>4 DEF IInv

\* Nothing is recorded and nothing is started.
LEMMA PlainMoves ==
    ASSUME IInv, Typed', UNCHANGED <<fired, started>>,
           \A m \in Members : run[m].status = "none" <=> run'[m].status = "none",
           \A m \in Members : run[m].status \in Terminal => run'[m].status \in Terminal,
           \A m \in Members : run'[m].status = "none" =>
              ~run'[m].tagged /\ row'[m] = "none" /\ (canceler' # Idle => m \notin canceler'.todo),
           \A m \in Members : row'[m] \in Engines => eng'[row'[m]] # Idle /\ eng'[row'[m]].of = m,
           \A e \in Engines : eng'[e] = eng[e] \/ (Fine(eng'[e], run') /\ eng'[e].phase # "create")
    PROVE  IInv'
<1>1. \A l \in Triggers, e \in Engines : Creates(eng'[e], l) => Creates(eng[e], l)
  BY DEF Creates
<1>2. StartedByOne'
  BY <1>1 DEF IInv, StartedByOne
<1>3. StartedOnce'
  BY DEF IInv, StartedOnce
<1>4. LinkRuns' /\ EntryRuns'
  BY StartsOf DEF IInv, LinkRuns, EntryRuns
<1> QED BY <1>2, <1>3, <1>4, Moves

LEMMA StatusSet ==
    ASSUME Typed, NEW m \in Members, NEW s \in RunStatus, run' = [run EXCEPT ![m].status = s]
    PROVE  /\ run' \in [Members -> [status : RunStatus, tagged : BOOLEAN]]
           /\ run'[m].status = s /\ run'[m].tagged = run[m].tagged
           /\ \A n \in Members \ {m} : run'[n] = run[n]
<1>1. run \in [Members -> [status : RunStatus, tagged : BOOLEAN]]
  BY DEF Typed
<1>2. PICK new \in [status : RunStatus, tagged : BOOLEAN] :
         /\ new = [run[m] EXCEPT !.status = s] /\ new.status = s /\ new.tagged = run[m].tagged
  BY <1>1
<1>3. run' = [run EXCEPT ![m] = new]
  BY <1>1, <1>2
<1> QED BY <1>1, <1>2, <1>3

LEMMA TaggedSet ==
    ASSUME Typed, NEW m \in Members, run' = [run EXCEPT ![m].tagged = TRUE]
    PROVE  /\ run' \in [Members -> [status : RunStatus, tagged : BOOLEAN]]
           /\ run'[m].status = run[m].status
           /\ \A n \in Members \ {m} : run'[n] = run[n]
<1>1. run \in [Members -> [status : RunStatus, tagged : BOOLEAN]]
  BY DEF Typed
<1>2. PICK new \in [status : RunStatus, tagged : BOOLEAN] :
         new = [run[m] EXCEPT !.tagged = TRUE] /\ new.status = run[m].status
  <2>1. run[m] \in [status : RunStatus, tagged : BOOLEAN]
    BY <1>1
  <2>2. [run[m] EXCEPT !.tagged = TRUE] \in [status : RunStatus, tagged : BOOLEAN]
    BY <2>1
  <2>3. [run[m] EXCEPT !.tagged = TRUE].status = run[m].status
    BY <2>1
  <2> QED BY <2>2, <2>3
<1>3. run' = [run EXCEPT ![m] = new]
  BY <1>1, <1>2
<1> QED BY <1>1, <1>2, <1>3

LEMMA FaultType == ASSUME Typed, Fault PROVE faults' \in 0..MaxFaults
  BY LimitsAssumption DEF Typed, Fault

LEMMA CommandType == ASSUME Typed, Command PROVE controls' \in 0..MaxControls
  BY LimitsAssumption DEF Typed, Command

-------------------------------------------------------------------------------
LEMMA InitIInv == Init => IInv
<1> SUFFICES ASSUME Init PROVE IInv
  OBVIOUS
<1> USE DEF Init
<1>1. Typed
  BY LimitsAssumption DEF Typed, NoRun, RunStatus, Idle
<1>2. TypeOK
  BY <1>1, EnginesAssumption DEF Typed, TypeOK, Triggers
<1>3. StartedOnce /\ Unborn /\ DrivesFine
  BY DEF StartedOnce, Unborn, DrivesFine, NoRun, Fine
<1>4. StartedByOne
  BY StartsOf DEF StartedByOne, Creates
<1>5. LinkRuns /\ EntryRuns
  BY StartsOf DEF LinkRuns, EntryRuns, NoRun
<1> QED BY <1>2, <1>3, <1>4, <1>5 DEF IInv

-------------------------------------------------------------------------------
(***************************************************************************)
(* The starter and the operators: no drive moves.                          *)
(***************************************************************************)
\* Neither runs nor rows nor drives move.
LEMMA NothingMoves ==
    ASSUME IInv, Typed', UNCHANGED <<run, row, fired, started, eng>>,
           canceler' # Idle => \A m \in canceler'.todo : run[m].status # "none"
    PROVE  IInv'
<1>1. \A m \in Members : row[m] \in Engines => eng[row[m]] # Idle /\ eng[row[m]].of = m
  BY DEF IInv, TypeOK
<1>2. \A m \in Members : run[m].status = "none" => ~run[m].tagged /\ row[m] = "none"
  BY DEF IInv, Unborn
<1> QED BY <1>1, <1>2, PlainMoves

LEMMA CancelerKnows ==
    IInv => (canceler # Idle => canceler.todo \subseteq Members
                                /\ \A m \in canceler.todo : run[m].status # "none")
  BY DEF IInv, TypeOK, Unborn

LEMMA PipelineStep ==
    ASSUME IInv, \/ create_pipeline_run \/ start_pipeline_run \/ StarterFails \/ cancel_pipeline
    PROVE  IInv'
<1>0. Typed
  BY IInvTyped
<1>1. UNCHANGED <<run, row, fired, started, eng>>
  BY DEF create_pipeline_run, start_pipeline_run, StarterFails, cancel_pipeline
<1>2. CASE create_pipeline_run
  <2>1. Typed' /\ UNCHANGED canceler
    BY <1>0, <1>2 DEF create_pipeline_run, Typed
  <2> QED BY <1>1, <2>1, CancelerKnows, NothingMoves
<1>3. CASE start_pipeline_run
  <2>1. Typed' /\ UNCHANGED canceler
    BY <1>0, <1>3 DEF start_pipeline_run, Typed, Terminal
  <2> QED BY <1>1, <2>1, CancelerKnows, NothingMoves
<1>4. CASE StarterFails
  <2>1. faults' \in 0..MaxFaults
    BY <1>0, <1>4, FaultType DEF StarterFails
  <2>2. Typed' /\ UNCHANGED canceler
    BY <1>0, <1>4, <2>1 DEF StarterFails, Typed
  <2> QED BY <1>1, <2>2, CancelerKnows, NothingMoves
<1>5. CASE cancel_pipeline
  <2>1. Typed' /\ canceler' = Idle
    BY <1>0, <1>5 DEF cancel_pipeline, Typed, Terminal
  <2> QED BY <1>1, <2>1, NothingMoves
<1> QED BY <1>2, <1>3, <1>4, <1>5

LEMMA CancelReadStep == ASSUME IInv, cancel_pipeline_run PROVE IInv'
<1>0. Typed
  BY IInvTyped
<1>1. controls' \in 0..MaxControls
  BY <1>0, CommandType DEF cancel_pipeline_run
<1>2. canceler' = [phase |-> "members", todo |-> {m \in Tagged : is_active(run[m].status)}]
  BY DEF cancel_pipeline_run
<1>3. Typed'
  BY <1>0, <1>1, <1>2 DEF cancel_pipeline_run, Typed, Tagged
<1>4. \A m \in canceler'.todo : run[m].status # "none"
  BY <1>2 DEF is_active
<1> QED BY <1>3, <1>4, NothingMoves DEF cancel_pipeline_run

\* The status of a run that there is becomes s; its row goes or stays.
LEMMA ControlMoves ==
    ASSUME IInv, NEW m \in Members, NEW s \in RunStatus, s # "none", run[m].status # "none",
           run[m].status \in Terminal => s \in Terminal,
           run' = [run EXCEPT ![m].status = s], row' = row \/ row' = RowSettled(m),
           UNCHANGED <<pipeline, fired, started, starter, eng, faults>>,
           controls' \in 0..MaxControls,
           canceler' = canceler \/ (/\ canceler # Idle /\ canceler'.todo \subseteq canceler.todo
                                    /\ canceler' \in [phase : {"members"}, todo : SUBSET Members])
    PROVE  IInv'
<1>0. Typed
  BY IInvTyped
<1>1. /\ run' \in [Members -> [status : RunStatus, tagged : BOOLEAN]]
      /\ run'[m].status = s /\ \A n \in Members \ {m} : run'[n] = run[n]
  BY <1>0, StatusSet
<1>2. row' \in [Members -> {"none", "due"} \cup Engines]
      /\ \A n \in Members : row'[n] = row[n] \/ row'[n] = "none"
  BY <1>0 DEF Typed, RowSettled
<1>3. Typed'
  BY <1>0, <1>1, <1>2 DEF Typed
<1>4. \A n \in Members : row'[n] \in Engines => eng'[row'[n]] # Idle /\ eng'[row'[n]].of = n
  <2>1. "none" \notin Engines
    BY EnginesAssumption
  <2> QED BY <1>2, <2>1 DEF IInv, TypeOK
<1>5. ASSUME NEW n \in Members, run'[n].status = "none"
      PROVE  /\ n # m /\ run'[n] = run[n] /\ ~run'[n].tagged /\ row'[n] = "none"
             /\ canceler' # Idle => n \notin canceler'.todo
  <2>1. n # m /\ run'[n] = run[n]
    BY <1>1, <1>5
  <2>2. ~run[n].tagged /\ row[n] = "none" /\ (canceler # Idle => n \notin canceler.todo)
    BY <1>5, <2>1 DEF IInv, Unborn
  <2> QED BY <1>2, <2>1, <2>2
<1>6. /\ \A n \in Members : run[n].status = "none" <=> run'[n].status = "none"
      /\ \A n \in Members : run[n].status \in Terminal => run'[n].status \in Terminal
  BY <1>1
<1> QED BY <1>3, <1>4, <1>5, <1>6, PlainMoves

LEMMA OperatorMoves == ASSUME IInv, OperatorStep \/ CancelStep PROVE IInv'
<1>0. Typed
  BY IInvTyped
<1> USE DEF Terminal
<1>1. ASSUME NEW m \in Members, pause_workflow_run(m) PROVE IInv'
  <2>1. controls' \in 0..MaxControls
    BY <1>0, <1>1, CommandType DEF pause_workflow_run
  <2>2. run[m].status # "none" /\ run[m].status \notin Terminal
    BY <1>1 DEF pause_workflow_run, is_active
  <2> QED BY <1>1, <2>1, <2>2, ControlMoves DEF pause_workflow_run, RunStatus
<1>2. ASSUME NEW m \in Members, resume_workflow_run(m) PROVE IInv'
  <2>1. controls' \in 0..MaxControls
    BY <1>0, <1>2 DEF resume_workflow_run, Typed
  <2>2. run[m].status # "none" /\ run[m].status \notin Terminal
    BY <1>2 DEF resume_workflow_run
  <2> QED BY <1>2, <2>1, <2>2, ControlMoves DEF resume_workflow_run, RunStatus
<1>3. ASSUME NEW m \in Members, cancel_workflow_run(m) PROVE IInv'
  <2>1. controls' \in 0..MaxControls
    BY <1>0, <1>3, CommandType DEF cancel_workflow_run
  <2>2. run[m].status # "none"
    BY <1>3 DEF cancel_workflow_run
  <2> QED BY <1>3, <2>1, <2>2, ControlMoves DEF cancel_workflow_run, RunStatus
<1>4. ASSUME NEW m \in Members, cancel_member(m) PROVE IInv'
  <2>1. controls' \in 0..MaxControls
    BY <1>0, <1>4 DEF cancel_member, Typed
  <2>2. canceler # Idle
    BY <1>4 DEF cancel_member, Idle
  <2>3. run[m].status # "none"
    BY <1>4, <2>2, CancelerKnows DEF cancel_member
  <2>4. canceler \in [phase : {"members"}, todo : SUBSET Members]
    BY <1>0, <2>2 DEF Typed
  <2>5. /\ canceler' \in [phase : {"members"}, todo : SUBSET Members]
        /\ canceler'.todo \subseteq canceler.todo
    BY <1>4, <2>4 DEF cancel_member
  <2> QED BY <1>4, <2>1, <2>2, <2>3, <2>5, ControlMoves DEF cancel_member, RunStatus
<1> QED BY <1>1, <1>2, <1>3, <1>4, CancelReadStep, PipelineStep DEF OperatorStep, CancelStep

LEMMA LateRowStep == ASSUME IInv, NEW m \in Members, LateRow(m) PROVE IInv'
<1>0. Typed
  BY IInvTyped
<1>1. faults' \in 0..MaxFaults
  BY <1>0, FaultType DEF LateRow
<1>2. /\ run[m].status # "none" /\ row' = [row EXCEPT ![m] = "due"]
      /\ UNCHANGED <<pipeline, run, fired, started, starter, canceler, eng, controls>>
  BY DEF LateRow, Terminal
<1>3. Typed' /\ row'[m] = "due" /\ \A n \in Members \ {m} : row'[n] = row[n]
  BY <1>0, <1>1, <1>2 DEF Typed
<1>4. \A n \in Members : row'[n] \in Engines => eng'[row'[n]] # Idle /\ eng'[row'[n]].of = n
  <2>1. "due" \notin Engines
    BY EnginesAssumption
  <2> QED BY <1>2, <1>3, <2>1 DEF IInv, TypeOK
<1>5. \A n \in Members : run[n].status = "none" =>
         ~run[n].tagged /\ row'[n] = "none" /\ (canceler # Idle => n \notin canceler.todo)
  BY <1>2, <1>3 DEF IInv, Unborn
<1> QED BY <1>2, <1>3, <1>4, <1>5, PlainMoves

\* start_member_run: the run is created, tagged, and its row enqueued.
LEMMA MemberStep == ASSUME IInv, NEW m \in Members, start_member_run(m) PROVE IInv'
<1>0. Typed
  BY IInvTyped
<1>1. m \in Entry /\ starter.todo \subseteq Entry
  BY <1>0 DEF start_member_run, Typed
<1>2. CASE /\ run[m] = NoRun
           /\ run' = [run EXCEPT ![m].status = "queued"]
           /\ started' = [started EXCEPT ![m] = Once(@)]
           /\ UNCHANGED <<row, starter>>
  <2>1. UNCHANGED <<pipeline, row, starter, fired, canceler, eng, controls, faults>>
    BY <1>2 DEF start_member_run
  <2>2. /\ run' \in [Members -> [status : RunStatus, tagged : BOOLEAN]]
        /\ run'[m].status = "queued" /\ \A n \in Members \ {m} : run'[n] = run[n]
    BY <1>0, <1>2, StatusSet DEF RunStatus
  <2>3. run[m].status = "none"
    BY <1>2 DEF NoRun
  <2>4. m \in Starts /\ started[m] \in 0..2 /\ started[m] <= 0
    BY <1>0, <1>1, <2>3, StartsOf DEF IInv, EntryRuns, Typed
  <2>5. /\ started' \in [Starts -> 0..2] /\ started'[m] = 1
        /\ \A s \in Starts \ {m} : started'[s] = started[s]
    <3>1. Once(started[m]) = 1
      BY <2>4 DEF Once
    <3>2. started \in [Starts -> 0..2] /\ started' = [started EXCEPT ![m] = 1]
      BY <1>0, <1>2, <3>1 DEF Typed
    <3> QED BY <2>4, <3>2
  <2>6. Typed'
    BY <1>0, <2>1, <2>2, <2>5 DEF Typed
  <2>7. StartedOnce'
    BY <2>5 DEF IInv, StartedOnce
  <2>8. \A l \in Triggers : l \in Starts /\ started'[l] = started[l]
    BY <1>1, <2>5, StartsOf
  <2>9. StartedByOne'
    BY <2>1, <2>8 DEF IInv, StartedByOne
  <2>10. LinkRuns'
    <3>1. \A l \in Links : l \in Triggers /\ l.to \in Members /\ l.to # m
      BY <1>1, StartsOf DEF Triggers
    <3> QED BY <2>2, <2>8, <3>1 DEF IInv, LinkRuns
  <2>11. EntryRuns'
    <3>1. \A n \in Entry \ {m} : n \in Starts /\ n \in Members
      BY StartsOf
    <3> QED BY <2>2, <2>5, <3>1 DEF IInv, EntryRuns
  <2>12. ASSUME NEW n \in Members, run'[n].status = "none"
         PROVE  ~run'[n].tagged /\ row'[n] = "none" /\ (canceler' # Idle => n \notin canceler'.todo)
    <3>1. run'[n] = run[n]
      BY <2>2, <2>12
    <3> QED BY <2>1, <2>12, <3>1 DEF IInv, Unborn
  <2>13. \A n \in Members : row'[n] \in Engines => eng'[row'[n]] # Idle /\ eng'[row'[n]].of = n
    BY <2>1 DEF IInv, TypeOK
  <2>14. \A n \in Members : /\ run[n].status # "none" => run'[n].status # "none"
                            /\ run[n].status \in Terminal => run'[n].status \in Terminal
    BY <2>2, <2>3 DEF Terminal
  <2> QED BY <2>1, <2>6, <2>7, <2>9, <2>10, <2>11, <2>12, <2>13, <2>14, Moves
<1>3. CASE /\ run[m].status # "none" /\ ~run[m].tagged
           /\ run' = [run EXCEPT ![m].tagged = TRUE]
           /\ UNCHANGED <<row, starter, started>>
  <2>1. UNCHANGED <<pipeline, row, starter, started, fired, canceler, eng, controls, faults>>
    BY <1>3 DEF start_member_run
  <2>2. /\ run' \in [Members -> [status : RunStatus, tagged : BOOLEAN]]
        /\ run'[m].status = run[m].status /\ \A n \in Members \ {m} : run'[n] = run[n]
    BY <1>0, <1>3, TaggedSet
  <2>3. Typed'
    BY <1>0, <2>1, <2>2 DEF Typed
  <2>4. \A n \in Members : row'[n] \in Engines => eng'[row'[n]] # Idle /\ eng'[row'[n]].of = n
    BY <2>1 DEF IInv, TypeOK
  <2>5. ASSUME NEW n \in Members, run'[n].status = "none"
        PROVE  ~run'[n].tagged /\ row'[n] = "none" /\ (canceler' # Idle => n \notin canceler'.todo)
    <3>1. run'[n] = run[n]
      BY <1>3, <2>2, <2>5
    <3> QED BY <2>1, <2>5, <3>1 DEF IInv, Unborn
  <2>6. /\ \A n \in Members : run[n].status = "none" <=> run'[n].status = "none"
        /\ \A n \in Members : run[n].status \in Terminal => run'[n].status \in Terminal
    BY <2>2
  <2> QED BY <2>1, <2>3, <2>4, <2>5, <2>6, PlainMoves
<1>4. CASE /\ run[m].tagged
           /\ row' = [row EXCEPT ![m] = "due"]
           /\ starter' = [starter EXCEPT !.todo = @ \ {m}]
           /\ UNCHANGED <<run, started>>
  <2>1. UNCHANGED <<pipeline, run, started, fired, canceler, eng, controls, faults>>
    BY <1>4 DEF start_member_run
  <2>2. run[m].status # "none"
    BY <1>4 DEF IInv, Unborn
  <2>3. Typed' /\ row'[m] = "due" /\ \A n \in Members \ {m} : row'[n] = row[n]
    BY <1>0, <1>4, <2>1 DEF Typed
  <2>4. \A n \in Members : row'[n] \in Engines => eng'[row'[n]] # Idle /\ eng'[row'[n]].of = n
    <3>1. "due" \notin Engines
      BY EnginesAssumption
    <3> QED BY <2>1, <2>3, <3>1 DEF IInv, TypeOK
  <2>5. \A n \in Members : run[n].status = "none" =>
           ~run[n].tagged /\ row'[n] = "none" /\ (canceler # Idle => n \notin canceler.todo)
    BY <2>2, <2>3 DEF IInv, Unborn
  <2> QED BY <2>1, <2>3, <2>4, <2>5, PlainMoves
<1> QED BY <1>2, <1>3, <1>4 DEF start_member_run

-------------------------------------------------------------------------------
(***************************************************************************)
(* The engines.                                                            *)
(***************************************************************************)
\* The drive of e goes on to g or is over; nothing is recorded and nothing started.
LEMMA EngineMoves ==
    ASSUME IInv, NEW e \in Engines, NEW g \in {Idle} \cup DriveState,
           eng[e] # Idle, eng' = [eng EXCEPT ![e] = g],
           g # Idle => g.of = eng[e].of /\ g.phase # "create",
           Fine(g, run'),
           pipeline' \in {"none", "queued", "running"} \cup Terminal,
           run' \in [Members -> [status : RunStatus, tagged : BOOLEAN]],
           row' \in [Members -> {"none", "due"} \cup Engines],
           faults' \in 0..MaxFaults,
           UNCHANGED <<fired, started, starter, canceler, controls>>,
           \A m \in Members : run[m].status = "none" <=> run'[m].status = "none",
           \A m \in Members : run[m].status \in Terminal => run'[m].status \in Terminal,
           \A m \in Members : run'[m].status = "none" => run'[m] = run[m] /\ row'[m] = row[m],
           \A m \in Members : row'[m] \in Engines => row'[m] = row[m],
           g = Idle => row'[eng[e].of] # e
    PROVE  IInv'
<1>0. Typed
  BY IInvTyped
<1>1. eng' \in [Engines -> {Idle} \cup DriveState]
      /\ eng'[e] = g /\ \A d \in Engines \ {e} : eng'[d] = eng[d]
  BY <1>0 DEF Typed
<1>2. Typed'
  BY <1>0, <1>1 DEF Typed
<1>3. ASSUME NEW m \in Members, row'[m] \in Engines
      PROVE  eng'[row'[m]] # Idle /\ eng'[row'[m]].of = m
  <2>1. eng[row'[m]] # Idle /\ eng[row'[m]].of = m
    BY <1>3 DEF IInv, TypeOK
  <2>2. CASE row'[m] = e
    BY <1>1, <2>1, <2>2
  <2>3. CASE row'[m] # e
    BY <1>1, <1>3, <2>1, <2>3
  <2> QED BY <2>2, <2>3
<1>4. \A m \in Members : run'[m].status = "none" =>
         ~run'[m].tagged /\ row'[m] = "none" /\ (canceler' # Idle => m \notin canceler'.todo)
  BY DEF IInv, Unborn
<1>5. \A d \in Engines : eng'[d] = eng[d] \/ (Fine(eng'[d], run') /\ eng'[d].phase # "create")
  BY <1>1 DEF Idle
<1> QED BY <1>2, <1>3, <1>4, <1>5, PlainMoves

\* A drive under way.
LEMMA Driving ==
    ASSUME IInv, NEW e \in Engines, eng[e] # Idle
    PROVE  /\ eng[e] \in DriveState /\ eng[e].of \in Members
           /\ run[eng[e].of].status # "none" /\ Fine(eng[e], run)
           /\ eng[e].phase \notin {"step", "end"} => run[eng[e].of].status \in Terminal
<1>1. eng[e] \in DriveState
  BY IInvTyped DEF Typed
<1>2. Fine(eng[e], run)
  BY DEF IInv, DrivesFine
<1> QED BY <1>1, <1>2, NotIdle DEF Fine

LEMMA RowCompleted ==
    ASSUME IInv, NEW e \in Engines, eng[e] # Idle, NEW s \in {"none", "due"},
           row' = [row EXCEPT ![eng[e].of] = IF @ = e THEN s ELSE @]
    PROVE  /\ row' \in [Members -> {"none", "due"} \cup Engines]
           /\ \A m \in Members : row'[m] \in Engines => row'[m] = row[m]
           /\ row'[eng[e].of] # e
           /\ \A m \in Members : run[m].status = "none" => row'[m] = row[m]
<1>1. row \in [Members -> {"none", "due"} \cup Engines]
  BY IInvTyped DEF Typed
<1>2. PICK m \in Members : m = eng[e].of /\ run[m].status # "none"
  BY Driving
<1>3. s \notin Engines
  BY EnginesAssumption
<1>4. /\ row' \in [Members -> {"none", "due"} \cup Engines]
      /\ row'[m] = IF row[m] = e THEN s ELSE row[m]
      /\ \A n \in Members \ {m} : row'[n] = row[n]
  BY <1>1, <1>2
<1> QED BY <1>2, <1>3, <1>4

LEMMA RowGone ==
    ASSUME IInv, NEW e \in Engines, eng[e] # Idle, row' = RowSettled(eng[e].of)
    PROVE  /\ row' \in [Members -> {"none", "due"} \cup Engines]
           /\ \A m \in Members : row'[m] \in Engines => row'[m] = row[m]
           /\ row'[eng[e].of] # e
           /\ \A m \in Members : run[m].status = "none" => row'[m] = row[m]
<1>1. row \in [Members -> {"none", "due"} \cup Engines]
  BY IInvTyped DEF Typed
<1>2. PICK m \in Members : m = eng[e].of /\ run[m].status # "none"
  BY Driving
<1>3. "none" \notin Engines
  BY EnginesAssumption
<1>4. /\ row' \in [Members -> {"none", "due"} \cup Engines]
      /\ row'[m] = "none" /\ \A n \in Members \ {m} : row'[n] = row[n]
  BY <1>1, <1>2 DEF RowSettled
<1> QED BY <1>2, <1>3, <1>4

\* The drive of e is over, by completion or by a crash.
LEMMA DriveOver ==
    ASSUME IInv, NEW e \in Engines, eng[e] # Idle, NEW s \in {"none", "due"},
           row' = [row EXCEPT ![eng[e].of] = IF @ = e THEN s ELSE @],
           eng' = [eng EXCEPT ![e] = Idle], faults' \in 0..MaxFaults,
           UNCHANGED <<pipeline, run, fired, started, starter, canceler, controls>>
    PROVE  IInv'
<1>0. Typed
  BY IInvTyped
<1>1. /\ row' \in [Members -> {"none", "due"} \cup Engines]
      /\ \A m \in Members : row'[m] \in Engines => row'[m] = row[m]
      /\ row'[eng[e].of] # e
      /\ \A m \in Members : run[m].status = "none" => row'[m] = row[m]
  BY RowCompleted
<1>2. Fine(Idle, run')
  BY DEF Fine
<1> QED BY <1>0, <1>1, <1>2, EngineMoves DEF Typed

LEMMA DriveStep == ASSUME IInv, NEW e \in Engines, NEW m \in Members, Drive(e, m) PROVE IInv'
<1>0. Typed
  BY IInvTyped
<1>1. PICK g : g = [phase |-> "step", of |-> m, status |-> "none",
                    tagged |-> FALSE, todo |-> {}, link |-> NoLink]
  OBVIOUS
<1>2. g \in DriveState /\ g.phase = "step" /\ g.of = m
  BY <1>1 DEF DriveState, DrivePhases
<1>3. /\ eng[e] = Idle /\ row[m] = "due" /\ row' = [row EXCEPT ![m] = e]
      /\ eng' = [eng EXCEPT ![e] = g]
      /\ UNCHANGED <<pipeline, run, fired, started, starter, canceler, controls, faults>>
  BY <1>1 DEF Drive
<1>4. /\ eng' \in [Engines -> {Idle} \cup DriveState]
      /\ eng'[e] = g /\ \A d \in Engines \ {e} : eng'[d] = eng[d]
  BY <1>0, <1>2, <1>3 DEF Typed
<1>5. /\ row' \in [Members -> {"none", "due"} \cup Engines]
      /\ row'[m] = e /\ \A n \in Members \ {m} : row'[n] = row[n]
  BY <1>0, <1>3 DEF Typed
<1>6. Typed'
  BY <1>0, <1>3, <1>4, <1>5 DEF Typed
<1>7. run[m].status # "none"
  BY <1>3 DEF IInv, Unborn
<1>8. Fine(g, run) /\ g.phase # "create"
  BY <1>2, <1>7 DEF Fine
<1>9. ASSUME NEW n \in Members, row'[n] \in Engines
      PROVE  eng'[row'[n]] # Idle /\ eng'[row'[n]].of = n
  <2>1. CASE n = m
    BY <1>2, <1>4, <1>5, <2>1, NotIdle
  <2>2. CASE n # m
    <3>1. row'[n] = row[n] /\ eng[row[n]] # Idle /\ eng[row[n]].of = n
      BY <1>5, <1>9, <2>2 DEF IInv, TypeOK
    <3> QED BY <1>3, <1>4, <1>9, <3>1
  <2> QED BY <2>1, <2>2
<1>10. \A n \in Members : run[n].status = "none" =>
          ~run[n].tagged /\ row'[n] = "none" /\ (canceler # Idle => n \notin canceler.todo)
  BY <1>5, <1>7 DEF IInv, Unborn
<1> QED BY <1>3, <1>4, <1>6, <1>8, <1>9, <1>10, PlainMoves

\* The hook of a run that ended with s.
LEMMA HookType ==
    ASSUME IInv, NEW e \in Engines, eng[e] # Idle, NEW s \in Terminal
    PROVE  /\ Hooked(e, s) \in DriveState /\ Hooked(e, s).of = eng[e].of
           /\ Hooked(e, s).phase = "chain"
<1>1. eng[e] \in DriveState /\ eng[e].of \in Members
  BY Driving
<1>2. run[eng[e].of].tagged \in BOOLEAN
  BY <1>1, IInvTyped DEF Typed
<1> DEFINE T == {l \in Links : l.from = eng[e].of /\ chain_status_matches(l.on, s)} \cup
                {d \in Downstream : d.source = eng[e].of /\ chain_status_matches(d.on, s)}
<1>3. T \in SUBSET (Links \cup Downstream)
  OBVIOUS
<1>4. Hooked(e, s) = [eng[e] EXCEPT !.phase = "chain", !.tagged = run[eng[e].of].tagged, !.todo = T]
  BY DEF Hooked
<1> HIDE DEF T
<1> QED BY <1>1, <1>2, <1>3, <1>4 DEF DriveState, DrivePhases

LEMMA ProcessStep == ASSUME IInv, NEW e \in Engines, process_ready_node(e) PROVE IInv'
<1>0. Typed
  BY IInvTyped
<1>1. /\ eng[e] # Idle /\ eng[e].phase = "step"
      /\ UNCHANGED <<pipeline, run, fired, started, starter, canceler, controls, faults>>
  BY DEF process_ready_node, Idle
<1>2. eng[e] \in DriveState /\ eng[e].of \in Members /\ run[eng[e].of].status # "none"
  BY <1>1, Driving
<1>3. CASE eng' = [eng EXCEPT ![e].phase = "end"] /\ UNCHANGED row
  <2>1. PICK g : g = [eng[e] EXCEPT !.phase = "end"]
    OBVIOUS
  <2>2. g \in DriveState /\ g.of = eng[e].of /\ g.phase = "end"
    BY <1>2, <2>1 DEF DriveState, DrivePhases
  <2>3. eng' = [eng EXCEPT ![e] = g]
    BY <1>0, <1>3, <2>1 DEF Typed
  <2>4. Fine(g, run')
    BY <1>1, <1>2, <2>2 DEF Fine
  <2> QED BY <1>0, <1>1, <1>3, <2>2, <2>3, <2>4, NotIdle, EngineMoves DEF Typed
<1>4. CASE /\ run[eng[e].of].status \in Terminal
           /\ eng' = [eng EXCEPT ![e] = Hooked(e, run[eng[e].of].status)] /\ UNCHANGED row
  <2>1. PICK g \in DriveState : g = Hooked(e, run[eng[e].of].status) /\ g.of = eng[e].of /\ g.phase = "chain"
    BY <1>1, <1>4, HookType
  <2>2. Fine(g, run')
    BY <1>1, <1>2, <1>4, <2>1 DEF Fine
  <2> QED BY <1>0, <1>1, <1>4, <2>1, <2>2, NotIdle, EngineMoves DEF Typed
<1>5. CASE row' = Completed(e) /\ eng' = [eng EXCEPT ![e] = Idle]
  BY <1>0, <1>1, <1>5, DriveOver DEF Completed, Typed
<1> QED BY <1>3, <1>4, <1>5 DEF process_ready_node

LEMMA EndStep == ASSUME IInv, NEW e \in Engines, end_run(e) PROVE IInv'
<1>0. Typed
  BY IInvTyped
<1>1. /\ eng[e] # Idle /\ row' = RowSettled(eng[e].of)
      /\ UNCHANGED <<pipeline, fired, started, starter, canceler, controls, faults>>
  BY DEF end_run, Idle
<1>2. PICK s \in {"succeeded", "failed"} :
         run' = [run EXCEPT ![eng[e].of].status = s] /\ eng' = [eng EXCEPT ![e] = Hooked(e, s)]
  BY DEF end_run
<1>3. s \in Terminal /\ s \in RunStatus /\ s # "none"
  BY DEF Terminal, RunStatus
<1>4. PICK m \in Members : m = eng[e].of /\ run[m].status # "none"
  BY <1>1, Driving
<1>5. /\ run' \in [Members -> [status : RunStatus, tagged : BOOLEAN]]
      /\ run'[m].status = s /\ \A n \in Members \ {m} : run'[n] = run[n]
  BY <1>0, <1>2, <1>3, <1>4, StatusSet
<1>6. PICK g \in DriveState : g = Hooked(e, s) /\ g.of = m /\ g.phase = "chain"
  BY <1>1, <1>3, <1>4, HookType
<1>7. Fine(g, run')
  BY <1>3, <1>5, <1>6 DEF Fine
<1>8. /\ row' \in [Members -> {"none", "due"} \cup Engines]
      /\ \A n \in Members : row'[n] \in Engines => row'[n] = row[n]
      /\ \A n \in Members : run[n].status = "none" => row'[n] = row[n]
  BY <1>1, RowGone
<1>9. /\ \A n \in Members : run[n].status = "none" <=> run'[n].status = "none"
      /\ \A n \in Members : run[n].status \in Terminal => run'[n].status \in Terminal
      /\ \A n \in Members : run'[n].status = "none" => run'[n] = run[n]
  BY <1>3, <1>4, <1>5
<1>10. pipeline' \in {"none", "queued", "running"} \cup Terminal /\ faults' \in 0..MaxFaults
  BY <1>0, <1>1 DEF Typed
<1>11. eng' = [eng EXCEPT ![e] = g] /\ g # Idle
  BY <1>2, <1>6, NotIdle
<1> QED BY <1>1, <1>4, <1>5, <1>6, <1>7, <1>8, <1>9, <1>10, <1>11, EngineMoves

LEMMA FailStep == ASSUME IInv, NEW e \in Engines, fail_driven_ready_node(e) PROVE IInv'
<1>0. Typed
  BY IInvTyped
<1>1. /\ eng[e] # Idle /\ row' = RowSettled(eng[e].of) /\ eng' = [eng EXCEPT ![e] = Idle]
      /\ run' = [run EXCEPT ![eng[e].of].status = "failed"]
      /\ UNCHANGED <<pipeline, fired, started, starter, canceler, controls>>
  BY DEF fail_driven_ready_node
<1>2. faults' \in 0..MaxFaults
  BY <1>0, FaultType DEF fail_driven_ready_node
<1>3. "failed" \in Terminal /\ "failed" \in RunStatus
  BY DEF Terminal, RunStatus
<1>4. PICK m \in Members : m = eng[e].of /\ run[m].status # "none"
  BY <1>1, Driving
<1>5. /\ run' \in [Members -> [status : RunStatus, tagged : BOOLEAN]]
      /\ run'[m].status = "failed" /\ \A n \in Members \ {m} : run'[n] = run[n]
  BY <1>0, <1>1, <1>3, <1>4, StatusSet
<1>6. Fine(Idle, run')
  BY DEF Fine
<1>7. /\ row' \in [Members -> {"none", "due"} \cup Engines]
      /\ \A n \in Members : row'[n] \in Engines => row'[n] = row[n]
      /\ \A n \in Members : run[n].status = "none" => row'[n] = row[n]
      /\ row'[eng[e].of] # e
  BY <1>1, RowGone
<1>8. /\ \A n \in Members : run[n].status = "none" <=> run'[n].status = "none"
      /\ \A n \in Members : run[n].status \in Terminal => run'[n].status \in Terminal
      /\ \A n \in Members : run'[n].status = "none" => run'[n] = run[n]
  BY <1>3, <1>4, <1>5
<1>9. pipeline' \in {"none", "queued", "running"} \cup Terminal
  BY <1>0, <1>1 DEF Typed
<1> QED BY <1>1, <1>2, <1>5, <1>6, <1>7, <1>8, <1>9, EngineMoves

LEMMA CrashStep == ASSUME IInv, NEW e \in Engines, EngineCrash(e) PROVE IInv'
<1>1. faults' \in 0..MaxFaults
  BY IInvTyped, FaultType DEF EngineCrash
<1> QED BY <1>1, DriveOver DEF EngineCrash

LEMMA SettleStep ==
    ASSUME IInv, NEW e \in Engines, settle_read(e) \/ settle_write(e) \/ complete(e)
    PROVE  IInv'
<1>0. Typed
  BY IInvTyped
<1>1. /\ eng[e] # Idle /\ eng[e].phase \in {"chain", "write", "pipelines"}
      /\ UNCHANGED <<run, fired, started, starter, canceler, controls, faults>>
  BY DEF settle_read, settle_write, complete, Idle
<1>2. eng[e] \in DriveState /\ eng[e].of \in Members /\ run[eng[e].of].status # "none"
      /\ run[eng[e].of].status \in Terminal
  BY <1>1, Driving
<1>3. CASE row' = Completed(e) /\ eng' = [eng EXCEPT ![e] = Idle] /\ UNCHANGED pipeline
  BY <1>0, <1>1, <1>3, DriveOver DEF Completed, Typed
<1>4. CASE /\ eng' = [eng EXCEPT ![e].phase = "write", ![e].status = Verdict]
           /\ UNCHANGED <<row, pipeline>>
  <2>1. Verdict \in Terminal
    BY DEF Verdict, Terminal
  <2>2. PICK g : g = [eng[e] EXCEPT !.phase = "write", !.status = Verdict]
    OBVIOUS
  <2>3. g \in DriveState /\ g.of = eng[e].of /\ g.phase = "write"
    BY <1>2, <2>1, <2>2 DEF DriveState, DrivePhases
  <2>4. eng' = [eng EXCEPT ![e] = g]
    BY <1>0, <1>4, <2>2 DEF Typed
  <2>5. Fine(g, run')
    BY <1>1, <1>2, <2>3 DEF Fine
  <2> QED BY <1>0, <1>1, <1>4, <2>3, <2>4, <2>5, NotIdle, EngineMoves DEF Typed
<1>5. CASE settle_write(e)
  <2> DEFINE T == {d \in Downstream : d.source = ThePipeline /\ chain_status_matches(d.on, eng[e].status)}
  <2>1. T \in SUBSET (Links \cup Downstream)
    OBVIOUS
  <2>2. PICK g : g = [eng[e] EXCEPT !.phase = "pipelines", !.status = "none", !.todo = T]
    OBVIOUS
  <2>3. eng' = [eng EXCEPT ![e] = g]
    BY <1>0, <1>5, <2>2 DEF Typed, settle_write
  <2> HIDE DEF T
  <2>4. g \in DriveState /\ g.of = eng[e].of /\ g.phase = "pipelines"
    BY <1>2, <2>1, <2>2 DEF DriveState, DrivePhases
  <2>5. Fine(g, run')
    BY <1>1, <1>2, <2>4 DEF Fine
  <2>6. pipeline' \in {"none", "queued", "running"} \cup Terminal /\ UNCHANGED row
    BY <1>2, <1>5, NotIdle DEF settle_write
  <2> QED BY <1>0, <1>1, <2>3, <2>4, <2>5, <2>6, NotIdle, EngineMoves DEF Typed
<1> QED BY <1>3, <1>4, <1>5 DEF settle_read, complete

LEMMA TagStep == ASSUME IInv, NEW e \in Engines, tag_run(e) PROVE IInv'
<1>0. Typed
  BY IInvTyped
<1>1. /\ eng[e] # Idle /\ eng[e].phase = "tag"
      /\ run' = [run EXCEPT ![eng[e].link.to].tagged = TRUE]
      /\ eng' = [eng EXCEPT ![e].phase = "enqueue"]
      /\ UNCHANGED <<pipeline, row, fired, started, starter, canceler, controls, faults>>
  BY DEF tag_run, Idle
<1>2. eng[e] \in DriveState /\ eng[e].of \in Members /\ Fine(eng[e], run)
  BY <1>1, Driving
<1>3. PICK m \in Members : m = eng[e].link.to /\ run[m].status # "none"
  BY <1>1, <1>2, StartsOf DEF Fine
<1>4. /\ run' \in [Members -> [status : RunStatus, tagged : BOOLEAN]]
      /\ run'[m].status = run[m].status /\ \A n \in Members \ {m} : run'[n] = run[n]
  BY <1>0, <1>1, <1>3, TaggedSet
<1>5. PICK g : g = [eng[e] EXCEPT !.phase = "enqueue"]
  OBVIOUS
<1>6. g \in DriveState /\ g.of = eng[e].of /\ g.link = eng[e].link /\ g.phase = "enqueue"
  BY <1>2, <1>5 DEF DriveState, DrivePhases
<1>7. eng' = [eng EXCEPT ![e] = g]
  BY <1>0, <1>1, <1>5 DEF Typed
<1>8. Fine(g, run')
  BY <1>1, <1>2, <1>3, <1>4, <1>6 DEF Fine
<1>9. /\ \A n \in Members : run[n].status = "none" <=> run'[n].status = "none"
      /\ \A n \in Members : run[n].status \in Terminal => run'[n].status \in Terminal
      /\ \A n \in Members : run'[n].status = "none" => run'[n] = run[n]
  BY <1>3, <1>4
<1> QED BY <1>0, <1>1, <1>4, <1>6, <1>7, <1>8, <1>9, NotIdle, EngineMoves DEF Typed

LEMMA EnqueueStep == ASSUME IInv, NEW e \in Engines, enqueue_start(e) PROVE IInv'
<1>0. Typed
  BY IInvTyped
<1>1. /\ eng[e] # Idle /\ eng[e].phase = "enqueue"
      /\ row' = [row EXCEPT ![eng[e].link.to] = "due"]
      /\ eng' = [eng EXCEPT ![e].phase = After(eng[e].link), ![e].link = NoLink]
      /\ UNCHANGED <<pipeline, run, fired, started, starter, canceler, controls, faults>>
  BY DEF enqueue_start, Idle
<1>2. /\ eng[e] \in DriveState /\ eng[e].of \in Members /\ Fine(eng[e], run)
      /\ run[eng[e].of].status # "none" /\ run[eng[e].of].status \in Terminal
  BY <1>1, Driving
<1>3. PICK m \in Members : m = eng[e].link.to /\ run[m].status # "none"
  BY <1>1, <1>2, StartsOf DEF Fine
<1>4. /\ row' \in [Members -> {"none", "due"} \cup Engines]
      /\ row'[m] = "due" /\ \A n \in Members \ {m} : row'[n] = row[n]
  BY <1>0, <1>1, <1>3 DEF Typed
<1>5. PICK p \in {"chain", "pipelines"} : p = After(eng[e].link)
  BY DEF After
<1>6. PICK g : g = [eng[e] EXCEPT !.phase = p, !.link = NoLink]
  OBVIOUS
<1>7. g \in DriveState /\ g.of = eng[e].of /\ g.phase = p
  BY <1>2, <1>6 DEF DriveState, DrivePhases
<1>8. eng' = [eng EXCEPT ![e] = g]
  BY <1>0, <1>1, <1>5, <1>6 DEF Typed
<1>9. Fine(g, run')
  BY <1>1, <1>2, <1>7 DEF Fine
<1>10. /\ \A n \in Members : row'[n] \in Engines => row'[n] = row[n]
       /\ \A n \in Members : run[n].status = "none" => row'[n] = row[n]
  <2>1. "due" \notin Engines
    BY EnginesAssumption
  <2> QED BY <1>3, <1>4, <2>1
<1> QED BY <1>0, <1>1, <1>4, <1>7, <1>8, <1>9, <1>10, NotIdle, EngineMoves DEF Typed

\* try_record_trigger_firing: who inserts the firing is the one to start the target.
LEMMA FireStep ==
    ASSUME IInv, NEW e \in Engines, NEW l \in Triggers, try_record_trigger_firing(e, l)
    PROVE  IInv'
<1>0. Typed
  BY IInvTyped
<1>1. /\ eng[e] # Idle /\ eng[e].phase \in {"chain", "pipelines"} /\ fired' = fired \cup {l}
      /\ UNCHANGED <<pipeline, run, row, started, starter, canceler, controls, faults>>
  BY DEF try_record_trigger_firing, Fires, Idle
<1>2. /\ eng[e] \in DriveState /\ eng[e].of \in Members
      /\ run[eng[e].of].status # "none" /\ run[eng[e].of].status \in Terminal
  BY <1>1, Driving
<1>3. CASE l \in fired
  <2>1. PICK g : g = [eng[e] EXCEPT !.todo = eng[e].todo \ {l}]
    OBVIOUS
  <2>2. g \in DriveState /\ g.of = eng[e].of /\ g.phase = eng[e].phase
    BY <1>2, <2>1 DEF DriveState
  <2>3. eng' = [eng EXCEPT ![e] = g]
    BY <1>0, <1>3, <2>1 DEF try_record_trigger_firing, Typed
  <2>4. Fine(g, run')
    BY <1>1, <1>2, <2>2 DEF Fine
  <2>5. UNCHANGED fired
    BY <1>1, <1>3
  <2> QED BY <1>0, <1>1, <2>2, <2>3, <2>4, <2>5, NotIdle, EngineMoves DEF Typed
<1>4. CASE l \notin fired
  <2>1. PICK g : g = [eng[e] EXCEPT !.todo = eng[e].todo \ {l}, !.phase = "create", !.link = l]
    OBVIOUS
  <2>2. g \in DriveState /\ g.of = eng[e].of /\ g.phase = "create" /\ g.link = l
    BY <1>2, <2>1 DEF DriveState, DrivePhases, Triggers
  <2>3. eng' = [eng EXCEPT ![e] = g]
    BY <1>0, <1>4, <2>1 DEF try_record_trigger_firing, Typed
  <2>4. Fine(g, run')
    BY <1>1, <1>2, <2>2 DEF Fine
  <2>5. /\ eng' \in [Engines -> {Idle} \cup DriveState]
        /\ eng'[e] = g /\ \A d \in Engines \ {e} : eng'[d] = eng[d]
    BY <1>0, <2>2, <2>3 DEF Typed
  <2>6. Typed'
    BY <1>0, <1>1, <2>5 DEF Typed
  <2>7. \A d \in Engines, k \in Triggers : Creates(eng'[d], k) =>
           (d = e /\ k = l) \/ (d # e /\ k # l /\ Creates(eng[d], k))
    BY <1>4, <2>2, <2>5 DEF IInv, StartedByOne, Creates
  <2>8. l \in Starts /\ started[l] = 0
    BY <1>0, <1>4, StartsOf DEF IInv, StartedByOne, Typed
  <2>9. StartedByOne'
    <3>1. \A k \in Triggers, d \in Engines : Creates(eng'[d], k) => k \in fired' /\ started'[k] = 0
      BY <1>1, <2>7, <2>8 DEF IInv, StartedByOne
    <3>2. \A k \in Triggers, d, f \in Engines :
             Creates(eng'[d], k) /\ Creates(eng'[f], k) => f = d
      BY <2>7 DEF IInv, StartedByOne
    <3>3. \A k \in Triggers : started'[k] > 0 => k \in fired'
      BY <1>1 DEF IInv, StartedByOne
    <3> QED BY <3>1, <3>2, <3>3 DEF StartedByOne
  <2>10. StartedOnce' /\ LinkRuns' /\ EntryRuns'
    BY <1>1 DEF IInv, StartedOnce, LinkRuns, EntryRuns
  <2>11. \A n \in Members : row'[n] \in Engines => eng'[row'[n]] # Idle /\ eng'[row'[n]].of = n
    <3>1. \A n \in Members : row[n] \in Engines => eng[row[n]] # Idle /\ eng[row[n]].of = n
      BY DEF IInv, TypeOK
    <3> QED BY <1>1, <2>2, <2>5, <3>1, NotIdle
  <2>12. \A n \in Members : run'[n].status = "none" =>
            ~run'[n].tagged /\ row'[n] = "none" /\ (canceler' # Idle => n \notin canceler'.todo)
    BY <1>1 DEF IInv, Unborn
  <2> QED BY <1>1, <2>4, <2>5, <2>6, <2>9, <2>10, <2>11, <2>12, Moves
<1> QED BY <1>3, <1>4

\* What starting l leaves of the other triggers, when the drive of e no longer creates.
LEMMA CreateMoves ==
    ASSUME IInv, NEW e \in Engines, NEW l \in Triggers, Creates(eng[e], l),
           NEW g \in DriveState, eng' = [eng EXCEPT ![e] = g], g.of = eng[e].of, g.phase # "create",
           started' = [started EXCEPT ![l] = Once(@)], UNCHANGED fired
    PROVE  /\ eng' \in [Engines -> {Idle} \cup DriveState]
           /\ eng'[e] = g /\ \A d \in Engines \ {e} : eng'[d] = eng[d]
           /\ started' \in [Starts -> 0..2] /\ StartedOnce' /\ StartedByOne'
           /\ l \in Starts /\ started[l] = 0 /\ started'[l] = 1
           /\ \A s \in Starts \ {l} : started'[s] = started[s]
           /\ \A m \in Members : row[m] \in Engines => eng'[row[m]] # Idle /\ eng'[row[m]].of = m
<1>0. Typed
  BY IInvTyped
<1>1. /\ eng' \in [Engines -> {Idle} \cup DriveState]
      /\ eng'[e] = g /\ \A d \in Engines \ {e} : eng'[d] = eng[d]
  BY <1>0 DEF Typed
<1>2. l \in Starts /\ started[l] = 0 /\ l \in fired
  BY StartsOf DEF IInv, StartedByOne
<1>3. started' \in [Starts -> 0..2] /\ started'[l] = 1 /\ \A s \in Starts \ {l} : started'[s] = started[s]
  <2>1. Once(started[l]) = 1
    BY <1>2 DEF Once
  <2>2. started \in [Starts -> 0..2] /\ started' = [started EXCEPT ![l] = 1]
    BY <1>0, <2>1 DEF Typed
  <2> QED BY <1>2, <2>2
<1>4. StartedOnce'
  BY <1>3 DEF IInv, StartedOnce
<1>5. \A d \in Engines, k \in Triggers : Creates(eng'[d], k) =>
         d # e /\ k # l /\ Creates(eng[d], k)
  BY <1>1 DEF IInv, StartedByOne, Creates
<1>6. StartedByOne'
  <2>1. \A k \in Triggers : k \in Starts /\ (k # l => started'[k] = started[k])
    BY <1>3, StartsOf
  <2>2. \A k \in Triggers, d \in Engines : Creates(eng'[d], k) => k \in fired' /\ started'[k] = 0
    BY <1>5, <2>1 DEF IInv, StartedByOne
  <2>3. \A k \in Triggers, d, f \in Engines : Creates(eng'[d], k) /\ Creates(eng'[f], k) => f = d
    BY <1>5 DEF IInv, StartedByOne
  <2>4. \A k \in Triggers : started'[k] > 0 => k \in fired'
    BY <1>2, <2>1 DEF IInv, StartedByOne
  <2> QED BY <2>2, <2>3, <2>4 DEF StartedByOne
<1>7. \A m \in Members : row[m] \in Engines => eng'[row[m]] # Idle /\ eng'[row[m]].of = m
  <2>1. \A m \in Members : row[m] \in Engines => eng[row[m]] # Idle /\ eng[row[m]].of = m
    BY DEF IInv, TypeOK
  <2> QED BY <1>1, <2>1, NotIdle
<1> QED BY <1>1, <1>2, <1>3, <1>4, <1>6, <1>7

\* create_run of a chained workflow: there was no run of the target before.
LEMMA CreateMemberStep ==
    ASSUME IInv, NEW e \in Engines, create_run(e), eng[e].link \in Links
    PROVE  IInv'
<1>0. Typed
  BY IInvTyped
<1>1. PICK l \in Links : l = eng[e].link
  OBVIOUS
<1>2. PICK p \in {"tag", "enqueue"} : p = IF eng[e].tagged THEN "tag" ELSE "enqueue"
  OBVIOUS
<1>3. /\ eng[e] # Idle /\ eng[e].phase = "create"
      /\ started' = [started EXCEPT ![l] = Once(@)]
      /\ run' = [run EXCEPT ![l.to] = [status |-> "queued", tagged |-> FALSE]]
      /\ eng' = [eng EXCEPT ![e].phase = p]
      /\ UNCHANGED <<pipeline, row, fired, starter, canceler, controls, faults>>
  BY <1>1, <1>2 DEF create_run, Idle
<1>4. /\ eng[e] \in DriveState /\ eng[e].of \in Members
      /\ run[eng[e].of].status # "none" /\ run[eng[e].of].status \in Terminal
  BY <1>3, Driving
<1>5. l \in Triggers /\ l.to \in Members /\ Creates(eng[e], l)
  BY <1>1, <1>3, StartsOf DEF Triggers, Creates
<1>6. PICK g : g = [eng[e] EXCEPT !.phase = p]
  OBVIOUS
<1>7. g \in DriveState /\ g.of = eng[e].of /\ g.phase = p /\ g.link = l
  BY <1>1, <1>4, <1>6 DEF DriveState, DrivePhases
<1>8. eng' = [eng EXCEPT ![e] = g]
  BY <1>0, <1>3, <1>6 DEF Typed
<1>9. /\ eng' \in [Engines -> {Idle} \cup DriveState]
      /\ eng'[e] = g /\ \A d \in Engines \ {e} : eng'[d] = eng[d]
      /\ started' \in [Starts -> 0..2] /\ StartedOnce' /\ StartedByOne'
      /\ l \in Starts /\ started[l] = 0 /\ started'[l] = 1
      /\ \A s \in Starts \ {l} : started'[s] = started[s]
      /\ \A m \in Members : row[m] \in Engines => eng'[row[m]] # Idle /\ eng'[row[m]].of = m
  <2>1. g.phase # "create" /\ UNCHANGED fired
    BY <1>3, <1>7
  <2>2. started' = [started EXCEPT ![l] = Once(@)]
    BY <1>3
  <2> QED BY <1>5, <1>7, <1>8, <2>1, <2>2, CreateMoves, ZenonT(40)
<1>10. run[l.to].status = "none"
  BY <1>9 DEF IInv, LinkRuns
<1>11. /\ run' \in [Members -> [status : RunStatus, tagged : BOOLEAN]]
       /\ run'[l.to].status = "queued" /\ \A n \in Members \ {l.to} : run'[n] = run[n]
  BY <1>0, <1>3, <1>5 DEF Typed, RunStatus
<1>12. Typed'
  BY <1>0, <1>3, <1>9, <1>11 DEF Typed
<1>13. LinkRuns'
  <2>1. \A k \in Links : k \in Starts /\ k.to \in Members /\ (k # l => k.to # l.to)
    BY StartsOf DEF Triggers
  <2> QED BY <1>9, <1>11, <2>1 DEF IInv, LinkRuns
<1>14. EntryRuns'
  <2>1. \A m \in Entry : m \in Starts /\ m \in Members /\ m # l /\ m # l.to
    BY <1>5, StartsOf
  <2> QED BY <1>9, <1>11, <2>1 DEF IInv, EntryRuns
<1>15. \A n \in Members : /\ run[n].status # "none" => run'[n].status # "none"
                          /\ run[n].status \in Terminal => run'[n].status \in Terminal
  BY <1>10, <1>11 DEF Terminal
<1>16. Fine(g, run')
  BY <1>1, <1>4, <1>5, <1>7, <1>11, <1>15 DEF Fine
<1>17. \A n \in Members : run'[n].status = "none" =>
          ~run'[n].tagged /\ row'[n] = "none" /\ (canceler' # Idle => n \notin canceler'.todo)
  <2> SUFFICES ASSUME NEW n \in Members, run'[n].status = "none"
               PROVE  ~run'[n].tagged /\ row'[n] = "none" /\ (canceler' # Idle => n \notin canceler'.todo)
    OBVIOUS
  <2>1. run'[n] = run[n]
    BY <1>11
  <2> QED BY <1>3, <2>1 DEF IInv, Unborn
<1> QED BY <1>3, <1>9, <1>12, <1>13, <1>14, <1>15, <1>16, <1>17, Moves

\* create_run of a chained pipeline.
LEMMA CreatePipelineStep ==
    ASSUME IInv, NEW e \in Engines, create_run(e), eng[e].link \notin Links
    PROVE  IInv'
<1>0. Typed
  BY IInvTyped
<1>1. eng[e] # Idle /\ eng[e].phase = "create"
  BY DEF create_run, Idle
<1>2. /\ eng[e] \in DriveState /\ eng[e].of \in Members /\ Fine(eng[e], run)
      /\ run[eng[e].of].status # "none" /\ run[eng[e].of].status \in Terminal
  BY <1>1, Driving
<1>3. PICK l \in Triggers : l = eng[e].link /\ Creates(eng[e], l)
  BY <1>1, <1>2 DEF Fine, Creates
<1>4. PICK p \in {"chain", "pipelines"} : p = After(l)
  BY DEF After
<1>5. /\ started' = [started EXCEPT ![l] = Once(@)]
      /\ eng' = [eng EXCEPT ![e].phase = p, ![e].link = NoLink]
      /\ UNCHANGED <<pipeline, run, row, fired, starter, canceler, controls, faults>>
  BY <1>3, <1>4 DEF create_run
<1>6. PICK g : g = [eng[e] EXCEPT !.phase = p, !.link = NoLink]
  OBVIOUS
<1>7. g \in DriveState /\ g.of = eng[e].of /\ g.phase = p
  BY <1>2, <1>6 DEF DriveState, DrivePhases
<1>8. eng' = [eng EXCEPT ![e] = g]
  BY <1>0, <1>5, <1>6 DEF Typed
<1>9. /\ eng' \in [Engines -> {Idle} \cup DriveState]
      /\ eng'[e] = g /\ \A d \in Engines \ {e} : eng'[d] = eng[d]
      /\ started' \in [Starts -> 0..2] /\ StartedOnce' /\ StartedByOne'
      /\ \A s \in Starts \ {l} : started'[s] = started[s]
      /\ \A m \in Members : row[m] \in Engines => eng'[row[m]] # Idle /\ eng'[row[m]].of = m
  <2>1. g.phase # "create" /\ UNCHANGED fired
    BY <1>5, <1>7
  <2>2. started' = [started EXCEPT ![l] = Once(@)]
    BY <1>5
  <2> QED BY <1>3, <1>7, <1>8, <2>1, <2>2, CreateMoves, Zenon
<1>10. Typed'
  BY <1>0, <1>5, <1>9 DEF Typed
<1>11. LinkRuns'
  <2>1. \A k \in Links : k \in Starts /\ k # l
    BY <1>3, StartsOf DEF Triggers
  <2> QED BY <1>5, <1>9, <2>1 DEF IInv, LinkRuns
<1>12. EntryRuns'
  <2>1. \A m \in Entry : m \in Starts /\ m # l
    BY <1>3, StartsOf
  <2> QED BY <1>5, <1>9, <2>1 DEF IInv, EntryRuns
<1>13. Fine(g, run')
  BY <1>2, <1>5, <1>7 DEF Fine
<1>14. \A n \in Members : run[n].status = "none" =>
          ~run[n].tagged /\ row[n] = "none" /\ (canceler # Idle => n \notin canceler.todo)
  BY DEF IInv, Unborn
<1> QED BY <1>5, <1>9, <1>10, <1>11, <1>12, <1>13, <1>14, Moves

-------------------------------------------------------------------------------
LEMMA EngineInv == ASSUME IInv, NEW e \in Engines, EngineStep(e) PROVE IInv'
<1>1. ASSUME NEW m \in Members, Drive(e, m) PROVE IInv'
  BY <1>1, DriveStep
<1>2. ASSUME NEW l \in Links \cup Downstream, try_record_trigger_firing(e, l) PROVE IInv'
  BY <1>2, FireStep DEF Triggers
<1>3. CASE process_ready_node(e) \/ end_run(e)
  BY <1>3, ProcessStep, EndStep
<1>4. CASE create_run(e)
  BY <1>4, CreateMemberStep, CreatePipelineStep
<1>5. CASE tag_run(e) \/ enqueue_start(e)
  BY <1>5, TagStep, EnqueueStep
<1>6. CASE settle_read(e) \/ settle_write(e) \/ complete(e)
  BY <1>6, SettleStep
<1> QED BY <1>1, <1>2, <1>3, <1>4, <1>5, <1>6 DEF EngineStep

LEMMA StepIInv == ASSUME IInv, [Next]_vars PROVE IInv'
<1>1. CASE StarterStep
  BY <1>1, PipelineStep, MemberStep DEF StarterStep
<1>2. CASE CancelStep \/ OperatorStep
  BY <1>2, OperatorMoves
<1>3. ASSUME NEW e \in Engines, EngineStep(e) PROVE IInv'
  BY <1>3, EngineInv
<1>4. CASE Faulty
  BY <1>4, PipelineStep, FailStep, CrashStep, LateRowStep DEF Faulty
<1>5. CASE UNCHANGED vars
  <2>1. UNCHANGED <<pipeline, run, row, fired, started, starter, canceler, eng, controls, faults>>
    BY <1>5 DEF vars
  <2>2. Typed'
    BY <2>1, IInvTyped DEF Typed
  <2> QED BY <2>1, <2>2, CancelerKnows, NothingMoves
<1> QED BY <1>1, <1>2, <1>3, <1>4, <1>5 DEF Next, Quiet

\* The inductive invariant holds in every reachable state.
THEOREM Invariance == Spec => []IInv
<1>1. Init => IInv
  BY InitIInv
<1>2. IInv /\ [Next]_vars => IInv'
  BY StepIInv
<1> QED BY <1>1, <1>2, PTL DEF Spec

\* Every variable keeps its type; a claimed row belongs to the replica that drives its
\* run, and a replica is in the hook of a run only once the run has ended.
THEOREM TypeCorrect == Spec => []TypeOK
<1>1. IInv => TypeOK
  BY DEF IInv
<1> QED BY <1>1, Invariance, PTL

\* For any graph of members and chained pipelines and any number of replicas: the insert
\* of the firing row is enough for a chained trigger to start its target once per source
\* run, however often and by whomever the hook of that run is run, and an entry member
\* is started once.
THEOREM StartedAtMostOnce == Spec => []StartedOnce
<1>1. IInv => StartedOnce
  BY DEF IInv
<1> QED BY <1>1, Invariance, PTL

===============================================================================
