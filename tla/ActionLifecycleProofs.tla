------------------------- MODULE ActionLifecycleProofs -------------------------
(***************************************************************************)
(* Proofs about one action node, for any number of engines, workers,       *)
(* attempts, crashes, lapsed leases and failed calls.                      *)
(*                                                                         *)
(* That the action is executed by one worker at a time and that a run that *)
(* fails has used its attempts holds for any number of engines.  That no   *)
(* attempt past the limit is dispatched and that a run that has ended      *)
(* stays ended is about one drive at a time: a second drive with an old    *)
(* snapshot breaks both.                                                   *)
(***************************************************************************)
EXTENDS ActionLifecycle, TLAPS

Drives == {NoDrive} \cup Reading \cup Decision
RowStates == {"none", "later", "due"} \cup Engines

\* What a drive that has read the node run may rely on.
Sound(d, out, irr) ==
    /\ \A a \in 1..d.attempt : out[a] # "none"
    /\ d.phase \in {"dispatch", "mark"} => d.attempt + 1 \in Attempts
    /\ d.phase = "mark" => out[d.attempt + 1] # "none"
    /\ d.phase \in {"settle", "end_run"} =>
          d.status \in Terminal /\ (d.status \in Retryable => d.attempt >= MaxAttempts)
    /\ d.phase = "release" => d.status = "timed_out" /\ (d.holder \in Workers => irr)

DecisionsSound == \A e \in Engines : eng[e] \in Decision => Sound(eng[e], outbox, irregular)

\* Every attempt up to the one on record has been dispatched.
AttemptsDispatched == \A a \in 1..nodeRun.attempt : outbox[a] # "none"

\* A task past its claim is the only one, it has the lease on the node run, and its
\* worker has left no lease behind.
OneClaimed(ts, holder, own) ==
    /\ \A s, t \in ts : s.phase # "received" /\ t.phase # "received" => s = t
    /\ \A t \in ts : t.phase # "received" => holder = t.worker /\ own[t.worker] = 0

ClaimIsExclusive == ~irregular => OneClaimed(tasks, nodeRun.holder, owed)

\* A task publishes what its execution came to.
OutcomesKnown == \A t \in tasks : t.phase = "publishing" => t.outcome \in {"succeeded", "failed"}

IInv == /\ TypeOK /\ DecisionsSound /\ AttemptsDispatched
        /\ ClaimIsExclusive /\ OutcomesKnown /\ FailureIsEarned

\* One drive at a time: what it read is still so.
OneDrive == \A d, e \in Engines : d = e

SnapshotHolds ==
    \A e \in Engines : eng[e] \in Decision =>
        /\ eng[e].phase # "complete" => run \notin Terminal
        /\ eng[e].phase \in {"dispatch", "mark", "release", "requeue"} =>
              eng[e].attempt = nodeRun.attempt
        /\ eng[e].phase \in {"dispatch", "mark", "requeue"} => eng[e].attempt < MaxAttempts

\* A node run that is to be dispatched has an attempt left.
AttemptLeft == nodeRun.status \in {"none", "queued"} => nodeRun.attempt < MaxAttempts

OInv == SnapshotHolds /\ AttemptLeft /\ AttemptsBounded

-------------------------------------------------------------------------------
LEMMA InitIInv == Init => IInv /\ OInv
<1> SUFFICES ASSUME Init PROVE IInv /\ OInv
  OBVIOUS
<1> USE LimitsAssumption DEF Init
<1>1. TypeOK
  <2>1. nodeRun \in NodeRun
    BY DEF NodeRun, NodeStatus, Holders
  <2>2. ready \in [Sorts -> {"none", "later", "due"} \cup Engines] /\ ClaimsAreDriven
    BY EnginesAssumption DEF Sorts, ClaimsAreDriven
  <2>3. owed \in [Workers -> 0..(MaxAttempts + 2)] /\ faults \in 0..MaxFaults
    OBVIOUS
  <2> QED BY <2>1, <2>2, <2>3 DEF TypeOK, RunStatus
<1>2. \A e \in Engines : eng[e] \notin Decision
  BY DEF NoDrive, Decision, Phases
<1> QED BY <1>1, <1>2 DEF IInv, OInv, DecisionsSound, AttemptsDispatched, ClaimIsExclusive, OneClaimed,
          OutcomesKnown, FailureIsEarned, Retryable, SnapshotHolds, AttemptLeft, AttemptsBounded, Attempts

-------------------------------------------------------------------------------
(***************************************************************************)
(* Drives and rows.                                                        *)
(***************************************************************************)
\* A drive in a phase other than the first has decided on something.
LEMMA Decisive ==
    ASSUME TypeOK, NEW e \in Engines, eng[e] # NoDrive, eng[e].phase # "read"
    PROVE  eng[e] \in Decision
  BY DEF TypeOK, Reading

\* A drive goes on to another phase with what it has decided on.
LEMMA Moving ==
    ASSUME TypeOK, NEW e \in Engines, eng[e] # NoDrive, eng[e].phase # "read",
           NEW p \in Phases \ {"read"}
    PROVE  LET new == [eng[e] EXCEPT !.phase = p]
           IN /\ new \in Decision /\ new.phase = p /\ new.sort = eng[e].sort
              /\ new.attempt = eng[e].attempt /\ new.status = eng[e].status
              /\ new.holder = eng[e].holder /\ new # NoDrive
              /\ [eng EXCEPT ![e].phase = p] = [eng EXCEPT ![e] = new]
<1>1. eng[e] \in Decision
  BY Decisive
<1> DEFINE new == [eng[e] EXCEPT !.phase = p]
<1>2. /\ new \in Decision /\ new.phase = p /\ new.sort = eng[e].sort
      /\ new.attempt = eng[e].attempt /\ new.status = eng[e].status
      /\ new.holder = eng[e].holder
  BY <1>1 DEF Decision
<1>3. new # NoDrive
  BY <1>2 DEF NoDrive, Phases
<1>4. [eng EXCEPT ![e].phase = p] = [eng EXCEPT ![e] = new]
  BY DEF TypeOK
<1> QED BY <1>2, <1>3, <1>4

\* Rows that are enqueued are nobody's, and the others stay whose they are.
LEMMA EnqueuedRows ==
    ASSUME TypeOK, NEW sort \in Sorts
    PROVE  /\ Enqueued(sort) \in [Sorts -> RowStates]
           /\ \A k \in Sorts : Enqueued(sort)[k] \notin Engines
  BY EnginesAssumption DEF TypeOK, Enqueued, RowStates

\* Faults are counted up to their bound.
LEMMA FaultCounted ==
    ASSUME TypeOK, Fault \/ UNCHANGED faults
    PROVE  faults' \in 0..MaxFaults
  BY LimitsAssumption DEF TypeOK, Fault

\* A drive goes on or ends, and writes no attempt, no holder and no dispatch.
LEMMA DriveMoves ==
    ASSUME IInv, NEW e \in Engines, eng[e] # NoDrive,
           NEW new \in Drives, eng' = [eng EXCEPT ![e] = new],
           new # NoDrive => new.sort = eng[e].sort,
           new \in Decision => Sound(new, outbox, irregular'),
           nodeRun' \in NodeRun,
           nodeRun'.holder = nodeRun.holder, nodeRun'.attempt = nodeRun.attempt,
           run' \in RunStatus,
           run' \in Retryable => outbox[MaxAttempts] # "none" \/ irregular',
           ready' \in [Sorts -> RowStates],
           \A k \in Sorts : ready'[k] \in Engines =>
               ready'[k] = ready[k] /\ (new = NoDrive => ready'[k] # e),
           irregular' \in BOOLEAN, irregular => irregular',
           Fault \/ UNCHANGED faults,
           UNCHANGED <<outbox, message, tasks, owed, events>>
    PROVE  IInv'
<1>1. /\ eng' \in [Engines -> Drives] /\ eng'[e] = new
      /\ \A d \in Engines : d # e => eng'[d] = eng[d]
  BY DEF IInv, TypeOK, Drives
<1>2. ClaimsAreDriven'
  BY <1>1 DEF IInv, TypeOK, ClaimsAreDriven
<1>3. TypeOK'
  BY <1>1, <1>2, FaultCounted DEF IInv, TypeOK, Drives, RowStates
<1>4. DecisionsSound'
  <2> SUFFICES ASSUME NEW d \in Engines, eng'[d] \in Decision
               PROVE  Sound(eng'[d], outbox, irregular')
    BY DEF DecisionsSound
  <2>1. CASE d = e
    BY <1>1, <2>1
  <2>2. CASE d # e
    BY <1>1, <2>2 DEF IInv, DecisionsSound, Sound
  <2> QED BY <2>1, <2>2
<1>5. AttemptsDispatched'
  BY DEF IInv, AttemptsDispatched
<1>6. ClaimIsExclusive' /\ OutcomesKnown'
  BY DEF IInv, ClaimIsExclusive, OneClaimed, OutcomesKnown
<1>7. FailureIsEarned'
  BY DEF FailureIsEarned
<1> QED BY <1>3, <1>4, <1>5, <1>6, <1>7 DEF IInv

-------------------------------------------------------------------------------
(***************************************************************************)
(* The steps of the reducer.                                               *)
(***************************************************************************)
LEMMA DriveStep ==
    ASSUME IInv, NEW e \in Engines, NEW k \in Sorts, Drive(e, k)
    PROVE  IInv'
<1> DEFINE new == [phase |-> "read", sort |-> k]
<1>1. /\ eng[e] = NoDrive /\ ready' = [ready EXCEPT ![k] = e]
      /\ ready[k] = "due" /\ eng' = [eng EXCEPT ![e] = new]
      /\ run' = (IF run = "queued" THEN "running" ELSE run)
      /\ UNCHANGED <<nodeRun, outbox, message, tasks, owed, events, irregular, faults>>
  BY DEF Drive
<1>2. new \in Reading /\ new.sort = k /\ new.phase = "read"
  BY DEF Reading
<1> HIDE DEF new
<1>3. new # NoDrive /\ new \notin Decision
  BY <1>2 DEF NoDrive, Decision
<1>4. /\ eng' \in [Engines -> Drives] /\ eng'[e] = new
      /\ \A d \in Engines : d # e => eng'[d] = eng[d]
  BY <1>1, <1>2 DEF IInv, TypeOK, Drives
<1>5. /\ ready' \in [Sorts -> RowStates] /\ ready'[k] = e
      /\ \A j \in Sorts : j # k => ready'[j] = ready[j]
  BY <1>1 DEF IInv, TypeOK, RowStates
<1>6. ClaimsAreDriven'
  <2> SUFFICES ASSUME NEW j \in Sorts, ready'[j] \in Engines
               PROVE  eng'[ready'[j]] # NoDrive /\ eng'[ready'[j]].sort = j
    BY DEF ClaimsAreDriven
  <2>1. CASE j = k
    BY <1>2, <1>3, <1>4, <1>5, <2>1
  <2>2. CASE j # k
    BY <1>1, <1>4, <1>5, <2>2 DEF IInv, TypeOK, ClaimsAreDriven
  <2> QED BY <2>1, <2>2
<1>7. run' \in RunStatus
  BY <1>1 DEF IInv, TypeOK, RunStatus
<1>8. TypeOK'
  BY <1>1, <1>4, <1>5, <1>6, <1>7 DEF IInv, TypeOK, Drives, RowStates
<1>9. DecisionsSound'
  BY <1>1, <1>3, <1>4 DEF IInv, DecisionsSound
<1>10. (AttemptsDispatched /\ ClaimIsExclusive /\ OutcomesKnown)'
  BY <1>1 DEF IInv, AttemptsDispatched, ClaimIsExclusive, OneClaimed, OutcomesKnown
<1>11. FailureIsEarned'
  BY <1>1 DEF IInv, FailureIsEarned, Retryable
<1> QED BY <1>8, <1>9, <1>10, <1>11 DEF IInv

\* What a drive decides on when it reads the node run.
LEMMA ReadStep ==
    ASSUME IInv, NEW e \in Engines, read(e)
    PROVE  IInv'
<1>1. eng[e] # NoDrive /\ eng[e].phase = "read" /\ UNCHANGED <<run, ready, outbox, message, tasks, owed, events>>
  BY DEF read, NoDrive
<1>2. eng[e].sort \in Sorts
  <2>1. eng[e] \notin Decision
    BY <1>1 DEF Decision
  <2> QED BY <1>1, <2>1 DEF IInv, TypeOK, Reading
<1>3. nodeRun \in NodeRun
  BY DEF IInv, TypeOK
<1> DEFINE decided(phase, status) ==
      [phase |-> phase, sort |-> eng[e].sort, attempt |-> nodeRun.attempt, status |-> status,
       holder |-> IF phase = "release" THEN nodeRun.holder ELSE Nobody,
       before |-> <<run, nodeRun.status>>]
<1>4. ASSUME NEW phase \in Phases \ {"read"}, NEW status \in Terminal \cup {"none"}
      PROVE  /\ decided(phase, status) \in Decision
             /\ decided(phase, status).phase = phase /\ decided(phase, status).sort = eng[e].sort
             /\ decided(phase, status).attempt = nodeRun.attempt
             /\ decided(phase, status).status = status
             /\ decided(phase, status).holder \in {nodeRun.holder, Nobody}
  <2>1. <<run, nodeRun.status>> \in RunStatus \X NodeStatus
    BY <1>3 DEF IInv, TypeOK, NodeRun
  <2>2. (IF phase = "release" THEN nodeRun.holder ELSE Nobody) \in Holders
    BY <1>3 DEF NodeRun, Holders
  <2> QED BY <1>2, <1>3, <2>1, <2>2 DEF NodeRun, Decision
<1>5. \A phase, status : Decided(e, phase, status) = [eng EXCEPT ![e] = decided(phase, status)]
  BY DEF Decided
<1> HIDE DEF decided
<1>6. PICK phase \in {"complete", "dispatch", "requeue", "settle", "release", "arm"},
           status \in Terminal \cup {"none"} :
        /\ eng' = Decided(e, phase, status)
        /\ nodeRun' = (IF phase = "dispatch" THEN [nodeRun EXCEPT !.status = "queued"] ELSE nodeRun)
        /\ phase = "dispatch" => nodeRun.attempt + 1 \in Attempts
        /\ phase = "settle" => status \in Terminal /\ (status \in Retryable => ~(nodeRun.attempt < MaxAttempts))
        /\ phase = "release" => status = "timed_out" /\ (nodeRun.holder = Former \/ irregular')
        /\ irregular' = irregular \/ irregular' = TRUE
        /\ Fault \/ UNCHANGED faults
  <2> USE <1>1 DEF read
  <2>1. CASE run \in Terminal /\ eng' = Decided(e, "complete", "none") /\ UNCHANGED <<nodeRun, irregular, faults>>
    BY <2>1
  <2>2. CASE /\ nodeRun.attempt + 1 \in Attempts /\ eng' = Decided(e, "dispatch", "none")
             /\ nodeRun' = [nodeRun EXCEPT !.status = "queued"] /\ UNCHANGED <<irregular, faults>>
    BY <2>2
  <2>3. ASSUME NEW status \in Terminal, eng' = Decided(e, AfterOutcome(status), status),
               UNCHANGED <<nodeRun, irregular, faults>>
        PROVE  \E phase \in {"requeue", "settle"} :
                 /\ eng' = Decided(e, phase, status)
                 /\ phase = "settle" => (status \in Retryable => ~(nodeRun.attempt < MaxAttempts))
    BY <2>3 DEF AfterOutcome
  <2>4. CASE /\ eng' = Decided(e, "release", "timed_out")
             /\ \/ nodeRun.holder = Former /\ UNCHANGED <<irregular, faults>>
                \/ Fault /\ irregular' = TRUE
             /\ UNCHANGED nodeRun
    BY <2>4 DEF Terminal
  <2>5. CASE eng' = Decided(e, "arm", "none") /\ UNCHANGED <<nodeRun, irregular, faults>>
    BY <2>5
  <2>6. CASE nodeRun.status \in Terminal /\ eng' = Decided(e, AfterOutcome(nodeRun.status), nodeRun.status)
             /\ UNCHANGED <<nodeRun, irregular, faults>>
    BY <2>3, <2>6
  <2>7. CASE eng' = Decided(e, AfterOutcome("timed_out"), "timed_out")
             /\ UNCHANGED <<nodeRun, irregular, faults>>
    <3>1. "timed_out" \in Terminal
      BY DEF Terminal
    <3> QED BY <2>3, <2>7, <3>1
  <2> QED BY <2>1, <2>2, <2>4, <2>5, <2>6, <2>7
<1> DEFINE new == decided(phase, status)
<1>7. /\ new \in Decision /\ new.phase = phase /\ new.sort = eng[e].sort
      /\ new.attempt = nodeRun.attempt /\ new.status = status
      /\ new.holder \in {nodeRun.holder, Nobody}
      /\ eng' = [eng EXCEPT ![e] = new]
  <2>1. phase \in Phases \ {"read"}
    BY DEF Phases
  <2> QED BY <1>4, <1>5, <1>6, <2>1
<1> HIDE DEF new
<1>8. Sound(new, outbox, irregular')
  <2>1. \A a \in 1..nodeRun.attempt : outbox[a] # "none"
    BY DEF IInv, AttemptsDispatched
  <2>2. phase = "settle" /\ status \in Retryable => nodeRun.attempt >= MaxAttempts
    BY <1>3, <1>6, LimitsAssumption DEF NodeRun
  <2>3. phase = "release" /\ new.holder \in Workers => irregular'
    BY <1>6, <1>7, WorkersAssumption
  <2> QED BY <1>6, <1>7, <2>1, <2>2, <2>3 DEF Sound
<1>9. nodeRun' \in NodeRun /\ nodeRun'.holder = nodeRun.holder /\ nodeRun'.attempt = nodeRun.attempt
  BY <1>3, <1>6 DEF NodeRun, NodeStatus
<1>10. /\ run' \in RunStatus /\ ready' \in [Sorts -> RowStates]
       /\ irregular' \in BOOLEAN /\ (irregular => irregular')
       /\ run' \in Retryable => outbox[MaxAttempts] # "none" \/ irregular'
  <2>1. irregular \in BOOLEAN
    BY DEF IInv, TypeOK
  <2>2. irregular' \in BOOLEAN /\ (irregular => irregular')
    <3>1. CASE irregular' = irregular
      BY <2>1, <3>1
    <3>2. CASE irregular' = TRUE
      BY <3>2
    <3> QED BY <1>6, <3>1, <3>2
  <2>3. run' \in Retryable => outbox[MaxAttempts] # "none" \/ irregular'
    BY <1>1, <2>2 DEF IInv, FailureIsEarned
  <2> QED BY <1>1, <2>2, <2>3 DEF IInv, TypeOK, RowStates
<1>11. new \in Drives /\ new # NoDrive
  BY <1>7, <1>6 DEF Drives, NoDrive
<1> QED BY <1>1, <1>6, <1>7, <1>8, <1>9, <1>10, <1>11, DriveMoves

LEMMA DispatchStep ==
    ASSUME IInv, NEW e \in Engines, enqueue_action_dispatch(e)
    PROVE  IInv'
<1>1. /\ eng[e] # NoDrive /\ eng[e].phase = "dispatch"
      /\ eng' = [eng EXCEPT ![e].phase = "mark"]
      /\ UNCHANGED <<run, nodeRun, ready, message, tasks, owed, events, irregular, faults>>
  BY DEF enqueue_action_dispatch, NoDrive
<1>2. eng[e] \in Decision
  BY <1>1, Decisive DEF IInv
<1>3. PICK a \in Attempts : a = eng[e].attempt + 1
  BY <1>1, <1>2 DEF IInv, DecisionsSound, Sound
<1>4. outbox' = [outbox EXCEPT ![a] = IF @ = "none" THEN "pending" ELSE @]
  BY <1>3 DEF enqueue_action_dispatch
<1>5. /\ outbox' \in [Attempts -> {"none", "pending", "published"}] /\ outbox'[a] # "none"
      /\ \A b \in Attempts : outbox[b] # "none" => outbox'[b] # "none"
  BY <1>4 DEF IInv, TypeOK
<1> DEFINE new == [eng[e] EXCEPT !.phase = "mark"]
<1>6. /\ new \in Decision /\ new.phase = "mark" /\ new.sort = eng[e].sort
      /\ new.attempt = eng[e].attempt /\ new # NoDrive
      /\ eng' = [eng EXCEPT ![e] = new]
  <2>1. "mark" \in Phases \ {"read"}
    BY DEF Phases
  <2> QED BY <1>1, <2>1, Moving DEF IInv
<1> HIDE DEF new
<1>7. /\ eng' \in [Engines -> Drives] /\ eng'[e] = new
      /\ \A d \in Engines : d # e => eng'[d] = eng[d]
  BY <1>6 DEF IInv, TypeOK, Drives
<1>8. ClaimsAreDriven'
  BY <1>1, <1>6, <1>7 DEF IInv, TypeOK, ClaimsAreDriven
<1>9. TypeOK'
  BY <1>1, <1>5, <1>7, <1>8 DEF IInv, TypeOK, Drives
<1>10. \A n \in 0..(MaxAttempts + 1) : 1..n \subseteq Attempts
  BY LimitsAssumption DEF Attempts
<1>11. \A d \in Decision : Sound(d, outbox, irregular) => Sound(d, outbox', irregular')
  <2> SUFFICES ASSUME NEW d \in Decision, Sound(d, outbox, irregular)
               PROVE  Sound(d, outbox', irregular')
    OBVIOUS
  <2>1. d.attempt \in 0..(MaxAttempts + 1)
    BY DEF Decision
  <2> QED BY <1>1, <1>5, <1>10, <2>1 DEF Sound
<1>12. Sound(new, outbox', irregular')
  <2>1. Sound(eng[e], outbox', irregular')
    BY <1>2, <1>11 DEF IInv, DecisionsSound
  <2> QED BY <1>1, <1>3, <1>5, <1>6, <2>1 DEF Sound
<1>13. DecisionsSound'
  BY <1>7, <1>11, <1>12 DEF IInv, DecisionsSound
<1>14. AttemptsDispatched'
  BY <1>1, <1>5, <1>10 DEF IInv, AttemptsDispatched, TypeOK, NodeRun
<1>15. ClaimIsExclusive' /\ OutcomesKnown'
  BY <1>1 DEF IInv, ClaimIsExclusive, OneClaimed, OutcomesKnown
<1>16. FailureIsEarned'
  <2>1. MaxAttempts \in Attempts
    BY LimitsAssumption DEF Attempts
  <2> QED BY <1>1, <1>5, <2>1 DEF IInv, FailureIsEarned
<1> QED BY <1>9, <1>13, <1>14, <1>15, <1>16 DEF IInv

LEMMA MarkStep ==
    ASSUME IInv, NEW e \in Engines, mark_running(e)
    PROVE  IInv'
<1>1. /\ eng[e] # NoDrive /\ eng[e].phase = "mark" /\ run' = "running"
      /\ eng' = [eng EXCEPT ![e].phase = "arm"]
      /\ UNCHANGED <<ready, outbox, message, tasks, owed, events, irregular, faults>>
  BY DEF mark_running, NoDrive
<1>2. eng[e] \in Decision
  BY <1>1, Decisive DEF IInv
<1>3. PICK a \in Attempts : a = eng[e].attempt + 1
  BY <1>1, <1>2 DEF IInv, DecisionsSound, Sound
<1>4. nodeRun' = [nodeRun EXCEPT !.status = "running", !.attempt = a, !.late = FALSE]
  BY <1>3 DEF mark_running
<1>5. nodeRun' \in NodeRun /\ nodeRun'.attempt = a /\ nodeRun'.holder = nodeRun.holder
  <2>1. a \in 0..(MaxAttempts + 1)
    BY LimitsAssumption DEF Attempts
  <2> QED BY <1>4, <2>1 DEF IInv, TypeOK, NodeRun, NodeStatus
<1> DEFINE new == [eng[e] EXCEPT !.phase = "arm"]
<1>6. /\ new \in Decision /\ new.phase = "arm" /\ new.sort = eng[e].sort
      /\ new.attempt = eng[e].attempt /\ new # NoDrive
      /\ eng' = [eng EXCEPT ![e] = new]
  <2>1. "arm" \in Phases \ {"read"}
    BY DEF Phases
  <2> QED BY <1>1, <2>1, Moving DEF IInv
<1> HIDE DEF new
<1>7. /\ eng' \in [Engines -> Drives] /\ eng'[e] = new
      /\ \A d \in Engines : d # e => eng'[d] = eng[d]
  BY <1>6 DEF IInv, TypeOK, Drives
<1>8. ClaimsAreDriven'
  BY <1>1, <1>6, <1>7 DEF IInv, TypeOK, ClaimsAreDriven
<1>9. TypeOK'
  BY <1>1, <1>5, <1>7, <1>8 DEF IInv, TypeOK, Drives, RunStatus
<1>10. Sound(eng[e], outbox, irregular)
  BY <1>2 DEF IInv, DecisionsSound
<1>11. Sound(new, outbox, irregular)
  BY <1>6, <1>10 DEF Sound
<1>12. DecisionsSound'
  BY <1>1, <1>7, <1>11 DEF IInv, DecisionsSound
<1>13. AttemptsDispatched'
  <2> SUFFICES ASSUME NEW b \in 1..a PROVE outbox[b] # "none"
    BY <1>1, <1>5 DEF AttemptsDispatched
  <2>1. eng[e].attempt \in Nat
    BY <1>2 DEF Decision
  <2>2. b = a \/ b \in 1..eng[e].attempt
    BY <1>3, <2>1
  <2> QED BY <1>1, <1>3, <1>10, <2>2 DEF Sound
<1>14. ClaimIsExclusive' /\ OutcomesKnown' /\ FailureIsEarned'
  BY <1>1, <1>5 DEF IInv, ClaimIsExclusive, OneClaimed, OutcomesKnown, FailureIsEarned, Retryable
<1> QED BY <1>9, <1>12, <1>13, <1>14 DEF IInv

LEMMA ReleaseHolderStep ==
    ASSUME IInv, NEW e \in Engines, release_dead_holder(e)
    PROVE  IInv'
<1> DEFINE p == IF eng[e].attempt < MaxAttempts THEN "requeue" ELSE "settle"
           new == [eng[e] EXCEPT !.phase = p]
<1>1. /\ eng[e] # NoDrive /\ eng[e].phase = "release"
      /\ eng' = [eng EXCEPT ![e].phase = p]
      /\ nodeRun' = [nodeRun EXCEPT !.holder = IF @ = eng[e].holder THEN Nobody ELSE @]
      /\ UNCHANGED <<run, ready, outbox, message, tasks, owed, events, irregular, faults>>
  BY DEF release_dead_holder, NoDrive
<1>2. eng[e] \in Decision /\ p \in {"requeue", "settle"}
  BY <1>1, Decisive DEF IInv
<1>3. /\ new \in Decision /\ new.phase = p /\ new.sort = eng[e].sort
      /\ new.attempt = eng[e].attempt /\ new.status = eng[e].status /\ new # NoDrive
      /\ eng' = [eng EXCEPT ![e] = new]
  <2>1. p \in Phases \ {"read"}
    BY <1>2 DEF Phases
  <2> HIDE DEF p
  <2> QED BY <1>1, <2>1, Moving DEF IInv
<1>4. p = "settle" => eng[e].attempt >= MaxAttempts
  BY <1>2, LimitsAssumption DEF Decision
<1> HIDE DEF new, p
<1>5. nodeRun' \in NodeRun /\ nodeRun'.attempt = nodeRun.attempt
  BY <1>1 DEF IInv, TypeOK, NodeRun, Holders
<1>6. nodeRun'.holder = nodeRun.holder \/ nodeRun.holder = eng[e].holder
  BY <1>1 DEF IInv, TypeOK, NodeRun
<1>7. /\ eng' \in [Engines -> Drives] /\ eng'[e] = new
      /\ \A d \in Engines : d # e => eng'[d] = eng[d]
  BY <1>3 DEF IInv, TypeOK, Drives
<1>8. ClaimsAreDriven'
  BY <1>1, <1>3, <1>7 DEF IInv, TypeOK, ClaimsAreDriven
<1>9. TypeOK'
  BY <1>1, <1>5, <1>7, <1>8 DEF IInv, TypeOK, Drives
<1>10. Sound(eng[e], outbox, irregular)
  BY <1>2 DEF IInv, DecisionsSound
<1>11. Sound(new, outbox, irregular)
  BY <1>1, <1>2, <1>3, <1>4, <1>10 DEF Sound, Terminal
<1>12. DecisionsSound' /\ AttemptsDispatched'
  BY <1>1, <1>5, <1>7, <1>11 DEF IInv, DecisionsSound, AttemptsDispatched
<1>13. ClaimIsExclusive'
  <2> SUFFICES ASSUME ~irregular
               PROVE  OneClaimed(tasks, nodeRun'.holder, owed)
    BY <1>1 DEF ClaimIsExclusive
  <2>1. OneClaimed(tasks, nodeRun.holder, owed)
    BY DEF IInv, ClaimIsExclusive
  <2>2. eng[e].holder \notin Workers
    BY <1>1, <1>10 DEF Sound
  <2>3. \A t \in tasks : t.worker \in Workers
    BY DEF IInv, TypeOK, Task
  <2> QED BY <1>6, <2>1, <2>2, <2>3 DEF OneClaimed
<1>14. OutcomesKnown' /\ FailureIsEarned'
  BY <1>1 DEF IInv, OutcomesKnown, FailureIsEarned
<1> QED BY <1>9, <1>12, <1>13, <1>14 DEF IInv

\* The writes of a decision that has been made: rows, the retry, or the end.
LEMMA OutcomeStep ==
    ASSUME IInv, NEW e \in Engines,
           arm(e) \/ requeue(e) \/ schedule_node_retry(e) \/ settle(e) \/ end_run(e)
    PROVE  IInv'
<1>1. /\ eng[e] # NoDrive /\ eng[e].phase \in {"arm", "requeue", "backoff", "settle", "end_run"}
      /\ UNCHANGED <<outbox, message, tasks, owed, events, irregular, faults>>
  BY DEF arm, requeue, schedule_node_retry, settle, end_run, NoDrive
<1>2. eng[e] \in Decision
  BY <1>1, Decisive DEF IInv
<1>3. Sound(eng[e], outbox, irregular)
  BY <1>2 DEF IInv, DecisionsSound
<1>4. PICK p \in {"complete", "backoff", "end_run"} :
        /\ eng' = [eng EXCEPT ![e].phase = p]
        /\ p = "end_run" => eng[e].phase = "settle"
  BY DEF arm, requeue, schedule_node_retry, settle, end_run
<1> DEFINE new == [eng[e] EXCEPT !.phase = p]
<1>5. /\ new \in Decision /\ new.phase = p /\ new.sort = eng[e].sort
      /\ new.attempt = eng[e].attempt /\ new.status = eng[e].status /\ new # NoDrive
      /\ eng' = [eng EXCEPT ![e] = new]
  <2>1. p \in Phases \ {"read"}
    BY DEF Phases
  <2> QED BY <1>1, <1>4, <2>1, Moving DEF IInv
<1> HIDE DEF new
<1>6. Sound(new, outbox, irregular)
  BY <1>3, <1>4, <1>5 DEF Sound
<1>7. nodeRun' \in NodeRun /\ nodeRun'.holder = nodeRun.holder /\ nodeRun'.attempt = nodeRun.attempt
  <2>1. nodeRun \in NodeRun
    BY DEF IInv, TypeOK
  <2>2. CASE UNCHANGED nodeRun
    BY <2>1, <2>2
  <2>3. CASE requeue(e)
    BY <2>1, <2>3 DEF requeue, NodeRun, NodeStatus
  <2>4. CASE settle(e)
    <3>1. eng[e].status \in NodeStatus
      BY <1>3, <2>4 DEF settle, Sound, NodeStatus
    <3> QED BY <2>1, <2>4, <3>1 DEF settle, NodeRun
  <2> QED BY <2>2, <2>3, <2>4 DEF arm, schedule_node_retry, end_run
<1>8. run' \in RunStatus /\ (run' \in Retryable => outbox[MaxAttempts] # "none" \/ irregular)
  <2>1. CASE end_run(e)
    <3>1. eng[e].phase = "end_run" /\ run' = eng[e].status
      BY <2>1 DEF end_run
    <3>2. eng[e].status \in Terminal /\ (eng[e].status \in Retryable => eng[e].attempt >= MaxAttempts)
      BY <1>3, <3>1 DEF Sound
    <3>3. eng[e].attempt \in Nat /\ (eng[e].attempt >= MaxAttempts => MaxAttempts \in 1..eng[e].attempt)
      BY <1>2, LimitsAssumption DEF Decision
    <3> QED BY <1>3, <3>1, <3>2, <3>3 DEF RunStatus, Sound
  <2>2. CASE schedule_node_retry(e)
    BY <2>2 DEF schedule_node_retry, RunStatus, Retryable
  <2>3. CASE UNCHANGED run
    BY <2>3 DEF IInv, TypeOK, FailureIsEarned
  <2> QED BY <2>1, <2>2, <2>3 DEF arm, requeue, settle
<1>9. /\ ready' \in [Sorts -> RowStates]
      /\ \A k \in Sorts : ready'[k] \in Engines => ready'[k] = ready[k]
  <2>1. CASE UNCHANGED ready
    BY <2>1 DEF IInv, TypeOK, RowStates
  <2>2. CASE ready' = Enqueued("timer")
    <3>1. "timer" \in Sorts
      BY DEF Sorts
    <3> QED BY <2>2, <3>1, EnqueuedRows DEF IInv
  <2>3. CASE ready' = [k \in Sorts |-> "none"]
    BY <2>3, EnginesAssumption DEF RowStates
  <2> QED BY <2>1, <2>2, <2>3 DEF arm, requeue, schedule_node_retry, settle, end_run
<1>10. irregular' \in BOOLEAN /\ (irregular => irregular') /\ new \in Drives
  BY <1>1, <1>5 DEF IInv, TypeOK, Drives
<1>11. Sound(new, outbox, irregular')
  BY <1>1, <1>6
<1>12. run' \in Retryable => outbox[MaxAttempts] # "none" \/ irregular'
  BY <1>1, <1>8
<1> QED BY <1>1, <1>5, <1>7, <1>8, <1>9, <1>10, <1>11, <1>12, DriveMoves

\* A drive reads again, or ends: with its row, by a crash, or by failing the run.
LEMMA EndStep ==
    ASSUME IInv, NEW e \in Engines, complete(e) \/ EngineCrash(e) \/ fail_driven_ready_node(e)
    PROVE  IInv'
<1>1. /\ eng[e] # NoDrive
      /\ UNCHANGED <<nodeRun, outbox, message, tasks, owed, events>>
  BY DEF complete, EngineCrash, fail_driven_ready_node, NoDrive
<1>2. PICK k \in Sorts : k = eng[e].sort
  BY <1>1 DEF IInv, TypeOK, Reading, Decision
<1> DEFINE reading == [phase |-> "read", sort |-> k]
<1>3. reading \in Reading /\ reading.sort = k /\ reading.phase = "read"
  BY DEF Reading
<1>4. PICK new \in {NoDrive, reading} :
        /\ eng' = [eng EXCEPT ![e] = new]
        /\ new # NoDrive => UNCHANGED ready
  BY <1>2 DEF complete, EngineCrash, fail_driven_ready_node
<1> HIDE DEF reading
<1>5. new \in Drives /\ new \notin Decision
  BY <1>3, <1>4 DEF Drives, NoDrive, Decision, Phases
<1>6. Fault \/ UNCHANGED faults
  BY DEF complete, EngineCrash, fail_driven_ready_node
<1>7. /\ nodeRun' \in NodeRun /\ nodeRun'.holder = nodeRun.holder
      /\ nodeRun'.attempt = nodeRun.attempt
  BY <1>1 DEF IInv, TypeOK
<1>8. CASE complete(e) \/ EngineCrash(e)
  <2>1. UNCHANGED <<run, irregular>>
    BY <1>8 DEF complete, EngineCrash
  <2>2. /\ ready' \in [Sorts -> RowStates]
        /\ \A j \in Sorts : ready'[j] \in Engines =>
               ready'[j] = ready[j] /\ (new = NoDrive => ready'[j] # e)
    <3>1. CASE UNCHANGED ready /\ new # NoDrive
      BY <3>1 DEF IInv, TypeOK, RowStates
    <3>2. CASE \E row \in {"none", "due"} : ready' = [ready EXCEPT ![k] = IF ready[k] = e THEN row ELSE ready[k]]
      <4>1. PICK row \in {"none", "due"} : ready' = [ready EXCEPT ![k] = IF ready[k] = e THEN row ELSE ready[k]]
        BY <3>2
      <4>2. row \notin Engines
        BY EnginesAssumption
      <4>3. \A j \in Sorts : ready[j] = e => j = k
        BY <1>2 DEF IInv, TypeOK, ClaimsAreDriven
      <4> QED BY <4>1, <4>2, <4>3 DEF IInv, TypeOK, RowStates
    <3>3. new = NoDrive =>
            \E row \in {"none", "due"} : ready' = [ready EXCEPT ![k] = IF ready[k] = e THEN row ELSE ready[k]]
      <4> SUFFICES ASSUME new = NoDrive
                   PROVE  \E row \in {"none", "due"} :
                            ready' = [ready EXCEPT ![k] = IF ready[k] = e THEN row ELSE ready[k]]
        OBVIOUS
      <4>1. CASE EngineCrash(e)
        BY <1>2, <4>1 DEF EngineCrash
      <4>2. CASE complete(e)
        <5>1. eng'[e] = NoDrive
          BY <1>4 DEF IInv, TypeOK
        <5>2. reading # NoDrive
          BY <1>3 DEF NoDrive
        <5>3. eng' # [eng EXCEPT ![e] = reading]
          BY <5>1, <5>2 DEF IInv, TypeOK
        <5> QED BY <1>2, <4>2, <5>3 DEF complete, reading
      <4> QED BY <1>8, <4>1, <4>2
    <3> QED BY <1>4, <3>1, <3>2, <3>3
  <2>3. run' \in RunStatus /\ irregular' \in BOOLEAN /\ (irregular => irregular')
    BY <2>1 DEF IInv, TypeOK
  <2>4. run' \in Retryable => outbox[MaxAttempts] # "none" \/ irregular'
    BY <2>1 DEF IInv, FailureIsEarned
  <2>5. new # NoDrive => new.sort = eng[e].sort
    BY <1>2, <1>3, <1>4
  <2> QED BY <1>1, <1>4, <1>5, <1>6, <1>7, <2>2, <2>3, <2>4, <2>5, DriveMoves
<1>9. CASE fail_driven_ready_node(e)
  <2>1. /\ run' = "failed" /\ irregular' = TRUE /\ ready' = [j \in Sorts |-> "none"]
    BY <1>9 DEF fail_driven_ready_node
  <2>2. run' \in RunStatus /\ irregular' \in BOOLEAN /\ irregular'
    BY <2>1 DEF RunStatus, Terminal
  <2>3. ready' \in [Sorts -> RowStates] /\ \A j \in Sorts : ready'[j] \notin Engines
    BY <2>1, EnginesAssumption DEF RowStates
  <2>4. new # NoDrive => new.sort = eng[e].sort
    BY <1>2, <1>3, <1>4
  <2> QED BY <1>1, <1>4, <1>5, <1>6, <1>7, <2>2, <2>3, <2>4, DriveMoves
<1> QED BY <1>8, <1>9

-------------------------------------------------------------------------------
(***************************************************************************)
(* Time, the dispatch outbox, the workers and the results.                 *)
(***************************************************************************)
Outboxes == [Attempts -> {"none", "pending", "published"}]
Messages == [Attempts -> {"absent", "queued", "leased"}]
Owings == [Workers -> 0..(MaxAttempts + 2)]

\* A step outside the reducer leaves the drives, the run and the attempt alone, and a
\* dispatch that is on record stays there.
LEMMA OutsideMoves ==
    ASSUME IInv, UNCHANGED <<run, eng>>,
           nodeRun' \in NodeRun, nodeRun'.attempt = nodeRun.attempt,
           ready' \in [Sorts -> RowStates],
           \A k \in Sorts : ready'[k] \in Engines => ready'[k] = ready[k],
           outbox' \in Outboxes, \A a \in Attempts : outbox[a] # "none" => outbox'[a] # "none",
           message' \in Messages, tasks' \subseteq Task, owed' \in Owings, events' \subseteq Event,
           irregular' \in BOOLEAN, irregular => irregular', Fault \/ UNCHANGED faults,
           ~irregular' => OneClaimed(tasks', nodeRun'.holder, owed'), OutcomesKnown'
    PROVE  IInv'
<1>1. ClaimsAreDriven'
  BY DEF IInv, TypeOK, ClaimsAreDriven
<1>2. TypeOK'
  BY <1>1, FaultCounted DEF IInv, TypeOK, RowStates, Outboxes, Messages, Owings
<1>3. \A n \in 0..(MaxAttempts + 1) : 1..n \subseteq Attempts
  BY LimitsAssumption DEF Attempts
<1>4. DecisionsSound'
  <2> SUFFICES ASSUME NEW e \in Engines, eng[e] \in Decision
               PROVE  Sound(eng[e], outbox', irregular')
    BY DEF DecisionsSound
  <2>1. Sound(eng[e], outbox, irregular) /\ eng[e].attempt \in 0..(MaxAttempts + 1)
    BY DEF IInv, DecisionsSound, Decision
  <2> QED BY <1>3, <2>1 DEF Sound
<1>5. AttemptsDispatched'
  BY <1>3 DEF IInv, AttemptsDispatched, TypeOK, NodeRun
<1>6. ClaimIsExclusive'
  BY DEF ClaimIsExclusive
<1>7. FailureIsEarned'
  <2>1. MaxAttempts \in Attempts
    BY LimitsAssumption DEF Attempts
  <2> QED BY <2>1 DEF IInv, FailureIsEarned
<1> QED BY <1>2, <1>4, <1>5, <1>6, <1>7 DEF IInv

\* What of the state a step outside the reducer need not touch.
LEMMA AsBefore ==
    ASSUME IInv
    PROVE  /\ nodeRun \in NodeRun /\ ready \in [Sorts -> RowStates]
           /\ outbox \in Outboxes /\ message \in Messages /\ tasks \subseteq Task
           /\ owed \in Owings /\ events \subseteq Event /\ irregular \in BOOLEAN
           /\ ~irregular => OneClaimed(tasks, nodeRun.holder, owed)
  BY DEF IInv, TypeOK, RowStates, Outboxes, Messages, Owings, ClaimIsExclusive

LEMMA TimeStep ==
    ASSUME IInv, Deadline \/ \E k \in Sorts : BecomeDue(k)
    PROVE  IInv'
<1>1. /\ UNCHANGED <<run, eng, outbox, message, tasks, owed, events, irregular, faults>>
      /\ \/ UNCHANGED nodeRun /\ \E k \in Sorts : ready' = [ready EXCEPT ![k] = "due"]
         \/ UNCHANGED ready /\ nodeRun' = [nodeRun EXCEPT !.late = TRUE]
  BY DEF Deadline, BecomeDue
<1>2. nodeRun' \in NodeRun /\ nodeRun'.attempt = nodeRun.attempt /\ nodeRun'.holder = nodeRun.holder
  BY <1>1, AsBefore DEF NodeRun
<1>3. /\ ready' \in [Sorts -> RowStates]
      /\ \A k \in Sorts : ready'[k] \in Engines => ready'[k] = ready[k]
  BY <1>1, AsBefore, EnginesAssumption DEF RowStates
<1>4. OutcomesKnown'
  BY <1>1 DEF IInv, OutcomesKnown
<1>5. ~irregular' => OneClaimed(tasks', nodeRun'.holder, owed')
  BY <1>1, <1>2, AsBefore
<1> QED BY <1>1, <1>2, <1>3, <1>4, <1>5, AsBefore, OutsideMoves

LEMMA PublishStep ==
    ASSUME IInv, NEW a \in Attempts, PublishDispatch(a)
    PROVE  IInv'
<1>1. /\ UNCHANGED <<run, nodeRun, ready, eng, tasks, owed, events, irregular>>
      /\ message' = [message EXCEPT ![a] = IF @ = "absent" THEN "queued" ELSE @]
      /\ \/ outbox' = [outbox EXCEPT ![a] = "published"] /\ UNCHANGED faults
         \/ Fault /\ UNCHANGED outbox
  BY DEF PublishDispatch
<1>2. message' \in Messages
  BY <1>1, AsBefore DEF Messages
<1>3. outbox' \in Outboxes /\ \A b \in Attempts : outbox[b] # "none" => outbox'[b] # "none"
  BY <1>1, AsBefore DEF Outboxes
<1>4. OutcomesKnown'
  BY <1>1 DEF IInv, OutcomesKnown
<1>5. ~irregular' => OneClaimed(tasks', nodeRun'.holder, owed')
  BY <1>1, AsBefore
<1> QED BY <1>1, <1>2, <1>3, <1>4, <1>5, AsBefore, OutsideMoves

\* An event changes the status alone; the drive that follows it claims no row.
LEMMA ResultStepKeeps ==
    ASSUME IInv, NEW ev \in events, ResultStep(ev)
    PROVE  IInv'
<1>1. UNCHANGED <<run, eng, outbox, message, tasks, owed, irregular>> /\ (Fault \/ UNCHANGED faults)
  BY DEF ResultStep, apply_workflow_result_event, enqueue_result_drive
<1>2. ev \in Event
  BY AsBefore
<1>3. nodeRun' \in NodeRun /\ nodeRun'.attempt = nodeRun.attempt /\ nodeRun'.holder = nodeRun.holder
  <2>1. ev.status \in NodeStatus
    BY <1>2 DEF Event, NodeStatus, Terminal
  <2> QED BY <2>1, AsBefore
          DEF ResultStep, apply_workflow_result_event, enqueue_result_drive, NodeRun
<1>4. events' \subseteq Event
  <2>1. [ev EXCEPT !.state = "applied"] \in Event
    BY <1>2 DEF Event
  <2> QED BY <2>1, AsBefore DEF ResultStep, apply_workflow_result_event, enqueue_result_drive
<1>5. /\ ready' \in [Sorts -> RowStates]
      /\ \A k \in Sorts : ready'[k] \in Engines => ready'[k] = ready[k]
  <2>1. "event" \in Sorts
    BY DEF Sorts
  <2>2. UNCHANGED ready \/ ready' = Enqueued("event")
    BY DEF ResultStep, apply_workflow_result_event, enqueue_result_drive
  <2> QED BY <2>1, <2>2, AsBefore, EnqueuedRows DEF IInv
<1>6. OutcomesKnown'
  BY <1>1 DEF IInv, OutcomesKnown
<1>7. ~irregular' => OneClaimed(tasks', nodeRun'.holder, owed')
  BY <1>1, <1>3, AsBefore
<1> QED BY <1>1, <1>3, <1>4, <1>5, <1>6, <1>7, AsBefore, OutsideMoves

\* A step of a worker writes the holder at most.
LEMMA WorkerMoves ==
    ASSUME IInv, UNCHANGED <<run, ready, eng, outbox>>,
           NEW h \in Holders, nodeRun' = [nodeRun EXCEPT !.holder = h],
           message' \in Messages, tasks' \subseteq Task, owed' \in Owings, events' \subseteq Event,
           irregular' \in BOOLEAN, irregular => irregular', Fault \/ UNCHANGED faults,
           ~irregular' => OneClaimed(tasks', h, owed'),
           \A t \in tasks' : t.phase = "publishing" => t.outcome \in {"succeeded", "failed"}
    PROVE  IInv'
<1>1. nodeRun' \in NodeRun /\ nodeRun'.attempt = nodeRun.attempt /\ nodeRun'.holder = h
  BY AsBefore DEF NodeRun
<1>2. OutcomesKnown'
  BY DEF OutcomesKnown
<1> QED BY <1>1, <1>2, AsBefore, OutsideMoves

\* The node run as a worker leaves it, told by its holder.
LEMMA HolderOnly ==
    ASSUME IInv
    PROVE  /\ nodeRun = [nodeRun EXCEPT !.holder = nodeRun.holder]
           /\ nodeRun.holder \in Holders
           /\ \A w \in Workers : \E h \in Holders : ReleasedBy(w) = [nodeRun EXCEPT !.holder = h]
<1>1. nodeRun \in NodeRun
  BY AsBefore
<1>2. nodeRun.holder \in Holders /\ Nobody \in Holders
  BY <1>1 DEF NodeRun, Holders
<1> QED BY <1>1, <1>2 DEF ReleasedBy, NodeRun

\* A task past its claim goes on: it is still the only one.
LEMMA ClaimedGoesOn ==
    ASSUME NEW ts, NEW h, NEW own, OneClaimed(ts, h, own), NEW t \in ts, t.phase # "received",
           NEW u, u.worker = t.worker
    PROVE  OneClaimed((ts \ {t}) \cup {u}, h, own)
  BY DEF OneClaimed

\* A task past its claim is over: no other is past its own.
LEMMA ClaimedIsOver ==
    ASSUME NEW ts, NEW h, NEW own, OneClaimed(ts, h, own), NEW t \in ts, t.phase # "received"
    PROVE  \A k, o : OneClaimed(ts \ {t}, k, o)
  BY DEF OneClaimed

\* Fewer tasks, or one that has just received its message.
LEMMA NotClaimed ==
    ASSUME NEW ts, NEW h, NEW own, OneClaimed(ts, h, own), NEW us,
           \A u \in us : u.phase # "received" => u \in ts
    PROVE  OneClaimed(us, h, own)
  BY DEF OneClaimed

LEMMA ReceiveStep ==
    ASSUME IInv, NEW w \in Workers, NEW a \in Attempts, Receive(w, a)
    PROVE  IInv'
<1> DEFINE new == [worker |-> w, attempt |-> a, live |-> TRUE, outcome |-> "none", phase |-> "received"]
<1>1. /\ UNCHANGED <<run, nodeRun, ready, eng, outbox, owed, events, irregular, faults>>
      /\ \E m \in {"absent", "leased"} : message' = [message EXCEPT ![a] = m]
      /\ tasks' = tasks \/ tasks' = tasks \cup {new}
  BY DEF Receive
<1>2. new \in Task /\ new.phase = "received"
  BY DEF Task, InFlight
<1> HIDE DEF new
<1>3. message' \in Messages /\ tasks' \subseteq Task
  BY <1>1, <1>2, AsBefore DEF Messages
<1>4. ~irregular' => OneClaimed(tasks', nodeRun.holder, owed')
  BY <1>1, <1>2, AsBefore, NotClaimed
<1>5. \A t \in tasks' : t.phase = "publishing" => t.outcome \in {"succeeded", "failed"}
  BY <1>1, <1>2 DEF IInv, OutcomesKnown
<1> QED BY <1>1, <1>3, <1>4, <1>5, AsBefore, HolderOnly, WorkerMoves

LEMMA ClaimStep ==
    ASSUME IInv, NEW t \in tasks, claim_executor(t)
    PROVE  IInv'
<1> DEFINE new == [t EXCEPT !.phase = "claimed"]
<1>1. /\ UNCHANGED <<run, ready, eng, outbox, message, events, irregular, faults>>
      /\ t.phase = "received" /\ nodeRun' = [nodeRun EXCEPT !.holder = t.worker]
      /\ owed' = [owed EXCEPT ![t.worker] = 0] /\ tasks' = (tasks \ {t}) \cup {new}
  BY DEF claim_executor, Moved
<1>2. t \in Task
  BY AsBefore
<1>3. new \in Task /\ new.worker = t.worker /\ new.phase = "claimed"
  BY <1>2 DEF Task, InFlight
<1> HIDE DEF new
<1>4. t.worker \in Workers /\ t.worker \in Holders
  BY <1>2 DEF Task, Holders
<1>5. owed' \in Owings /\ owed'[t.worker] = 0
  BY <1>1, <1>4, AsBefore, LimitsAssumption DEF Owings
<1>6. ~irregular => \A s \in tasks : s.phase = "received"
  <2> SUFFICES ASSUME ~irregular, NEW s \in tasks, s.phase # "received" PROVE FALSE
    OBVIOUS
  <2>1. nodeRun.holder = s.worker /\ owed[s.worker] = 0 /\ s.worker \in Workers
    BY AsBefore DEF OneClaimed, Task
  <2>2. nodeRun.holder # Nobody
    BY <2>1, WorkersAssumption
  <2>3. ~MayBeStale
    BY <2>1 DEF MayBeStale
  <2>4. ~Reclaimable(t)
    BY <1>2, <2>1 DEF Reclaimable, Task, Attempts
  <2> QED BY <2>2, <2>3, <2>4 DEF claim_executor
<1>7. ~irregular' => OneClaimed(tasks', t.worker, owed')
  BY <1>1, <1>3, <1>5, <1>6 DEF OneClaimed
<1>8. \A u \in tasks' : u.phase = "publishing" => u.outcome \in {"succeeded", "failed"}
  BY <1>1, <1>3 DEF IInv, OutcomesKnown
<1> QED BY <1>1, <1>2, <1>3, <1>4, <1>5, <1>7, <1>8, AsBefore, WorkerMoves

LEMMA FailOpenStep ==
    ASSUME IInv, NEW t \in tasks, claim_fails_open(t)
    PROVE  IInv'
<1> DEFINE new == [t EXCEPT !.phase = "claimed"]
<1>1. /\ UNCHANGED <<run, ready, eng, outbox, message, owed, events>> /\ Fault
      /\ irregular' = TRUE /\ tasks' = (tasks \ {t}) \cup {new}
      /\ UNCHANGED nodeRun \/ nodeRun' = ReleasedBy(t.worker)
  BY DEF claim_fails_open, Moved
<1>2. t \in Task /\ t.worker \in Workers
  BY AsBefore DEF Task
<1>3. new \in Task /\ new.phase = "claimed"
  BY <1>2 DEF Task, InFlight
<1> HIDE DEF new
<1>4. \A u \in tasks' : u.phase = "publishing" => u.outcome \in {"succeeded", "failed"}
  BY <1>1, <1>3 DEF IInv, OutcomesKnown
<1>5. PICK h \in Holders : nodeRun' = [nodeRun EXCEPT !.holder = h]
  BY <1>1, <1>2, HolderOnly
<1>6. tasks' \subseteq Task
  BY <1>1, <1>3, AsBefore
<1>7. irregular'
  BY <1>1
<1> QED BY <1>1, <1>4, <1>5, <1>6, <1>7, AsBefore, WorkerMoves

\* A task goes on past its claim, or is over.
LEMMA TaskStep ==
    ASSUME IInv, NEW t \in tasks,
           \/ drop_duplicate(t) \/ publish_running(t) \/ publish_terminal(t)
           \/ \E outcome \in {"succeeded", "failed"} : execute_task(t, outcome)
           \/ ack_delivery(t) \/ release_executor_lease(t) \/ nack_action_delivery(t)
    PROVE  IInv'
<1>1. t \in Task /\ t.worker \in Workers /\ t.attempt \in Attempts
  BY AsBefore DEF Task
<1>2. UNCHANGED <<run, ready, eng, outbox, irregular>> /\ (Fault \/ UNCHANGED faults)
  BY DEF drop_duplicate, publish_running, publish_terminal, execute_task, ack_delivery,
         release_executor_lease, nack_action_delivery
<1>3. PICK h \in Holders : nodeRun' = [nodeRun EXCEPT !.holder = h]
  BY <1>1, HolderOnly
     DEF drop_duplicate, publish_running, publish_terminal, execute_task, ack_delivery,
         release_executor_lease, nack_action_delivery
<1>4. message' \in Messages
  BY <1>1, AsBefore
     DEF drop_duplicate, publish_running, publish_terminal, execute_task, ack_delivery,
         release_executor_lease, nack_action_delivery, Acked, Messages
<1>5. owed' \in Owings
  <2>1. t.attempt + 1 \in 0..(MaxAttempts + 2) /\ t.attempt \in 0..(MaxAttempts + 2)
        /\ 0 \in 0..(MaxAttempts + 2)
    BY <1>1, LimitsAssumption DEF Attempts
  <2> QED BY <1>1, <2>1, AsBefore
          DEF drop_duplicate, publish_running, publish_terminal, execute_task, ack_delivery,
              release_executor_lease, nack_action_delivery, Owings
<1>6. events' \subseteq Event
  <2>1. CASE publish_terminal(t) \/ publish_running(t)
    <3>1. PICK status \in {"running", "succeeded", "failed"} : events' = Published(status, t.attempt)
      BY <2>1 DEF publish_terminal, publish_running, IInv, OutcomesKnown
    <3>2. [status |-> status, attempt |-> t.attempt, state |-> "queued"] \in Event
      BY <1>1 DEF Event
    <3> QED BY <3>1, <3>2, AsBefore DEF Published
  <2>2. CASE UNCHANGED events
    BY <2>2, AsBefore
  <2> QED BY <2>1, <2>2
          DEF drop_duplicate, execute_task, ack_delivery, release_executor_lease, nack_action_delivery
<1>7. CASE /\ tasks' = tasks \ {t}
           /\ t.phase = "received" => UNCHANGED <<nodeRun, owed>>
  <2>1. tasks' \subseteq Task /\ \A u \in tasks' : u.phase = "publishing" => u.outcome \in {"succeeded", "failed"}
    BY <1>7, AsBefore DEF IInv, OutcomesKnown
  <2>2. ~irregular' => OneClaimed(tasks', h, owed')
    <3>1. CASE t.phase = "received"
      <4>1. nodeRun.holder = h
        BY <1>3, <1>7, <3>1, AsBefore DEF NodeRun
      <4> QED BY <1>2, <1>7, <3>1, <4>1, AsBefore, NotClaimed
    <3>2. CASE t.phase # "received"
      BY <1>2, <1>7, <3>2, AsBefore, ClaimedIsOver
    <3> QED BY <3>1, <3>2
  <2> QED BY <1>2, <1>3, <1>4, <1>5, <1>6, <2>1, <2>2, AsBefore, WorkerMoves
<1>8. CASE \E u \in Task : /\ tasks' = (tasks \ {t}) \cup {u} /\ u.worker = t.worker
                           /\ u.phase = "publishing" => u.outcome \in {"succeeded", "failed"}
                           /\ t.phase # "received" /\ UNCHANGED <<nodeRun, owed>>
  <2>1. PICK u \in Task : /\ tasks' = (tasks \ {t}) \cup {u} /\ u.worker = t.worker
                          /\ u.phase = "publishing" => u.outcome \in {"succeeded", "failed"}
                          /\ t.phase # "received" /\ UNCHANGED <<nodeRun, owed>>
    BY <1>8
  <2>2. tasks' \subseteq Task /\ \A v \in tasks' : v.phase = "publishing" => v.outcome \in {"succeeded", "failed"}
    BY <2>1, AsBefore DEF IInv, OutcomesKnown
  <2>3. nodeRun.holder = h
    BY <1>3, <2>1, AsBefore DEF NodeRun
  <2>4. ~irregular' => OneClaimed(tasks', h, owed')
    BY <1>2, <2>1, <2>3, AsBefore, ClaimedGoesOn
  <2> QED BY <1>2, <1>3, <1>4, <1>5, <1>6, <2>2, <2>4, AsBefore, WorkerMoves
<1>9. ASSUME NEW p \in {"executing", "acking", "releasing"}
      PROVE  LET u == [t EXCEPT !.phase = p]
             IN u \in Task /\ u.worker = t.worker /\ u.phase = p
  BY <1>1 DEF Task, InFlight
<1>10. CASE \E p \in {"executing", "acking", "releasing"} :
              tasks' = Moved(t, p) /\ t.phase # "received" /\ UNCHANGED <<nodeRun, owed>>
  BY <1>8, <1>9, <1>10 DEF Moved
<1>11. ASSUME NEW outcome \in {"succeeded", "failed"}, execute_task(t, outcome) PROVE IInv'
  <2> DEFINE u == [t EXCEPT !.phase = "publishing", !.outcome = outcome]
  <2>1. u \in Task /\ u.worker = t.worker /\ u.outcome = outcome
    BY <1>1 DEF Task, Terminal
  <2>2. /\ tasks' = (tasks \ {t}) \cup {u} /\ t.phase # "received" /\ UNCHANGED <<nodeRun, owed>>
    BY <1>11 DEF execute_task
  <2> HIDE DEF u
  <2> QED BY <1>8, <2>1, <2>2
<1>12. CASE publish_running(t) \/ publish_terminal(t)
  BY <1>10, <1>12 DEF publish_running, publish_terminal
<1>13. CASE drop_duplicate(t) \/ release_executor_lease(t) \/ nack_action_delivery(t)
  BY <1>7, <1>13 DEF drop_duplicate, release_executor_lease, nack_action_delivery
<1>14. CASE ack_delivery(t)
  <2>1. t.phase = "acking" /\ UNCHANGED <<nodeRun, owed>> /\ (tasks' = Moved(t, "releasing") \/ tasks' = tasks \ {t})
    BY <1>14 DEF ack_delivery
  <2> QED BY <1>7, <1>10, <2>1
<1> QED BY <1>11, <1>12, <1>13, <1>14

LEMMA LapseStep ==
    ASSUME IInv, NEW a \in Attempts, MessageLapse(a)
    PROVE  IInv'
<1> DEFINE lapsed(t) == IF t.attempt = a THEN [t EXCEPT !.live = FALSE] ELSE t
<1>1. /\ UNCHANGED <<run, nodeRun, ready, eng, outbox, owed, events, irregular>>
      /\ message' = [message EXCEPT ![a] = "queued"] /\ (Fault \/ UNCHANGED faults)
      /\ tasks' = {lapsed(t) : t \in tasks}
  BY DEF MessageLapse
<1>2. \A t \in Task : /\ lapsed(t) \in Task /\ lapsed(t).phase = t.phase
                      /\ lapsed(t).worker = t.worker /\ lapsed(t).outcome = t.outcome
  BY DEF Task
<1> HIDE DEF lapsed
<1>3. tasks' \subseteq Task /\ \A t \in tasks : t \in Task
  BY <1>1, <1>2, AsBefore
<1>4. message' \in Messages
  BY <1>1, AsBefore DEF Messages
<1>5. ~irregular' => OneClaimed(tasks', nodeRun.holder, owed')
  BY <1>1, <1>2, <1>3, AsBefore DEF OneClaimed
<1>6. \A u \in tasks' : u.phase = "publishing" => u.outcome \in {"succeeded", "failed"}
  BY <1>1, <1>2, <1>3 DEF IInv, OutcomesKnown
<1> QED BY <1>1, <1>3, <1>4, <1>5, <1>6, AsBefore, HolderOnly, WorkerMoves

\* The tasks of a worker go with it; a drive that was about to take its lease away
\* now takes that of a former worker.
LEMMA WorkerCrashStep ==
    ASSUME IInv, NEW w \in Workers, WorkerCrash(w)
    PROVE  IInv'
<1>1. /\ UNCHANGED <<run, ready, outbox, message, events, irregular>> /\ Fault
      /\ tasks' = {t \in tasks : t.worker # w} /\ owed' = [owed EXCEPT ![w] = 0]
      /\ nodeRun' = [nodeRun EXCEPT !.holder = IF @ = w THEN Former ELSE @]
      /\ eng' = [e \in Engines |-> IF eng[e].phase = "release" /\ eng[e].holder = w
                                     THEN [eng[e] EXCEPT !.holder = Former] ELSE eng[e]]
  BY DEF WorkerCrash
<1>2. /\ nodeRun' \in NodeRun /\ nodeRun'.attempt = nodeRun.attempt
      /\ nodeRun'.holder = IF nodeRun.holder = w THEN Former ELSE nodeRun.holder
  BY <1>1, AsBefore DEF NodeRun, Holders
<1>3. owed' \in Owings /\ \A v \in Workers : owed[v] = 0 => owed'[v] = 0
  BY <1>1, AsBefore, LimitsAssumption DEF Owings
<1>4. \A e \in Engines :
        \/ eng'[e] = eng[e]
        \/ /\ eng[e] \in Decision /\ eng'[e] \in Decision /\ eng'[e].holder = Former
           /\ eng'[e].phase = eng[e].phase /\ eng'[e].sort = eng[e].sort
           /\ eng'[e].attempt = eng[e].attempt /\ eng'[e].status = eng[e].status
  <2> SUFFICES ASSUME NEW e \in Engines, eng[e].phase = "release", eng[e].holder = w
               PROVE  /\ eng[e] \in Decision /\ eng'[e] \in Decision /\ eng'[e].holder = Former
                      /\ eng'[e].phase = eng[e].phase /\ eng'[e].sort = eng[e].sort
                      /\ eng'[e].attempt = eng[e].attempt /\ eng'[e].status = eng[e].status
    BY <1>1
  <2>1. eng[e] # NoDrive
    BY DEF NoDrive
  <2>2. eng[e] \in Decision
    BY <2>1, Decisive DEF IInv
  <2>3. eng'[e] = [eng[e] EXCEPT !.holder = Former]
    BY <1>1
  <2> QED BY <2>2, <2>3 DEF Decision, Holders
<1>5. \A e \in Engines : eng[e] # NoDrive => eng'[e] # NoDrive /\ eng'[e].sort = eng[e].sort
  <2>1. NoDrive \notin Decision
    BY DEF NoDrive, Decision, Phases
  <2> QED BY <1>4, <2>1
<1>6. ClaimsAreDriven'
  BY <1>1, <1>5 DEF IInv, TypeOK, ClaimsAreDriven
<1>7. eng' \in [Engines -> Drives]
  <2>1. \A e \in Engines : eng'[e] \in Drives
    BY <1>4 DEF IInv, TypeOK, Drives
  <2> QED BY <1>1, <2>1
<1>8. TypeOK'
  BY <1>1, <1>2, <1>3, <1>6, <1>7, FaultCounted DEF IInv, TypeOK, Owings, Drives
<1>9. DecisionsSound'
  <2> SUFFICES ASSUME NEW e \in Engines, eng'[e] \in Decision
               PROVE  Sound(eng'[e], outbox, irregular)
    BY <1>1 DEF DecisionsSound
  <2>1. CASE eng'[e] = eng[e]
    BY <2>1 DEF IInv, DecisionsSound
  <2>2. CASE eng'[e] # eng[e]
    <3>1. Sound(eng[e], outbox, irregular)
      BY <1>4, <2>2 DEF IInv, DecisionsSound
    <3> QED BY <1>4, <2>2, <3>1, WorkersAssumption DEF Sound
  <2> QED BY <2>1, <2>2
<1>10. AttemptsDispatched' /\ OutcomesKnown' /\ FailureIsEarned'
  BY <1>1, <1>2 DEF IInv, AttemptsDispatched, OutcomesKnown, FailureIsEarned
<1>11. ClaimIsExclusive'
  <2>1. \A t \in tasks : t.worker \in Workers
    BY AsBefore DEF Task
  <2> QED BY <1>1, <1>2, <1>3, <2>1, AsBefore DEF ClaimIsExclusive, OneClaimed
<1> QED BY <1>8, <1>9, <1>10, <1>11 DEF IInv

-------------------------------------------------------------------------------
(***************************************************************************)
(* The theorems for any number of engines.                                 *)
(***************************************************************************)
LEMMA NextIInv == IInv /\ [Next]_vars => IInv'
<1> SUFFICES ASSUME IInv, [Next]_vars PROVE IInv'
  OBVIOUS
<1>1. CASE UNCHANGED vars
  BY <1>1 DEF vars, IInv, TypeOK, ClaimsAreDriven, DecisionsSound, AttemptsDispatched,
              ClaimIsExclusive, OutcomesKnown, FailureIsEarned
<1>2. ASSUME NEW e \in Engines, EngineStep(e) PROVE IInv'
  <2>1. CASE \E k \in Sorts : Drive(e, k)
    BY <2>1, DriveStep
  <2>2. CASE read(e) \/ enqueue_action_dispatch(e) \/ mark_running(e) \/ release_dead_holder(e)
    BY <2>2, ReadStep, DispatchStep, MarkStep, ReleaseHolderStep
  <2>3. CASE arm(e) \/ requeue(e) \/ schedule_node_retry(e) \/ settle(e) \/ end_run(e)
    BY <2>3, OutcomeStep
  <2>4. CASE complete(e)
    BY <2>4, EndStep
  <2> QED BY <1>2, <2>1, <2>2, <2>3, <2>4 DEF EngineStep
<1>3. CASE Deadline \/ \E k \in Sorts : BecomeDue(k)
  BY <1>3, TimeStep
<1>4. CASE \E a \in Attempts : PublishDispatch(a) \/ MessageLapse(a)
  BY <1>4, PublishStep, LapseStep
<1>5. CASE \E w \in Workers, a \in Attempts : Receive(w, a)
  BY <1>5, ReceiveStep
<1>6. CASE \E t \in tasks : WorkerStep(t)
  BY <1>6, ClaimStep, TaskStep DEF WorkerStep
<1>7. CASE \E ev \in events : ResultStep(ev)
  BY <1>7, ResultStepKeeps
<1>8. CASE Faulty
  BY <1>8, EndStep, WorkerCrashStep, FailOpenStep, TaskStep DEF Faulty
<1> QED BY <1>1, <1>2, <1>3, <1>4, <1>5, <1>6, <1>7, <1>8 DEF Next, Quiet

LEMMA Invariance == Spec => []IInv
<1>1. Init => IInv
  BY InitIInv
<1> QED BY <1>1, NextIInv, PTL DEF Spec

\* Types, and every claimed row is the row of the drive that claimed it.
THEOREM TypeCorrect == Spec => []TypeOK
<1>1. IInv => TypeOK
  BY DEF IInv
<1> QED BY <1>1, Invariance, PTL

\* claim_workflow_node_run_executor with OwnStaleLeases keeps two workers from executing
\* the action at once, however often its message is delivered and whoever crashes, unless
\* a claim failed open or a live worker was taken for dead.
THEOREM ExecutedByOne == Spec => []ExclusiveExecution
<1>1. IInv => ExclusiveExecution
  BY DEF IInv, ExclusiveExecution, ClaimIsExclusive, OneClaimed, TypeOK
<1> QED BY <1>1, Invariance, PTL

\* transition_from_node ends a run without success only when its last allowed attempt
\* has been dispatched, or when driving it hit an error.
THEOREM FailureEarned == Spec => []FailureIsEarned
<1>1. IInv => FailureIsEarned
  BY DEF IInv
<1> QED BY <1>1, Invariance, PTL

-------------------------------------------------------------------------------
(***************************************************************************)
(* One drive at a time: the drive that acts goes by a snapshot that still  *)
(* holds.                                                                  *)
(***************************************************************************)
\* Steps outside the reducer do not touch what a drive goes by.
LEMMA OutsideOInv ==
    ASSUME IInv, OInv,
           UNCHANGED run, nodeRun'.attempt = nodeRun.attempt,
           nodeRun'.status = nodeRun.status \/ nodeRun'.status \notin {"none", "queued"},
           outbox'[MaxAttempts + 1] = outbox[MaxAttempts + 1],
           \A e \in Engines : eng'[e] \in Decision =>
               /\ eng[e] \in Decision
               /\ eng'[e].phase = eng[e].phase /\ eng'[e].attempt = eng[e].attempt
    PROVE  OInv'
  BY DEF OInv, SnapshotHolds, AttemptLeft, AttemptsBounded

LEMMA OutsideStepOInv ==
    ASSUME IInv, OInv,
           \/ Deadline \/ \E k \in Sorts : BecomeDue(k)
           \/ \E a \in Attempts : PublishDispatch(a) \/ MessageLapse(a)
           \/ \E w \in Workers, a \in Attempts : Receive(w, a)
           \/ \E w \in Workers : WorkerCrash(w)
           \/ \E t \in tasks : WorkerStep(t) \/ claim_fails_open(t) \/ nack_action_delivery(t)
           \/ \E ev \in events : ResultStep(ev)
    PROVE  OInv'
<1>0. nodeRun \in NodeRun
  BY AsBefore
<1>1. CASE UNCHANGED <<run, eng, nodeRun, outbox>>
  BY <1>1, OutsideOInv
<1>2. CASE Deadline
  <2>1. nodeRun'.attempt = nodeRun.attempt /\ nodeRun'.status = nodeRun.status
    BY <1>0, <1>2 DEF Deadline, NodeRun
  <2> QED BY <1>2, <2>1, OutsideOInv DEF Deadline
<1>3. ASSUME NEW a \in Attempts, PublishDispatch(a) PROVE OInv'
  <2>1. outbox[a] = "pending" /\ UNCHANGED <<run, eng, nodeRun>>
        /\ (outbox' = [outbox EXCEPT ![a] = "published"] \/ UNCHANGED outbox)
    BY <1>3 DEF PublishDispatch, Unpublished
  <2>2. MaxAttempts + 1 # a
    BY <2>1 DEF OInv, AttemptsBounded
  <2>3. MaxAttempts + 1 \in Attempts
    BY LimitsAssumption DEF Attempts
  <2>4. outbox'[MaxAttempts + 1] = outbox[MaxAttempts + 1]
    BY <2>1, <2>2, <2>3, AsBefore DEF Outboxes
  <2> QED BY <2>1, <2>4, OutsideOInv
<1>4. ASSUME UNCHANGED <<run, eng, outbox>>, NEW h, nodeRun' = [nodeRun EXCEPT !.holder = h]
      PROVE  OInv'
  <2>1. nodeRun'.attempt = nodeRun.attempt /\ nodeRun'.status = nodeRun.status
    BY <1>0, <1>4 DEF NodeRun
  <2> QED BY <1>4, <2>1, OutsideOInv
<1>5. ASSUME NEW t \in tasks, WorkerStep(t) \/ claim_fails_open(t) \/ nack_action_delivery(t) PROVE OInv'
  <2>1. UNCHANGED <<run, eng, outbox>>
    BY <1>5 DEF WorkerStep, claim_executor, drop_duplicate, publish_running, publish_terminal, execute_task,
                ack_delivery, release_executor_lease, claim_fails_open, nack_action_delivery
  <2>2. UNCHANGED nodeRun \/ \E h : nodeRun' = [nodeRun EXCEPT !.holder = h]
    BY <1>5 DEF WorkerStep, claim_executor, drop_duplicate, publish_running, publish_terminal, execute_task,
                ack_delivery, release_executor_lease, claim_fails_open, nack_action_delivery, ReleasedBy
  <2> QED BY <1>1, <1>4, <2>1, <2>2
<1>6. ASSUME NEW ev \in events, ResultStep(ev) PROVE OInv'
  <2>1. ev \in Event
    BY AsBefore
  <2>2. UNCHANGED <<run, eng, outbox>>
    BY <1>6 DEF ResultStep, apply_workflow_result_event, enqueue_result_drive
  <2>3. nodeRun'.attempt = nodeRun.attempt
        /\ (nodeRun'.status = nodeRun.status \/ nodeRun'.status \notin {"none", "queued"})
    BY <1>0, <1>6, <2>1 DEF ResultStep, apply_workflow_result_event, enqueue_result_drive, NodeRun, Event
  <2> QED BY <2>2, <2>3, OutsideOInv
<1>7. ASSUME NEW w \in Workers, WorkerCrash(w) PROVE OInv'
  <2>1. UNCHANGED <<run, outbox>>
    BY <1>7 DEF WorkerCrash
  <2>2. nodeRun'.attempt = nodeRun.attempt /\ nodeRun'.status = nodeRun.status
    BY <1>0, <1>7 DEF WorkerCrash, NodeRun
  <2>3. ASSUME NEW e \in Engines, eng'[e] \in Decision
        PROVE  eng[e] \in Decision /\ eng'[e].phase = eng[e].phase /\ eng'[e].attempt = eng[e].attempt
    <3>1. CASE eng'[e] = eng[e]
      BY <2>3, <3>1
    <3>2. CASE eng[e].phase = "release" /\ eng'[e] = [eng[e] EXCEPT !.holder = Former]
      <4>1. eng[e] # NoDrive
        BY <3>2 DEF NoDrive
      <4>2. eng[e] \in Decision
        BY <3>2, <4>1, Decisive DEF IInv
      <4> QED BY <3>2, <4>2 DEF Decision
    <3> QED BY <1>7, <3>1, <3>2 DEF WorkerCrash
  <2> QED BY <2>1, <2>2, <2>3, OutsideOInv
<1> QED BY <1>1, <1>2, <1>3, <1>5, <1>6, <1>7 DEF BecomeDue, MessageLapse, Receive

\* The drive that acts is the only one.
LEMMA DriveOInv ==
    ASSUME OneDrive, IInv, OInv, NEW e \in Engines, NEW new, eng' = [eng EXCEPT ![e] = new],
           new \in Decision =>
             /\ new.phase # "complete" => run' \notin Terminal
             /\ new.phase \in {"dispatch", "mark", "release", "requeue"} => new.attempt = nodeRun'.attempt
             /\ new.phase \in {"dispatch", "mark", "requeue"} => new.attempt < MaxAttempts,
           nodeRun'.status \in {"none", "queued"} => nodeRun'.attempt < MaxAttempts,
           outbox'[MaxAttempts + 1] = outbox[MaxAttempts + 1]
    PROVE  OInv'
<1>1. \A d \in Engines : d = e /\ eng'[d] = new
  BY DEF OneDrive, IInv, TypeOK
<1> QED BY <1>1 DEF OInv, SnapshotHolds, AttemptLeft, AttemptsBounded

LEMMA ReadOInv ==
    ASSUME OneDrive, IInv, OInv, NEW e \in Engines, read(e)
    PROVE  OInv'
<1>1. UNCHANGED <<run, outbox>> /\ nodeRun \in NodeRun
  BY AsBefore DEF read
<1> DEFINE decided(phase, status) ==
      [phase |-> phase, sort |-> eng[e].sort, attempt |-> nodeRun.attempt, status |-> status,
       holder |-> IF phase = "release" THEN nodeRun.holder ELSE Nobody,
       before |-> <<run, nodeRun.status>>]
<1>2. PICK phase \in {"complete", "dispatch", "requeue", "settle", "release", "arm"},
           status \in Terminal \cup {"none"} :
        /\ eng' = [eng EXCEPT ![e] = decided(phase, status)]
        /\ nodeRun' = (IF phase = "dispatch" THEN [nodeRun EXCEPT !.status = "queued"] ELSE nodeRun)
        /\ phase # "complete" => run \notin Terminal
        /\ phase = "dispatch" => nodeRun.status \in {"none", "queued"}
        /\ phase = "requeue" => nodeRun.attempt < MaxAttempts
  <2> USE DEF Decided, AfterOutcome, Terminal
  <2> HIDE DEF decided
  <2>0. \A phase, status : Decided(e, phase, status) = [eng EXCEPT ![e] = decided(phase, status)]
    BY DEF decided
  <2> HIDE DEF Decided
  <2> QED BY <2>0 DEF read
<1> DEFINE new == decided(phase, status)
<1>3. new.phase = phase /\ new.attempt = nodeRun.attempt
  OBVIOUS
<1> HIDE DEF decided
<1>4. nodeRun'.attempt = nodeRun.attempt
  BY <1>1, <1>2 DEF NodeRun
<1>5. nodeRun.status \in {"none", "queued"} => nodeRun.attempt < MaxAttempts
  BY DEF OInv, AttemptLeft
<1>6. nodeRun'.status \in {"none", "queued"} => nodeRun'.attempt < MaxAttempts
  BY <1>1, <1>2, <1>4, <1>5 DEF NodeRun
<1> HIDE DEF new
<1>7. eng' = [eng EXCEPT ![e] = new]
  BY <1>2 DEF new
<1> QED BY <1>1, <1>2, <1>3, <1>4, <1>5, <1>6, <1>7, DriveOInv, ZenonT(40)

LEMMA EngineOInv ==
    ASSUME OneDrive, IInv, OInv, NEW e \in Engines,
           EngineStep(e) \/ EngineCrash(e) \/ fail_driven_ready_node(e)
    PROVE  OInv'
<1>0. /\ nodeRun \in NodeRun /\ nodeRun.attempt \in Nat
      /\ nodeRun.status \in {"none", "queued"} => nodeRun.attempt < MaxAttempts
  BY AsBefore DEF OInv, AttemptLeft, NodeRun
<1>1. CASE read(e)
  BY <1>1, ReadOInv
<1>2. ASSUME NEW k, NEW new \in {NoDrive, [phase |-> "read", sort |-> k]},
             eng' = [eng EXCEPT ![e] = new], UNCHANGED <<nodeRun, outbox>>
      PROVE  OInv'
  <2>1. new \notin Decision
    BY DEF NoDrive, Decision, Phases
  <2> QED BY <1>0, <1>2, <2>1, DriveOInv
<1>3. CASE \/ \E k \in Sorts : Drive(e, k)
           \/ complete(e) \/ EngineCrash(e) \/ fail_driven_ready_node(e)
  <2>1. CASE \E k \in Sorts : Drive(e, k)
    BY <1>2, <2>1 DEF Drive
  <2>2. CASE complete(e)
    BY <1>2, <2>2 DEF complete
  <2>3. CASE EngineCrash(e) \/ fail_driven_ready_node(e)
    BY <1>2, <2>3 DEF EngineCrash, fail_driven_ready_node
  <2> QED BY <1>3, <2>1, <2>2, <2>3
<1>4. ASSUME NEW p \in Phases \ {"read"}, eng[e] # NoDrive, eng[e].phase # "read",
             eng' = [eng EXCEPT ![e].phase = p],
             p # "complete" => run' \notin Terminal,
             p \in {"dispatch", "mark", "release", "requeue"} => eng[e].attempt = nodeRun'.attempt,
             p \in {"dispatch", "mark", "requeue"} => eng[e].attempt < MaxAttempts,
             nodeRun'.status \in {"none", "queued"} => nodeRun'.attempt < MaxAttempts,
             outbox'[MaxAttempts + 1] = outbox[MaxAttempts + 1]
      PROVE  OInv'
  <2> DEFINE new == [eng[e] EXCEPT !.phase = p]
  <2>1. new.phase = p /\ new.attempt = eng[e].attempt /\ eng' = [eng EXCEPT ![e] = new]
    BY <1>4, Moving DEF IInv
  <2> HIDE DEF new
  <2> QED BY <1>4, <2>1, DriveOInv
<1>5. ASSUME eng[e] # NoDrive, eng[e].phase # "read"
      PROVE  /\ eng[e] \in Decision /\ eng[e].attempt \in Nat
             /\ eng[e].phase # "complete" => run \notin Terminal
             /\ eng[e].phase \in {"dispatch", "mark", "release", "requeue"} =>
                   eng[e].attempt = nodeRun.attempt
             /\ eng[e].phase \in {"dispatch", "mark", "requeue"} => eng[e].attempt < MaxAttempts
  <2>1. eng[e] \in Decision
    BY <1>5, Decisive DEF IInv
  <2> QED BY <2>1 DEF OInv, SnapshotHolds, Decision
<1>6. CASE enqueue_action_dispatch(e)
  <2>1. /\ eng[e] # NoDrive /\ eng[e].phase = "dispatch" /\ eng' = [eng EXCEPT ![e].phase = "mark"]
        /\ outbox' = [outbox EXCEPT ![eng[e].attempt + 1] = IF @ = "none" THEN "pending" ELSE @]
        /\ UNCHANGED <<run, nodeRun>>
    BY <1>6 DEF enqueue_action_dispatch, NoDrive
  <2>2. MaxAttempts + 1 \in Attempts /\ eng[e].attempt + 1 # MaxAttempts + 1
    BY <1>5, <2>1, LimitsAssumption DEF Attempts
  <2>3. outbox'[MaxAttempts + 1] = outbox[MaxAttempts + 1]
    BY <2>1, <2>2, AsBefore DEF Outboxes
  <2>4. "mark" \in Phases \ {"read"}
    BY DEF Phases
  <2> QED BY <1>0, <1>4, <1>5, <2>1, <2>3, <2>4
<1>7. CASE mark_running(e)
  <2>1. /\ eng[e] # NoDrive /\ eng[e].phase = "mark" /\ eng' = [eng EXCEPT ![e].phase = "arm"]
        /\ run' = "running" /\ UNCHANGED outbox
        /\ nodeRun' = [nodeRun EXCEPT !.status = "running", !.attempt = eng[e].attempt + 1, !.late = FALSE]
    BY <1>7 DEF mark_running, NoDrive
  <2>2. nodeRun'.status = "running"
    BY <1>0, <2>1 DEF NodeRun
  <2>3. "arm" \in Phases \ {"read"}
    BY DEF Phases
  <2> QED BY <1>4, <2>1, <2>2, <2>3 DEF Terminal
<1>8. CASE release_dead_holder(e)
  <2> DEFINE p == IF eng[e].attempt < MaxAttempts THEN "requeue" ELSE "settle"
  <2>1. /\ eng[e] # NoDrive /\ eng[e].phase = "release" /\ eng' = [eng EXCEPT ![e].phase = p]
        /\ UNCHANGED <<run, outbox>>
        /\ nodeRun' = [nodeRun EXCEPT !.holder = IF @ = eng[e].holder THEN Nobody ELSE @]
    BY <1>8 DEF release_dead_holder, NoDrive
  <2>2. nodeRun'.status = nodeRun.status /\ nodeRun'.attempt = nodeRun.attempt
    BY <1>0, <2>1 DEF NodeRun
  <2>3. p \in Phases \ {"read"} /\ p \in {"requeue", "settle"} /\ (p = "requeue" => eng[e].attempt < MaxAttempts)
    BY DEF Phases
  <2> HIDE DEF p
  <2> QED BY <1>0, <1>4, <1>5, <2>1, <2>2, <2>3
<1>9. CASE requeue(e)
  <2>1. /\ eng[e] # NoDrive /\ eng[e].phase = "requeue" /\ eng' = [eng EXCEPT ![e].phase = "backoff"]
        /\ UNCHANGED <<run, outbox>> /\ nodeRun' = [nodeRun EXCEPT !.status = "queued", !.late = FALSE]
    BY <1>9 DEF requeue, NoDrive
  <2>2. nodeRun'.attempt = nodeRun.attempt
    BY <1>0, <2>1 DEF NodeRun
  <2>3. "backoff" \in Phases \ {"read"}
    BY DEF Phases
  <2> QED BY <1>4, <1>5, <2>1, <2>2, <2>3
<1>10. CASE settle(e)
  <2>1. /\ eng[e] # NoDrive /\ eng[e].phase = "settle" /\ eng' = [eng EXCEPT ![e].phase = "end_run"]
        /\ UNCHANGED <<run, outbox>> /\ nodeRun' = [nodeRun EXCEPT !.status = eng[e].status]
    BY <1>10 DEF settle, NoDrive
  <2>2. eng[e].status \in Terminal
    BY <1>5, <2>1 DEF IInv, DecisionsSound, Sound
  <2>3. nodeRun'.status \notin {"none", "queued"}
    BY <1>0, <2>1, <2>2 DEF NodeRun, Terminal
  <2>4. "end_run" \in Phases \ {"read"}
    BY DEF Phases
  <2> QED BY <1>4, <1>5, <2>1, <2>3, <2>4
<1>11. CASE arm(e) \/ schedule_node_retry(e) \/ end_run(e)
  <2>1. /\ eng[e] # NoDrive /\ eng[e].phase # "read" /\ eng' = [eng EXCEPT ![e].phase = "complete"]
        /\ UNCHANGED <<nodeRun, outbox>>
    BY <1>11 DEF arm, schedule_node_retry, end_run, NoDrive
  <2>2. "complete" \in Phases \ {"read"}
    BY DEF Phases
  <2> QED BY <1>0, <1>4, <2>1, <2>2
<1> QED BY <1>1, <1>3, <1>6, <1>7, <1>8, <1>9, <1>10, <1>11 DEF EngineStep

LEMMA OInvariance == ASSUME OneDrive PROVE Spec => [](IInv /\ OInv)
<1>1. Init => IInv /\ OInv
  BY InitIInv
<1>2. IInv /\ OInv /\ [Next]_vars => OInv'
  <2> SUFFICES ASSUME IInv, OInv, [Next]_vars PROVE OInv'
    OBVIOUS
  <2>1. CASE UNCHANGED vars
    BY <2>1 DEF vars, OInv, SnapshotHolds, AttemptLeft, AttemptsBounded
  <2>2. CASE \E e \in Engines : EngineStep(e) \/ EngineCrash(e) \/ fail_driven_ready_node(e)
    BY <2>2, EngineOInv
  <2> QED BY <2>1, <2>2, OutsideStepOInv DEF Next, Faulty, Quiet
<1> QED BY <1>1, <1>2, NextIInv, PTL DEF Spec

\* No attempt past max_attempts is dispatched, whichever rows wake the node and however
\* late results arrive, as long as one drive runs at a time.
THEOREM AttemptsWithinLimit == ASSUME OneDrive PROVE Spec => []AttemptsBounded
<1>1. OInv => AttemptsBounded
  BY DEF OInv
<1> QED BY <1>1, OInvariance, PTL

\* The reducer never revives a run that has ended, by mark_running, by the status of a
\* retry or by a second end; an error in a drive may turn it into a failed one.
THEOREM EndStays == ASSUME OneDrive PROVE Spec => EndIsFinal
<1> DEFINE Final == run \in Terminal => run' = run \/ (run' = "failed" /\ irregular')
<1>1. IInv /\ OInv /\ [Next]_vars => [Final]_vars
  <2> SUFFICES ASSUME IInv, OInv, Next, run \in Terminal
               PROVE  run' = run \/ (run' = "failed" /\ irregular')
    OBVIOUS
  <2>1. CASE UNCHANGED run
    BY <2>1
  <2>2. ASSUME NEW e \in Engines, EngineStep(e) PROVE UNCHANGED run
    <3>1. eng[e] # NoDrive /\ eng[e].phase \in {"mark", "backoff", "end_run"} => FALSE
      BY Decisive DEF IInv, OInv, SnapshotHolds
    <3>2. CASE mark_running(e) \/ schedule_node_retry(e) \/ end_run(e)
      BY <3>1, <3>2 DEF mark_running, schedule_node_retry, end_run, NoDrive
    <3>3. CASE \E k \in Sorts : Drive(e, k)
      BY <3>3 DEF Drive, Terminal
    <3> QED BY <2>2, <3>2, <3>3 DEF EngineStep, read, enqueue_action_dispatch, arm,
              release_dead_holder, requeue, settle, complete
  <2>3. ASSUME NEW e \in Engines, EngineCrash(e) \/ fail_driven_ready_node(e)
        PROVE  run' = run \/ (run' = "failed" /\ irregular')
    BY <2>3 DEF EngineCrash, fail_driven_ready_node
  <2>4. CASE \/ Deadline \/ \E k \in Sorts : BecomeDue(k)
             \/ \E a \in Attempts : PublishDispatch(a) \/ MessageLapse(a)
             \/ \E w \in Workers, a \in Attempts : Receive(w, a)
             \/ \E w \in Workers : WorkerCrash(w)
             \/ \E ev \in events : ResultStep(ev)
             \/ Quiet
    BY <2>4 DEF Deadline, BecomeDue, PublishDispatch, MessageLapse, Receive, WorkerCrash,
                ResultStep, apply_workflow_result_event, enqueue_result_drive, Quiet, vars
  <2>5. CASE \E t \in tasks : WorkerStep(t) \/ claim_fails_open(t) \/ nack_action_delivery(t)
    BY <2>5 DEF WorkerStep, claim_executor, drop_duplicate, publish_running, publish_terminal, execute_task,
                ack_delivery, release_executor_lease, claim_fails_open, nack_action_delivery
  <2> QED BY <2>2, <2>3, <2>4, <2>5 DEF Next, Faulty
<1>2. [][Final]_vars => EndIsFinal
  BY DEF EndIsFinal
<1> QED BY <1>1, <1>2, OInvariance, PTL DEF Spec
===============================================================================
