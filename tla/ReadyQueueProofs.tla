--------------------------- MODULE ReadyQueueProofs ---------------------------
(***************************************************************************)
(* Proofs about the ready queue, for any rows, nodes, runs and replicas,   *)
(* any number of waker slots and any number of faults.                     *)
(***************************************************************************)
EXTENDS ReadyQueue, FiniteSetTheorems, TLAPS

USE EnginesAssumption, BoundsAssumption

\* The waker's tasks can be counted.
FiniteTasks == IsFiniteSet(tasks)

\* Whoever is about to drive a row, or to publish a Drive for it, knows that it is
\* due; a row that is not enqueued yet is not.
AbsentNotDue(ro) == \A r \in Rows : ro[r].status = "absent" => ~ro[r].due
QueuedIsDue(ro, ing) == \A r \in Rows : ing[r] # "absent" => ro[r].due
WorkedIsDue(ro, en) == \A e \in Engines : en[e] # Idle => ro[en[e].row].due
BatchIsDue(ro, ba) == \A e \in Engines : \A a \in ba[e] : a.due => ro[a.row].due

DueSeen ==
    /\ AbsentNotDue(row)
    /\ QueuedIsDue(row, ingress)
    /\ WorkedIsDue(row, eng)
    /\ BatchIsDue(row, batch)

\* A driver that did not overrun has the claim, and the claim has not lapsed while
\* the row is pending.
DriverHasClaim(ro, en) ==
    \A e \in Engines :
        en[e].phase = "driving" /\ ~en[e].overran =>
            /\ ro[en[e].row].claimedBy = e
            /\ ro[en[e].row].status = "pending" => ~ro[en[e].row].claimLapsed

ClaimKept == DriverHasClaim(row, eng)

\* The conjuncts of TypeOK that the proofs take one at a time.
RowOK == row \in [Rows -> RowRecord]
ChannelOK == wake \in [Rows -> Channel] /\ ingress \in [Rows -> Channel]
EngineOK == eng \in [Engines -> {Idle} \cup Consumer]
TaskOK == tasks \in SUBSET Task /\ Cardinality(tasks) <= WakerSlots /\ FiniteTasks
BatchOK == batch \in [Engines -> SUBSET [row : Rows, due : BOOLEAN]]
LimitOK == runDone \in SUBSET Runs /\ faults \in 0..MaxFaults

\* What one step may do to a row: it neither comes back nor is put off.
RowMoves ==
    \A r \in Rows :
        /\ row[r].status = "done" => row'[r].status = "done"
        /\ row[r].due /\ row[r].status # "absent" => row'[r].due
        /\ row'[r].status = "absent" => row[r].status = "absent" /\ row'[r].due = row[r].due

\* ... and where a Drive, a consumer's row and an announcement come from.
DriveOrigin == \A r \in Rows : ingress'[r] # "absent" => ingress[r] # "absent" \/ row[r].due
WorkOrigin ==
    \A e \in Engines : eng'[e] # Idle =>
        \/ eng[e] # Idle /\ eng'[e].row = eng[e].row
        \/ eng'[e].row \in Rows /\ ingress[eng'[e].row] # "absent"
BatchOrigin ==
    \A e \in Engines : \A a \in batch'[e] : a \in batch[e] \/ a.due = row[a.row].due

IInv == TypeOK /\ FiniteTasks /\ DueSeen /\ ClaimKept

\* A consumer that is not idle works on a row.
LEMMA Working ==
    ASSUME TypeOK, NEW e \in Engines, eng[e].phase \in {"received", "driving", "finished"}
    PROVE  eng[e] \in Consumer /\ eng[e].row \in Rows /\ eng[e] # Idle
BY DEF TypeOK, Idle, Consumer

\* Every step keeps the rows well typed.
LEMMA RowType ==
    ASSUME TypeOK, [Next]_vars
    PROVE  RowOK'
<1>1. ASSUME UNCHANGED row PROVE  RowOK'
  BY <1>1 DEF TypeOK, RowRecord, RowOK
<1>2. ASSUME NEW r \in Rows, NEW due \in BOOLEAN, enqueue_ready_node(r, due)
      PROVE  RowOK'
  <2> DEFINE stale == {s \in Rows : NodeOf[s] = NodeOf[r] /\ Pending(s) /\ row[s].due}
  <2>1. row' = [Settled(stale) EXCEPT ![r] = NewRow(due)]
    BY <1>2 DEF enqueue_ready_node
  <2>2. Settled(stale) \in [Rows -> RowRecord]
    BY DEF Settled, TypeOK, RowRecord
  <2>3. NewRow(due) \in RowRecord
    BY DEF NewRow, RowRecord
  <2> HIDE DEF stale
  <2> QED BY <2>1, <2>2, <2>3 DEF RowOK
<1>3. ASSUME NEW r \in Rows, BecomeDue(r)
      PROVE  RowOK'
  <2>1. row \in [Rows -> RowRecord]
    BY DEF TypeOK
  <2> QED BY <1>3, <2>1, ZenonT(40) DEF BecomeDue, RowRecord, RowOK
<1>4. ASSUME NEW r \in Rows, ClaimLapse(r)
      PROVE  RowOK'
  <2>1. row \in [Rows -> RowRecord]
    BY DEF TypeOK
  <2> QED BY <1>4, <2>1, ZenonT(40) DEF ClaimLapse, RowRecord, RowOK
<1>5. ASSUME NEW r \in Rows, AnnounceLapse(r)
      PROVE  RowOK'
  <2>1. row \in [Rows -> RowRecord]
    BY DEF TypeOK
  <2> QED BY <1>5, <2>1, ZenonT(40) DEF AnnounceLapse, RowRecord, RowOK
<1>6. ASSUME NEW e \in Engines, Announce(e)
      PROVE  RowOK'
  <2>1. row \in [Rows -> RowRecord]
    BY DEF TypeOK
  <2>2. \A r \in Rows : row[r] \in RowRecord /\ [row[r] EXCEPT !.announced = TRUE] \in RowRecord
    BY <2>1 DEF RowRecord
  <2> QED BY <1>6, <2>2 DEF Announce, RowOK
<1>7. ASSUME NEW e \in Engines, claim_ready_node(e)
      PROVE  RowOK'
  <2>1. eng[e].row \in Rows
    BY <1>7, Working DEF claim_ready_node
  <2>2. row \in [Rows -> RowRecord]
    BY DEF TypeOK
  <2>3. [row EXCEPT ![eng[e].row].claimedBy = e, ![eng[e].row].claimLapsed = FALSE] \in [Rows -> RowRecord]
    BY <2>1, <2>2, ZenonT(40) DEF RowRecord
  <2> QED BY <1>7, <2>2, <2>3, Zenon DEF claim_ready_node, RowOK
<1>8. ASSUME NEW e \in Engines, complete_ready_node(e)
      PROVE  RowOK'
  <2>1. eng[e].row \in Rows
    BY <1>8, Working DEF complete_ready_node
  <2>2. row \in [Rows -> RowRecord]
    BY DEF TypeOK
  <2>3. [row EXCEPT ![eng[e].row].status = "done"] \in [Rows -> RowRecord]
    BY <2>1, <2>2 DEF RowRecord
  <2> QED BY <1>8, <2>2, <2>3 DEF complete_ready_node, RowOK
<1>9. ASSUME NEW e \in Engines, release_ready_node(e)
      PROVE  RowOK'
  <2>1. eng[e].row \in Rows
    BY <1>9, Working DEF release_ready_node
  <2>2. row \in [Rows -> RowRecord]
    BY DEF TypeOK
  <2>3. [row EXCEPT ![eng[e].row].claimedBy = Nobody, ![eng[e].row].claimLapsed = FALSE]
          \in [Rows -> RowRecord]
    BY <2>1, <2>2, ZenonT(40) DEF RowRecord
  <2> QED BY <1>9, <2>2, <2>3 DEF release_ready_node, RowOK
<1>10. ASSUME NEW e \in Engines, EndRun(e)
       PROVE  RowOK'
  BY <1>10 DEF EndRun, Settled, Pending, TypeOK, RowRecord, RowOK
<1>11. ASSUME Reap PROVE  RowOK'
  BY <1>11 DEF Reap, Settled, Pending, TypeOK, RowRecord, RowOK
<1>12. ASSUME NEW e \in Engines, EngineCrash(e)
       PROVE  RowOK'
  <2>1. row \in [Rows -> RowRecord]
    BY DEF TypeOK
  <2>2. \A r \in Rows : row[r] \in RowRecord /\ [row[r] EXCEPT !.claimedBy = Former] \in RowRecord
    BY <2>1 DEF RowRecord
  <2> QED BY <1>12, <2>2 DEF EngineCrash, RowOK
<1>13. ASSUME NEW e \in Engines, EndRunInterrupted(e)
       PROVE  RowOK'
  BY <1>13 DEF EndRunInterrupted, Fault, TypeOK, RowRecord, RowOK
<1> QED
  BY <1>1, <1>2, <1>3, <1>4, <1>5, <1>6, <1>7, <1>8, <1>9, <1>10, <1>11, <1>12, <1>13
  DEF Next, Clock, Publisher, IngressStep, Waker, Faulty, Quiet, IngressLapse, PublishAnnounced,
      DriveReceive, DriveAck, WakeReceive, WakeLapse, WakeDrive, WakeAck, WakeNack, DriveFails,
      PublishFails, WakerCrash, BrokerRestart, vars

\* ... and the two channels,
LEMMA ChannelType ==
    ASSUME TypeOK, [Next]_vars
    PROVE  ChannelOK'
<1>1. ASSUME UNCHANGED <<wake, ingress>> PROVE  ChannelOK'
  BY <1>1 DEF TypeOK, Channel, ChannelOK
<1>2. ASSUME NEW r \in Rows, IngressLapse(r)
      PROVE  ChannelOK'
  BY <1>2 DEF IngressLapse, TypeOK, Channel, ChannelOK
<1>3. ASSUME NEW e \in Engines, NEW a \in batch[e], PublishAnnounced(e, a)
      PROVE  ChannelOK'
  BY <1>3 DEF PublishAnnounced, Published, TypeOK, Channel, ChannelOK
<1>4. ASSUME NEW e \in Engines, NEW r \in Rows, DriveReceive(e, r)
      PROVE  ChannelOK'
  BY <1>4 DEF DriveReceive, TypeOK, Channel, ChannelOK
<1>5. ASSUME NEW e \in Engines, DriveAck(e)
      PROVE  ChannelOK'
  BY <1>5 DEF DriveAck, Acked, TypeOK, Channel, ChannelOK
<1>6. ASSUME NEW r \in Rows, WakeReceive(r)
      PROVE  ChannelOK'
  BY <1>6 DEF WakeReceive, TypeOK, Channel, ChannelOK
<1>7. ASSUME NEW r \in Rows, WakeLapse(r)
      PROVE  ChannelOK'
  BY <1>7 DEF WakeLapse, TypeOK, Channel, ChannelOK
<1>8. ASSUME NEW t \in tasks, WakeDrive(t)
      PROVE  ChannelOK'
  BY <1>8 DEF WakeDrive, Published, TypeOK, Channel, ChannelOK
<1>9. ASSUME NEW t \in tasks, WakeAck(t)
      PROVE  ChannelOK'
  BY <1>9 DEF WakeAck, Acked, TypeOK, Channel, ChannelOK
<1>10. ASSUME NEW t \in tasks, WakeNack(t)
       PROVE  ChannelOK'
  BY <1>10 DEF WakeNack, Nacked, Fault, TypeOK, Channel, ChannelOK
<1>11. ASSUME NEW e \in Engines, DriveFails(e)
       PROVE  ChannelOK'
  BY <1>11 DEF DriveFails, Fault, Acked, Nacked, TypeOK, Channel, ChannelOK
<1>12. ASSUME BrokerRestart PROVE  ChannelOK'
  BY <1>12 DEF BrokerRestart, Fault, TypeOK, Channel, ChannelOK
<1> QED
  BY <1>1, <1>2, <1>3, <1>4, <1>5, <1>6, <1>7, <1>8, <1>9, <1>10, <1>11, <1>12
  DEF Next, Clock, Publisher, IngressStep, Waker, Faulty, Quiet, enqueue_ready_node, BecomeDue,
      ClaimLapse, AnnounceLapse, Announce, claim_ready_node, complete_ready_node,
      release_ready_node, EndRun, Reap, EngineCrash, EndRunInterrupted, PublishFails,
      WakerCrash, vars

\* the ingress consumers,
LEMMA EngineType ==
    ASSUME TypeOK, [Next]_vars
    PROVE  EngineOK'
<1>1. ASSUME UNCHANGED eng PROVE  EngineOK'
  BY <1>1 DEF TypeOK, Idle, Consumer, EngineOK
<1>2. ASSUME NEW r \in Rows, ClaimLapse(r)
      PROVE  EngineOK'
  BY <1>2, ZenonT(40) DEF ClaimLapse, Pending, TypeOK, Idle, Consumer, EngineOK
<1>3. ASSUME NEW r \in Rows, IngressLapse(r)
      PROVE  EngineOK'
  BY <1>3, ZenonT(40) DEF IngressLapse, TypeOK, Idle, Consumer, EngineOK
<1>4. ASSUME NEW e \in Engines, NEW r \in Rows, DriveReceive(e, r)
      PROVE  EngineOK'
  BY <1>4 DEF DriveReceive, TypeOK, Idle, Consumer, EngineOK
<1>5. ASSUME NEW e \in Engines, claim_ready_node(e)
      PROVE  EngineOK'
  BY <1>5 DEF claim_ready_node, Claimable, Pending, TypeOK, Idle, Consumer, EngineOK
<1>6. ASSUME NEW e \in Engines, complete_ready_node(e)
      PROVE  EngineOK'
  BY <1>6 DEF complete_ready_node, TypeOK, Idle, Consumer, EngineOK
<1>7. ASSUME NEW e \in Engines, release_ready_node(e)
      PROVE  EngineOK'
  BY <1>7 DEF release_ready_node, Pending, TypeOK, Idle, Consumer, EngineOK
<1>8. ASSUME NEW e \in Engines, DriveAck(e)
      PROVE  EngineOK'
  BY <1>8 DEF DriveAck, Acked, TypeOK, Idle, Consumer, EngineOK
<1>9. ASSUME NEW e \in Engines, EngineCrash(e)
      PROVE  EngineOK'
  BY <1>9 DEF EngineCrash, Fault, TypeOK, Idle, Consumer, EngineOK
<1>10. ASSUME NEW e \in Engines, EndRunInterrupted(e)
       PROVE  EngineOK'
  BY <1>10 DEF EndRunInterrupted, Fault, TypeOK, Idle, Consumer, EngineOK
<1>11. ASSUME NEW e \in Engines, DriveFails(e)
       PROVE  EngineOK'
  BY <1>11 DEF DriveFails, Fault, Acked, Nacked, TypeOK, Idle, Consumer, EngineOK
<1>12. ASSUME BrokerRestart PROVE  EngineOK'
  BY <1>12 DEF BrokerRestart, Fault, TypeOK, Idle, Consumer, EngineOK
<1> QED
  BY <1>1, <1>2, <1>3, <1>4, <1>5, <1>6, <1>7, <1>8, <1>9, <1>10, <1>11, <1>12
  DEF Next, Clock, Publisher, IngressStep, Waker, Faulty, Quiet, enqueue_ready_node, BecomeDue,
      AnnounceLapse, Announce, PublishAnnounced, EndRun, WakeReceive, WakeLapse, WakeDrive,
      WakeAck, WakeNack, Reap, PublishFails, WakerCrash, vars

\* the announced batches,
LEMMA BatchType ==
    ASSUME TypeOK, [Next]_vars
    PROVE  BatchOK'
<1>1. ASSUME UNCHANGED batch PROVE  BatchOK'
  BY <1>1 DEF TypeOK, RowRecord, BatchOK
<1>2. ASSUME NEW e \in Engines, Announce(e)
      PROVE  BatchOK'
  BY <1>2 DEF Announce, Announceable, Claimable, Pending, TypeOK, RowRecord, BatchOK
<1>3. ASSUME NEW e \in Engines, NEW a \in batch[e], PublishAnnounced(e, a)
      PROVE  BatchOK'
  BY <1>3 DEF PublishAnnounced, Published, TypeOK, RowRecord, BatchOK
<1>4. ASSUME NEW e \in Engines, EngineCrash(e)
      PROVE  BatchOK'
  BY <1>4 DEF EngineCrash, Fault, TypeOK, RowRecord, BatchOK
<1>5. ASSUME NEW e \in Engines, EndRunInterrupted(e)
      PROVE  BatchOK'
  BY <1>5 DEF EndRunInterrupted, Fault, TypeOK, RowRecord, BatchOK
<1>6. ASSUME NEW e \in Engines, NEW a \in batch[e], PublishFails(e, a)
      PROVE  BatchOK'
  BY <1>6 DEF PublishFails, Fault, TypeOK, RowRecord, BatchOK
<1> QED
  BY <1>1, <1>2, <1>3, <1>4, <1>5, <1>6
  DEF Next, Clock, Publisher, IngressStep, Waker, Faulty, Quiet, enqueue_ready_node, BecomeDue,
      ClaimLapse, AnnounceLapse, IngressLapse, DriveReceive, claim_ready_node,
      complete_ready_node, release_ready_node, EndRun, DriveAck, WakeReceive, WakeLapse,
      WakeDrive, WakeAck, WakeNack, Reap, DriveFails, WakerCrash, BrokerRestart, vars

\* the ended runs and the fault counter.
LEMMA LimitType ==
    ASSUME TypeOK, [Next]_vars
    PROVE  LimitOK'
<1>1. ASSUME UNCHANGED <<runDone, faults>> PROVE  LimitOK'
  BY <1>1 DEF TypeOK, LimitOK
<1>2. ASSUME NEW e \in Engines, EndRun(e)
      PROVE  LimitOK'
  <2>1. eng[e].row \in Rows
    BY <1>2, Working DEF EndRun
  <2>2. RunOf[eng[e].row] \in Runs
    BY <2>1 DEF Runs
  <2> QED BY <1>2, <2>2 DEF EndRun, TypeOK, LimitOK
<1>3. ASSUME NEW t \in tasks, WakeNack(t)
      PROVE  LimitOK'
  BY <1>3 DEF WakeNack, Nacked, Fault, TypeOK, LimitOK
<1>4. ASSUME NEW e \in Engines, EngineCrash(e)
      PROVE  LimitOK'
  BY <1>4 DEF EngineCrash, Fault, TypeOK, LimitOK
<1>5. ASSUME NEW e \in Engines, EndRunInterrupted(e)
      PROVE  LimitOK'
  <2>1. eng[e].row \in Rows
    BY <1>5, Working DEF EndRunInterrupted
  <2>2. RunOf[eng[e].row] \in Runs
    BY <2>1 DEF Runs
  <2> QED BY <1>5, <2>2 DEF EndRunInterrupted, Fault, TypeOK, LimitOK
<1>6. ASSUME NEW e \in Engines, DriveFails(e)
      PROVE  LimitOK'
  BY <1>6 DEF DriveFails, Fault, Acked, Nacked, TypeOK, LimitOK
<1>7. ASSUME NEW e \in Engines, NEW a \in batch[e], PublishFails(e, a)
      PROVE  LimitOK'
  BY <1>7 DEF PublishFails, Fault, TypeOK, LimitOK
<1>8. ASSUME NEW t \in tasks, WakerCrash(t)
      PROVE  LimitOK'
  BY <1>8 DEF WakerCrash, Fault, TypeOK, LimitOK
<1>9. ASSUME BrokerRestart PROVE  LimitOK'
  BY <1>9 DEF BrokerRestart, Fault, TypeOK, LimitOK
<1> QED
  BY <1>1, <1>2, <1>3, <1>4, <1>5, <1>6, <1>7, <1>8, <1>9
  DEF Next, Clock, Publisher, IngressStep, Waker, Faulty, Quiet, enqueue_ready_node, BecomeDue,
      ClaimLapse, AnnounceLapse, IngressLapse, Announce, PublishAnnounced, DriveReceive,
      claim_ready_node, complete_ready_node, release_ready_node, DriveAck, WakeReceive,
      WakeLapse, WakeDrive, WakeAck, Reap, vars

\* Changing every task one for one does not make them more.
LEMMA Changed ==
    ASSUME NEW S, NEW f, IsFiniteSet(S), DOMAIN f = S
    PROVE  IsFiniteSet({f[x] : x \in S}) /\ Cardinality({f[x] : x \in S}) <= Cardinality(S)
<1> DEFINE T == {f[x] : x \in S}
           g == [x \in S |-> f[x]]
<1>1. g \in Surjection(S, T)
  BY DEF Surjection
<1> QED BY <1>1, FS_Surjection

\* The wakers' tasks stay well typed and within the slots.
LEMMA TaskType ==
    ASSUME TypeOK, FiniteTasks, [Next]_vars
    PROVE  TaskOK'
<1>1. ASSUME UNCHANGED tasks PROVE  TaskOK'
  BY <1>1 DEF TypeOK, TaskOK, FiniteTasks
<1>2. ASSUME NEW r \in Rows, WakeReceive(r)
      PROVE  TaskOK'
  <2> DEFINE new == [row |-> r, phase |-> "sleeping", live |-> TRUE]
  <2>1. tasks' = tasks \cup {new} /\ Cardinality(tasks) < WakerSlots /\ IsFiniteSet(tasks)
    BY <1>2 DEF WakeReceive, FiniteTasks
  <2>2. new \in Task
    BY DEF Task
  <2> HIDE DEF new
  <2>3. IsFiniteSet(tasks') /\ Cardinality(tasks') <= Cardinality(tasks) + 1
    <3>1. /\ IsFiniteSet(tasks \cup {new})
          /\ Cardinality(tasks \cup {new}) =
               IF new \in tasks THEN Cardinality(tasks) ELSE Cardinality(tasks) + 1
      BY <2>1, FS_AddElement
    <3>2. Cardinality(tasks) \in Nat
      BY <2>1, FS_CardinalityType
    <3> QED BY <2>1, <3>1, <3>2
  <2>4. Cardinality(tasks) \in Nat /\ Cardinality(tasks') \in Nat
    BY <2>1, <2>3, FS_CardinalityType
  <2> QED BY <2>1, <2>2, <2>3, <2>4 DEF TypeOK, TaskOK, FiniteTasks
<1>3. ASSUME NEW r \in Rows, WakeLapse(r)
      PROVE  TaskOK'
  <2> DEFINE f == [x \in tasks |-> IF x.row = r THEN [x EXCEPT !.live = FALSE] ELSE x]
  <2>1. tasks' = {f[x] : x \in tasks}
    BY <1>3 DEF WakeLapse
  <2>2. \A x \in tasks : f[x] \in Task
    <3>1. \A x \in tasks : x \in Task /\ [x EXCEPT !.live = FALSE] \in Task
      BY DEF TypeOK, Task
    <3> QED BY <3>1
  <2>3. IsFiniteSet(tasks') /\ Cardinality(tasks') <= Cardinality(tasks)
    <3> HIDE DEF f
    <3>1. DOMAIN f = tasks
      BY DEF f
    <3> QED BY <2>1, <3>1, Changed DEF FiniteTasks
  <2>4. tasks' \in SUBSET Task
    <3> HIDE DEF f
    <3> QED BY <2>1, <2>2
  <2>5. Cardinality(tasks) \in Nat /\ Cardinality(tasks') \in Nat
    BY <2>3, FS_CardinalityType DEF FiniteTasks
  <2> QED BY <2>3, <2>4, <2>5 DEF TypeOK, TaskOK, FiniteTasks
<1>4. ASSUME NEW t \in tasks, WakeDrive(t)
      PROVE  TaskOK'
  <2> DEFINE new == [t EXCEPT !.phase = "driven"]
  <2>1. tasks' = (tasks \ {t}) \cup {new} /\ IsFiniteSet(tasks)
    BY <1>4 DEF WakeDrive, FiniteTasks
  <2>2. new \in Task
    BY DEF Task, TypeOK
  <2> HIDE DEF new
  <2>3. IsFiniteSet(tasks \ {t}) /\ Cardinality(tasks \ {t}) = Cardinality(tasks) - 1
    BY <2>1, FS_RemoveElement
  <2>4. Cardinality(tasks) \in Nat /\ Cardinality(tasks \ {t}) \in Nat
    BY <2>1, <2>3, FS_CardinalityType
  <2>5. IsFiniteSet(tasks') /\ Cardinality(tasks') <= Cardinality(tasks)
    <3> DEFINE rest == tasks \ {t}
    <3>1. IsFiniteSet(rest)
      BY <2>3
    <3> HIDE DEF rest
    <3>2. /\ IsFiniteSet(rest \cup {new})
          /\ Cardinality(rest \cup {new}) =
               IF new \in rest THEN Cardinality(rest) ELSE Cardinality(rest) + 1
      BY <3>1, FS_AddElement
    <3> USE DEF rest
    <3> QED BY <2>1, <2>3, <2>4, <3>2
  <2>6. Cardinality(tasks') \in Nat
    BY <2>5, FS_CardinalityType
  <2> QED BY <2>1, <2>2, <2>4, <2>5, <2>6 DEF TypeOK, TaskOK, FiniteTasks
<1>5. ASSUME NEW t \in tasks, WakeAck(t)
      PROVE  TaskOK'
  <2>1. tasks' = tasks \ {t} /\ IsFiniteSet(tasks)
    BY <1>5 DEF WakeAck, FiniteTasks
  <2>2. IsFiniteSet(tasks') /\ Cardinality(tasks') <= Cardinality(tasks)
    BY <2>1, FS_Subset
  <2>3. Cardinality(tasks) \in Nat /\ Cardinality(tasks') \in Nat
    BY <2>1, <2>2, FS_CardinalityType
  <2> QED BY <2>1, <2>2, <2>3 DEF TypeOK, TaskOK, FiniteTasks
<1>6. ASSUME NEW t \in tasks, WakeNack(t)
      PROVE  TaskOK'
  <2>1. tasks' = tasks \ {t} /\ IsFiniteSet(tasks)
    BY <1>6 DEF WakeNack, FiniteTasks
  <2>2. IsFiniteSet(tasks') /\ Cardinality(tasks') <= Cardinality(tasks)
    BY <2>1, FS_Subset
  <2>3. Cardinality(tasks) \in Nat /\ Cardinality(tasks') \in Nat
    BY <2>1, <2>2, FS_CardinalityType
  <2> QED BY <2>1, <2>2, <2>3 DEF TypeOK, TaskOK, FiniteTasks
<1>7. ASSUME NEW t \in tasks, WakerCrash(t)
      PROVE  TaskOK'
  <2>1. tasks' = tasks \ {t} /\ IsFiniteSet(tasks)
    BY <1>7 DEF WakerCrash, FiniteTasks
  <2>2. IsFiniteSet(tasks') /\ Cardinality(tasks') <= Cardinality(tasks)
    BY <2>1, FS_Subset
  <2>3. Cardinality(tasks) \in Nat /\ Cardinality(tasks') \in Nat
    BY <2>1, <2>2, FS_CardinalityType
  <2> QED BY <2>1, <2>2, <2>3 DEF TypeOK, TaskOK, FiniteTasks
<1>8. ASSUME BrokerRestart PROVE  TaskOK'
  <2> DEFINE f == [x \in tasks |-> [x EXCEPT !.live = FALSE]]
  <2>1. tasks' = {f[x] : x \in tasks}
    BY <1>8 DEF BrokerRestart
  <2>2. \A x \in tasks : f[x] \in Task
    <3>1. \A x \in tasks : x \in Task /\ [x EXCEPT !.live = FALSE] \in Task
      BY DEF TypeOK, Task
    <3> QED BY <3>1
  <2>3. IsFiniteSet(tasks') /\ Cardinality(tasks') <= Cardinality(tasks)
    <3> HIDE DEF f
    <3>1. DOMAIN f = tasks
      BY DEF f
    <3> QED BY <2>1, <3>1, Changed DEF FiniteTasks
  <2>4. tasks' \in SUBSET Task
    <3> HIDE DEF f
    <3> QED BY <2>1, <2>2
  <2>5. Cardinality(tasks) \in Nat /\ Cardinality(tasks') \in Nat
    BY <2>3, FS_CardinalityType DEF FiniteTasks
  <2> QED BY <2>3, <2>4, <2>5 DEF TypeOK, TaskOK, FiniteTasks
<1> QED
  BY <1>1, <1>2, <1>3, <1>4, <1>5, <1>6, <1>7, <1>8
  DEF Next, Clock, Publisher, IngressStep, Waker, Faulty, Quiet, enqueue_ready_node, BecomeDue,
      ClaimLapse, AnnounceLapse, IngressLapse, Announce, PublishAnnounced, DriveReceive,
      claim_ready_node, complete_ready_node, release_ready_node, EndRun, DriveAck, Reap,
      EngineCrash, EndRunInterrupted, DriveFails, PublishFails, vars

\* What a step does to the rows.
LEMMA RowStep ==
    ASSUME TypeOK, [Next]_vars
    PROVE  RowMoves
<1>1. ASSUME UNCHANGED row PROVE  RowMoves
  BY <1>1 DEF TypeOK, RowRecord, RowMoves
<1>2. ASSUME NEW r \in Rows, NEW due \in BOOLEAN, enqueue_ready_node(r, due)
      PROVE  RowMoves
  BY <1>2 DEF enqueue_ready_node, Pending, Settled, NewRow, TypeOK, RowRecord, RowMoves
<1>3. ASSUME NEW r \in Rows, BecomeDue(r)
      PROVE  RowMoves
  BY <1>3 DEF BecomeDue, Pending, TypeOK, RowRecord, RowMoves
<1>4. ASSUME NEW r \in Rows, ClaimLapse(r)
      PROVE  RowMoves
  BY <1>4 DEF ClaimLapse, Pending, TypeOK, RowRecord, RowMoves
<1>5. ASSUME NEW r \in Rows, AnnounceLapse(r)
      PROVE  RowMoves
  BY <1>5 DEF AnnounceLapse, Pending, TypeOK, RowRecord, RowMoves
<1>6. ASSUME NEW e \in Engines, Announce(e)
      PROVE  RowMoves
  BY <1>6 DEF Announce, Announceable, Claimable, Pending, TypeOK, RowRecord, RowMoves
<1>7. ASSUME NEW e \in Engines, claim_ready_node(e)
      PROVE  RowMoves
  BY <1>7 DEF claim_ready_node, Claimable, Pending, TypeOK, RowRecord, RowMoves
<1>8. ASSUME NEW e \in Engines, complete_ready_node(e)
      PROVE  RowMoves
  BY <1>8 DEF complete_ready_node, TypeOK, RowRecord, RowMoves
<1>9. ASSUME NEW e \in Engines, release_ready_node(e)
      PROVE  RowMoves
  BY <1>9 DEF release_ready_node, Pending, TypeOK, RowRecord, RowMoves
<1>10. ASSUME NEW e \in Engines, EndRun(e)
       PROVE  RowMoves
  BY <1>10 DEF EndRun, Settled, Pending, TypeOK, RowRecord, RowMoves
<1>11. ASSUME Reap PROVE  RowMoves
  BY <1>11 DEF Reap, Settled, Pending, TypeOK, RowRecord, RowMoves
<1>12. ASSUME NEW e \in Engines, EngineCrash(e)
       PROVE  RowMoves
  BY <1>12 DEF EngineCrash, Fault, TypeOK, RowRecord, RowMoves
<1>13. ASSUME NEW e \in Engines, EndRunInterrupted(e)
       PROVE  RowMoves
  BY <1>13 DEF EndRunInterrupted, Fault, TypeOK, RowRecord, RowMoves
<1> QED
  BY <1>1, <1>2, <1>3, <1>4, <1>5, <1>6, <1>7, <1>8, <1>9, <1>10, <1>11, <1>12, <1>13
  DEF Next, Clock, Publisher, IngressStep, Waker, Faulty, Quiet, IngressLapse, PublishAnnounced,
      DriveReceive, DriveAck, WakeReceive, WakeLapse, WakeDrive, WakeAck, WakeNack, DriveFails,
      PublishFails, WakerCrash, BrokerRestart, vars

\* Only a due row gets a Drive.
LEMMA DriveStep ==
    ASSUME TypeOK, DueSeen, [Next]_vars
    PROVE  DriveOrigin
<1>1. ASSUME UNCHANGED ingress PROVE  DriveOrigin
  BY <1>1 DEF TypeOK, Channel, DriveOrigin
<1>2. ASSUME NEW r \in Rows, IngressLapse(r)
      PROVE  DriveOrigin
  BY <1>2 DEF IngressLapse, TypeOK, Channel, DriveOrigin
<1>3. ASSUME NEW e \in Engines, NEW a \in batch[e], PublishAnnounced(e, a)
      PROVE  DriveOrigin
  <2>1. a.due => row[a.row].due
    BY DEF DueSeen, BatchIsDue
  <2>2. a.row \in Rows /\ ingress \in [Rows -> Channel]
    BY DEF TypeOK
  <2> QED BY <1>3, <2>1, <2>2 DEF PublishAnnounced, Published, DriveOrigin
<1>4. ASSUME NEW e \in Engines, NEW r \in Rows, DriveReceive(e, r)
      PROVE  DriveOrigin
  BY <1>4 DEF DriveReceive, TypeOK, Channel, DriveOrigin
<1>5. ASSUME NEW e \in Engines, DriveAck(e)
      PROVE  DriveOrigin
  BY <1>5 DEF DriveAck, Acked, TypeOK, Channel, DriveOrigin
<1>6. ASSUME NEW t \in tasks, WakeDrive(t)
      PROVE  DriveOrigin
  BY <1>6 DEF WakeDrive, Published, TypeOK, Channel, DriveOrigin
<1>7. ASSUME NEW e \in Engines, DriveFails(e)
      PROVE  DriveOrigin
  <2>1. eng[e].row \in Rows /\ row[eng[e].row].due
    BY <1>7, Working DEF DriveFails, DueSeen, WorkedIsDue
  <2>2. ingress \in [Rows -> Channel]
    BY DEF TypeOK
  <2> QED BY <1>7, <2>1, <2>2 DEF DriveFails, Acked, Nacked, DriveOrigin
<1>8. ASSUME BrokerRestart PROVE  DriveOrigin
  BY <1>8 DEF BrokerRestart, Fault, TypeOK, Channel, DriveOrigin
<1> QED
  BY <1>1, <1>2, <1>3, <1>4, <1>5, <1>6, <1>7, <1>8
  DEF Next, Clock, Publisher, IngressStep, Waker, Faulty, Quiet, enqueue_ready_node, BecomeDue,
      ClaimLapse, AnnounceLapse, Announce, claim_ready_node, complete_ready_node,
      release_ready_node, EndRun, WakeReceive, WakeLapse, WakeAck, WakeNack, Reap, EngineCrash,
      EndRunInterrupted, PublishFails, WakerCrash, vars

\* A consumer gets its row from the ingress channel and keeps it.
LEMMA WorkStep ==
    ASSUME TypeOK, [Next]_vars
    PROVE  WorkOrigin
<1>1. ASSUME UNCHANGED eng PROVE  WorkOrigin
  BY <1>1 DEF TypeOK, Idle, Consumer, WorkOrigin
<1>2. ASSUME NEW r \in Rows, ClaimLapse(r)
      PROVE  WorkOrigin
  BY <1>2 DEF ClaimLapse, Pending, TypeOK, Idle, Consumer, WorkOrigin
<1>3. ASSUME NEW r \in Rows, IngressLapse(r)
      PROVE  WorkOrigin
  BY <1>3 DEF IngressLapse, TypeOK, Idle, Consumer, WorkOrigin
<1>4. ASSUME NEW e \in Engines, NEW r \in Rows, DriveReceive(e, r)
      PROVE  WorkOrigin
  BY <1>4 DEF DriveReceive, TypeOK, Idle, Consumer, WorkOrigin
<1>5. ASSUME NEW e \in Engines, claim_ready_node(e)
      PROVE  WorkOrigin
  BY <1>5 DEF claim_ready_node, Claimable, Pending, TypeOK, Idle, Consumer, WorkOrigin
<1>6. ASSUME NEW e \in Engines, complete_ready_node(e)
      PROVE  WorkOrigin
  BY <1>6 DEF complete_ready_node, TypeOK, Idle, Consumer, WorkOrigin
<1>7. ASSUME NEW e \in Engines, release_ready_node(e)
      PROVE  WorkOrigin
  BY <1>7 DEF release_ready_node, Pending, TypeOK, Idle, Consumer, WorkOrigin
<1>8. ASSUME NEW e \in Engines, DriveAck(e)
      PROVE  WorkOrigin
  BY <1>8 DEF DriveAck, Acked, TypeOK, Idle, Consumer, WorkOrigin
<1>9. ASSUME NEW e \in Engines, EngineCrash(e)
      PROVE  WorkOrigin
  BY <1>9 DEF EngineCrash, Fault, TypeOK, Idle, Consumer, WorkOrigin
<1>10. ASSUME NEW e \in Engines, EndRunInterrupted(e)
       PROVE  WorkOrigin
  BY <1>10 DEF EndRunInterrupted, Fault, TypeOK, Idle, Consumer, WorkOrigin
<1>11. ASSUME NEW e \in Engines, DriveFails(e)
       PROVE  WorkOrigin
  BY <1>11 DEF DriveFails, Fault, Acked, Nacked, TypeOK, Idle, Consumer, WorkOrigin
<1>12. ASSUME BrokerRestart PROVE  WorkOrigin
  BY <1>12 DEF BrokerRestart, Fault, TypeOK, Idle, Consumer, WorkOrigin
<1> QED
  BY <1>1, <1>2, <1>3, <1>4, <1>5, <1>6, <1>7, <1>8, <1>9, <1>10, <1>11, <1>12
  DEF Next, Clock, Publisher, IngressStep, Waker, Faulty, Quiet, enqueue_ready_node, BecomeDue,
      AnnounceLapse, Announce, PublishAnnounced, EndRun, WakeReceive, WakeLapse, WakeDrive,
      WakeAck, WakeNack, Reap, PublishFails, WakerCrash, vars

\* An announcement says what its row was.
LEMMA BatchStep ==
    ASSUME TypeOK, [Next]_vars
    PROVE  BatchOrigin
<1>1. ASSUME UNCHANGED batch PROVE  BatchOrigin
  BY <1>1 DEF TypeOK, BatchOrigin
<1>2. ASSUME NEW e \in Engines, Announce(e)
      PROVE  BatchOrigin
  BY <1>2 DEF Announce, Announceable, Claimable, Pending, TypeOK, BatchOrigin
<1>3. ASSUME NEW e \in Engines, NEW a \in batch[e], PublishAnnounced(e, a)
      PROVE  BatchOrigin
  BY <1>3 DEF PublishAnnounced, Published, TypeOK, BatchOrigin
<1>4. ASSUME NEW e \in Engines, EngineCrash(e)
      PROVE  BatchOrigin
  BY <1>4 DEF EngineCrash, Fault, TypeOK, BatchOrigin
<1>5. ASSUME NEW e \in Engines, EndRunInterrupted(e)
      PROVE  BatchOrigin
  BY <1>5 DEF EndRunInterrupted, Fault, TypeOK, BatchOrigin
<1>6. ASSUME NEW e \in Engines, NEW a \in batch[e], PublishFails(e, a)
      PROVE  BatchOrigin
  BY <1>6 DEF PublishFails, Fault, TypeOK, BatchOrigin
<1> QED
  BY <1>1, <1>2, <1>3, <1>4, <1>5, <1>6
  DEF Next, Clock, Publisher, IngressStep, Waker, Faulty, Quiet, enqueue_ready_node, BecomeDue,
      ClaimLapse, AnnounceLapse, IngressLapse, DriveReceive, claim_ready_node,
      complete_ready_node, release_ready_node, EndRun, DriveAck, WakeReceive, WakeLapse,
      WakeDrive, WakeAck, WakeNack, Reap, DriveFails, WakerCrash, BrokerRestart, vars

\* A driver keeps its claim, or its claim has lapsed and it has overrun.
LEMMA ClaimStep ==
    ASSUME TypeOK, DueSeen, ClaimKept, [Next]_vars
    PROVE  ClaimKept'
<1>1. ASSUME UNCHANGED <<row, eng>> PROVE  ClaimKept'
  BY <1>1 DEF TypeOK, RowRecord, Idle, Consumer, ClaimKept, DriverHasClaim
<1>2. ASSUME NEW r \in Rows, NEW due \in BOOLEAN, enqueue_ready_node(r, due)
      PROVE  ClaimKept'
  <2> SUFFICES ASSUME NEW e \in Engines, eng'[e].phase = "driving", ~eng'[e].overran
               PROVE  /\ row'[eng'[e].row].claimedBy = e
                      /\ row'[eng'[e].row].status = "pending" => ~row'[eng'[e].row].claimLapsed
    BY DEF ClaimKept, DriverHasClaim
  <2>1. eng' = eng
    BY <1>2 DEF enqueue_ready_node
  <2>2. eng[e].row \in Rows /\ eng[e] # Idle
    BY <2>1, Working
  <2>3. row[eng[e].row].status # "absent"
    BY <2>2 DEF DueSeen, AbsentNotDue, WorkedIsDue
  <2>4. eng[e].row # r
    BY <1>2, <2>3 DEF enqueue_ready_node
  <2>5. /\ row'[eng[e].row].claimedBy = row[eng[e].row].claimedBy
        /\ row'[eng[e].row].claimLapsed = row[eng[e].row].claimLapsed
        /\ row'[eng[e].row].status = "pending" => row[eng[e].row].status = "pending"
    BY <1>2, <2>2, <2>4 DEF enqueue_ready_node, Settled, TypeOK, RowRecord
  <2> QED BY <2>1, <2>5 DEF ClaimKept, DriverHasClaim
<1>3. ASSUME NEW r \in Rows, BecomeDue(r)
      PROVE  ClaimKept'
  BY <1>3 DEF BecomeDue, Pending, TypeOK, RowRecord, Idle, Consumer, ClaimKept, DriverHasClaim
<1>4. ASSUME NEW r \in Rows, ClaimLapse(r)
      PROVE  ClaimKept'
  BY <1>4 DEF ClaimLapse, Pending, TypeOK, RowRecord, Idle, Consumer, ClaimKept, DriverHasClaim
<1>5. ASSUME NEW r \in Rows, AnnounceLapse(r)
      PROVE  ClaimKept'
  BY <1>5 DEF AnnounceLapse, Pending, TypeOK, RowRecord, Idle, Consumer, ClaimKept,
      DriverHasClaim
<1>6. ASSUME NEW r \in Rows, IngressLapse(r)
      PROVE  ClaimKept'
  BY <1>6 DEF IngressLapse, TypeOK, RowRecord, Idle, Consumer, ClaimKept, DriverHasClaim
<1>7. ASSUME NEW e \in Engines, Announce(e)
      PROVE  ClaimKept'
  BY <1>7 DEF Announce, Announceable, Claimable, Pending, TypeOK, RowRecord, Idle, Consumer,
      ClaimKept, DriverHasClaim
<1>8. ASSUME NEW e \in Engines, NEW r \in Rows, DriveReceive(e, r)
      PROVE  ClaimKept'
  BY <1>8 DEF DriveReceive, TypeOK, RowRecord, Idle, Consumer, ClaimKept, DriverHasClaim
<1>9. ASSUME NEW e \in Engines, claim_ready_node(e)
      PROVE  ClaimKept'
  <2>1. PICK r \in Rows : r = eng[e].row
    BY <1>9, Working DEF claim_ready_node
  <2>2. row \in [Rows -> RowRecord] /\ eng \in [Engines -> {Idle} \cup Consumer] /\ eng[e] \in Consumer
    BY <1>9, Working DEF TypeOK, claim_ready_node
  <2>3. \A d \in Engines : eng[d].phase = "driving" =>
           eng[d].row \in Rows /\ d # Nobody
    BY EnginesAssumption, Working
  <2> DEFINE ok == Claimable(r) \/ (Pending(r) /\ row[r].claimedBy = e)
  <2>4. CASE ok
    <3>1. /\ row' = [row EXCEPT ![r].claimedBy = e, ![r].claimLapsed = FALSE]
          /\ eng' = [eng EXCEPT ![e].phase = "driving"]
      BY <1>9, <2>1, <2>4 DEF claim_ready_node
    <3>2. /\ row'[r].claimedBy = e /\ ~row'[r].claimLapsed
          /\ \A s \in Rows \ {r} : row'[s] = row[s]
      BY <2>2, <3>1 DEF RowRecord
    <3>3. eng'[e].row = r /\ \A d \in Engines \ {e} : eng'[d] = eng[d]
      BY <2>1, <2>2, <3>1 DEF Consumer
    <3>4. ASSUME NEW d \in Engines \ {e}, eng[d].phase = "driving", ~eng[d].overran
          PROVE  eng[d].row # r
      BY <2>3, <2>4, <3>4 DEF ClaimKept, DriverHasClaim, Claimable, Pending
    <3> HIDE DEF ok
    <3> QED BY <2>3, <3>2, <3>3, <3>4 DEF ClaimKept, DriverHasClaim
  <2>5. CASE ~ok
    <3>1. row' = row /\ eng' = [eng EXCEPT ![e].phase = "finished"]
      BY <1>9, <2>1, <2>5 DEF claim_ready_node
    <3>2. eng'[e].phase = "finished" /\ \A d \in Engines \ {e} : eng'[d] = eng[d]
      BY <2>2, <3>1 DEF Consumer
    <3> HIDE DEF ok
    <3> QED BY <3>1, <3>2 DEF ClaimKept, DriverHasClaim
  <2> QED BY <2>4, <2>5
<1>10. ASSUME NEW e \in Engines, complete_ready_node(e)
       PROVE  ClaimKept'
  BY <1>10 DEF complete_ready_node, TypeOK, RowRecord, Idle, Consumer, ClaimKept, DriverHasClaim
<1>11. ASSUME NEW e \in Engines, release_ready_node(e)
       PROVE  ClaimKept'
  BY <1>11 DEF release_ready_node, Pending, TypeOK, RowRecord, Idle, Consumer, ClaimKept,
      DriverHasClaim
<1>12. ASSUME NEW e \in Engines, EndRun(e)
       PROVE  ClaimKept'
  BY <1>12 DEF EndRun, Settled, Pending, TypeOK, RowRecord, Idle, Consumer, ClaimKept,
      DriverHasClaim
<1>13. ASSUME NEW e \in Engines, DriveAck(e)
       PROVE  ClaimKept'
  BY <1>13 DEF DriveAck, Acked, TypeOK, RowRecord, Idle, Consumer, ClaimKept, DriverHasClaim
<1>14. ASSUME Reap PROVE  ClaimKept'
  BY <1>14 DEF Reap, Settled, Pending, TypeOK, RowRecord, Idle, Consumer, ClaimKept,
      DriverHasClaim
<1>15. ASSUME NEW e \in Engines, EngineCrash(e)
       PROVE  ClaimKept'
  BY <1>15 DEF EngineCrash, Fault, TypeOK, RowRecord, Idle, Consumer, ClaimKept, DriverHasClaim
<1>16. ASSUME NEW e \in Engines, EndRunInterrupted(e)
       PROVE  ClaimKept'
  BY <1>16 DEF EndRunInterrupted, Fault, TypeOK, RowRecord, Idle, Consumer, ClaimKept,
      DriverHasClaim
<1>17. ASSUME NEW e \in Engines, DriveFails(e)
       PROVE  ClaimKept'
  BY <1>17 DEF DriveFails, Fault, Acked, Nacked, TypeOK, RowRecord, Idle, Consumer, ClaimKept,
      DriverHasClaim
<1>18. ASSUME BrokerRestart PROVE  ClaimKept'
  BY <1>18 DEF BrokerRestart, Fault, TypeOK, RowRecord, Idle, Consumer, ClaimKept,
      DriverHasClaim
<1> QED
  BY <1>1, <1>2, <1>3, <1>4, <1>5, <1>6, <1>7, <1>8, <1>9, <1>10, <1>11, <1>12, <1>13, <1>14,
      <1>15, <1>16, <1>17, <1>18
  DEF Next, Clock, Publisher, IngressStep, Waker, Faulty, Quiet, PublishAnnounced, WakeReceive,
      WakeLapse, WakeDrive, WakeAck, WakeNack, PublishFails, WakerCrash, vars

\* Together: what is known to be due stays known to be due.
LEMMA DueStep ==
    ASSUME TypeOK, DueSeen, [Next]_vars
    PROVE  DueSeen'
<1> USE DEF DueSeen
<1>1. RowMoves /\ DriveOrigin /\ WorkOrigin /\ BatchOrigin
  BY RowStep, DriveStep, WorkStep, BatchStep
<1>2. BatchOK'
  BY BatchType
<1>3. \A r \in Rows : row[r].due => row'[r].due
  BY <1>1 DEF RowMoves, AbsentNotDue
<1>4. AbsentNotDue(row)'
  BY <1>1 DEF RowMoves, AbsentNotDue
<1>5. QueuedIsDue(row, ingress)'
  BY <1>1, <1>3 DEF DriveOrigin, QueuedIsDue
<1>6. WorkedIsDue(row, eng)'
  <2> SUFFICES ASSUME NEW e \in Engines, eng'[e] # Idle
               PROVE  row'[eng'[e].row].due
    BY DEF WorkedIsDue
  <2>1. CASE eng[e] # Idle /\ eng'[e].row = eng[e].row
    <3>1. eng[e].row \in Rows /\ row[eng[e].row].due
      BY <2>1 DEF TypeOK, Consumer, WorkedIsDue
    <3> QED BY <1>3, <2>1, <3>1
  <2>2. CASE eng'[e].row \in Rows /\ ingress[eng'[e].row] # "absent"
    BY <1>3, <2>2 DEF QueuedIsDue
  <2> QED BY <1>1, <2>1, <2>2 DEF WorkOrigin
<1>7. BatchIsDue(row, batch)'
  <2> SUFFICES ASSUME NEW e \in Engines, NEW a \in batch'[e], a.due
               PROVE  row'[a.row].due
    BY DEF BatchIsDue
  <2>1. a.row \in Rows
    BY <1>2 DEF BatchOK
  <2>2. row[a.row].due
    BY <1>1 DEF BatchOrigin, BatchIsDue
  <2> QED BY <1>3, <2>1, <2>2
<1> QED BY <1>4, <1>5, <1>6, <1>7

\* The inductive invariant.
LEMMA Initially == Init => IInv
<1> SUFFICES ASSUME Init PROVE IInv
  OBVIOUS
<1>1. TypeOK
  <2>1. Cardinality(tasks) = 0
    BY FS_EmptySet DEF Init
  <2>2. row \in [Rows -> RowRecord]
    BY DEF Init, NewRow, RowRecord
  <2>3. wake \in [Rows -> Channel] /\ ingress \in [Rows -> Channel]
    BY DEF Init, Channel
  <2>4. /\ batch \in [Engines -> SUBSET [row : Rows, due : BOOLEAN]]
        /\ eng \in [Engines -> {Idle} \cup Consumer]
    BY DEF Init
  <2>5. tasks \in SUBSET Task /\ runDone \in SUBSET Runs /\ faults \in 0..MaxFaults
    BY DEF Init
  <2>6. Cardinality(tasks) <= WakerSlots
    BY <2>1
  <2> QED BY <2>2, <2>3, <2>4, <2>5, <2>6 DEF TypeOK
<1>2. FiniteTasks
  BY FS_EmptySet DEF Init, FiniteTasks
<1>3. DueSeen
  BY DEF Init, DueSeen, AbsentNotDue, QueuedIsDue, WorkedIsDue, BatchIsDue, NewRow
<1>4. ClaimKept
  BY DEF Init, ClaimKept, DriverHasClaim, Idle
<1> QED BY <1>1, <1>2, <1>3, <1>4 DEF IInv

\* Every step keeps IInv.
LEMMA Inductive == IInv /\ [Next]_vars => IInv'
<1> SUFFICES ASSUME IInv, [Next]_vars PROVE IInv'
  OBVIOUS
<1>1. RowOK' /\ ChannelOK' /\ EngineOK' /\ TaskOK' /\ BatchOK' /\ LimitOK'
  BY RowType, ChannelType, EngineType, TaskType, BatchType, LimitType DEF IInv
<1>2. TypeOK' /\ FiniteTasks'
  BY <1>1 DEF TypeOK, RowOK, ChannelOK, EngineOK, TaskOK, BatchOK, LimitOK
<1>3. DueSeen'
  BY DueStep DEF IInv
<1>4. ClaimKept'
  BY ClaimStep DEF IInv
<1> QED BY <1>2, <1>3, <1>4 DEF IInv

\* IInv holds in every state the queue, its loops and its faults can reach.
THEOREM Invariance == Spec => []IInv
BY Initially, Inductive, PTL DEF Spec

\* The state of the ready queue keeps its type, and the wakers their slots.
THEOREM TypeCorrect == Spec => []TypeOK
<1>1. IInv => TypeOK
  BY DEF IInv
<1> QED BY Invariance, <1>1, PTL

\* No replica drives a row, and no Drive is on the ingress channel, before the row is
\* due, although claim_ready_node does not look at ready_at.
THEOREM NeverEarly == Spec => []NoEarlyDrive
<1>1. IInv => NoEarlyDrive
  <2> SUFFICES ASSUME IInv PROVE NoEarlyDrive
    OBVIOUS
  <2>1. \A r \in Rows : ingress[r] # "absent" => row[r].due
    BY DEF IInv, DueSeen, QueuedIsDue
  <2>2. ASSUME NEW e \in Engines, NEW r \in Rows, Driving(e, r)
        PROVE  row[r].due
    <3>1. eng[e] # Idle /\ eng[e].row = r
      BY <2>2 DEF Driving, Idle
    <3> QED BY <3>1 DEF IInv, DueSeen, WorkedIsDue
  <2> QED BY <2>1, <2>2 DEF NoEarlyDrive
<1> QED BY Invariance, <1>1, PTL

\* Two replicas drive one row at the same time only if one of them outlived the lease
\* of its claim.
THEOREM DrivenByOne == Spec => []ExclusiveDrive
<1>1. IInv => ExclusiveDrive
  BY DEF IInv, ClaimKept, DriverHasClaim, ExclusiveDrive, Driving
<1> QED BY Invariance, <1>1, PTL

\* No step of any loop, driver, reaper or fault brings a completed row back.
THEOREM CompletedForGood == Spec => DoneIsFinal
<1>1. IInv /\ [Next]_vars => [\A r \in Rows : row[r].status = "done" => row'[r].status = "done"]_vars
  BY RowStep DEF IInv, RowMoves
<1> QED BY Invariance, <1>1, PTL DEF Spec, DoneIsFinal
===============================================================================
