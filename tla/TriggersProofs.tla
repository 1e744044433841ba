---------------------------- MODULE TriggersProofs ----------------------------
(***************************************************************************)
(* Proofs about cron triggers, for any triggers, schedules, blackouts,     *)
(* replicas, claim limit, and any number of edits and failures.            *)
(***************************************************************************)
EXTENDS Triggers, FiniteSetTheorems, TLAPS

USE TriggersAssumption, TablesAssumption DEF TriggerRow

\* The bounds are numbers.
LEMMA Bounds == Limit \in Nat /\ Limit > 0 /\ MaxTime \in Nat /\ MaxTrouble \in Nat
  BY TriggerBoundsAssumption

-------------------------------------------------------------------------------
(***************************************************************************)
(* The operators a claim is built from.                                    *)
(***************************************************************************)
\* The next instant of a schedule lies after the time it is computed for.
LEMMA NextIsLater ==
    ASSUME NEW t \in Triggers, NEW at \in Nat
    PROVE  next_execution_for_cron(t, at) \in Nat /\ next_execution_for_cron(t, at) > at
<1> DEFINE e == Every[t]
           d == at \div e
<1>1. e \in Nat /\ e > 0
  OBVIOUS
<1> HIDE DEF e
<1>2. d \in Nat /\ (at % e) \in Nat /\ (at % e) < e /\ at = (e * d) + (at % e)
  BY <1>1
<1> HIDE DEF d
<1>3. e * (d + 1) = e * d + e /\ e * d \in Nat
  BY <1>1, <1>2, Bounds
<1>4. next_execution_for_cron(t, at) = e * (d + 1)
  BY DEF next_execution_for_cron, e, d
<1> QED BY <1>1, <1>2, <1>3, <1>4

\* A blackout that holds at an instant does not end before it.
LEMMA BlackoutEnds ==
    ASSUME NEW t \in Triggers, NEW at \in Nat, is_trigger_in_blackout(t, at)
    PROVE  blackout_end(t) \in Nat /\ blackout_end(t) >= at
<1>1. at \in Blackout[t] /\ Blackout[t] \subseteq Nat
  BY DEF is_trigger_in_blackout
<1>2. \E b \in Blackout[t] : \A c \in Blackout[t] : c <= b
  BY <1>1
<1>3. blackout_end(t) \in Blackout[t] /\ \A c \in Blackout[t] : c <= blackout_end(t)
  BY <1>2 DEF blackout_end
<1> QED BY <1>1, <1>3

\* The order of a claim is a strict total order of the triggers.
LEMMA BeforeIsOrder ==
    ASSUME TypeOK, NEW t \in Triggers, NEW u \in Triggers, NEW v \in Triggers
    PROVE  /\ ~Before(t, t)
           /\ t # u => Before(t, u) \/ Before(u, t)
           /\ Before(t, u) /\ Before(u, v) => Before(t, v)
<1> DEFINE rank(x) == IF trig[x].next = Never THEN 0 ELSE trig[x].next
<1>1. \A x \in Triggers : rank(x) \in Nat /\ x \in Nat
  BY DEF TypeOK, Instants, Never
<1> HIDE DEF rank
<1>2. \A x, y \in Triggers : Before(x, y) <=> rank(x) < rank(y) \/ (rank(x) = rank(y) /\ x < y)
  BY DEF Before, rank
<1> QED BY <1>1, <1>2

\* A claim takes Limit triggers at most: the number of due triggers before a claimed one
\* tells the claimed ones apart and is below Limit.
LEMMA ClaimIsBounded ==
    ASSUME TypeOK, NEW kind, NEW at
    PROVE  IsFiniteSet(Claimed(kind, at)) /\ Cardinality(Claimed(kind, at)) <= Limit
<1> DEFINE S == Claimed(kind, at)
           P(t) == {u \in Triggers : Due(u, kind, at) /\ Before(u, t)}
           f == [t \in S |-> Cardinality(P(t))]
<1>1. \A t \in Triggers : IsFiniteSet(P(t)) /\ Cardinality(P(t)) \in Nat
  <2> TAKE t \in Triggers
  <2>1. P(t) \subseteq Triggers
    OBVIOUS
  <2> QED BY <2>1, FS_Subset, FS_CardinalityType
<1>2. \A t \in S : t \in Triggers /\ Due(t, kind, at) /\ Cardinality(P(t)) < Limit
  BY DEF Claimed
<1>3. ASSUME NEW t \in S, NEW u \in S, Before(t, u)
      PROVE  Cardinality(P(t)) # Cardinality(P(u))
  <2>0. t \in Triggers /\ u \in Triggers
    BY <1>2
  <2>1. \A v \in P(t) : v \in P(u)
    BY <1>3, <2>0, BeforeIsOrder
  <2>2. t \in P(u)
    BY <1>2, <1>3
  <2>3. t \notin P(t)
    BY <2>0, BeforeIsOrder
  <2> QED BY <1>1, <2>0, <2>1, <2>2, <2>3, FS_Subset
<1>4. \A t, u \in S : t # u => Before(t, u) \/ Before(u, t)
  BY <1>2, BeforeIsOrder
<1>5. \A t, u \in S : t # u => f[t] # f[u]
  BY <1>3, <1>4
<1> HIDE DEF P
<1>6. f \in [S -> 0..(Limit - 1)]
  <2>1. ASSUME NEW t \in S PROVE Cardinality(P(t)) \in 0..(Limit - 1)
    <3>1. Cardinality(P(t)) \in Nat /\ Cardinality(P(t)) < Limit
      BY <1>1, <1>2, Zenon
    <3> QED BY <3>1, Bounds
  <2> QED BY <2>1, Zenon
<1> HIDE DEF f, S
<1>7. f \in Injection(S, 0..(Limit - 1))
  BY <1>5, <1>6 DEF Injection, IsInjective
<1>8. IsFiniteSet(0..(Limit - 1)) /\ Cardinality(0..(Limit - 1)) = Limit
  BY FS_Interval, Bounds
<1>9. IsFiniteSet(S) /\ Cardinality(S) <= Limit
  BY <1>7, <1>8, FS_Injection
<1> QED BY <1>9 DEF S

-------------------------------------------------------------------------------
(***************************************************************************)
(* The inductive invariant.  CatchUpOnce alone is not inductive: it speaks *)
(* of the instants that fired, and the next one to fire is in the row of   *)
(* the trigger.  Ahead says that this one lies after the time of every run *)
(* the trigger has had.  OrphansAreEarned needs that what a failure leaves *)
(* behind is one claim: replicas have different runs to start, only in     *)
(* their start phase, and never more than a claim creates.                 *)
(***************************************************************************)
\* The row of a trigger waits for an instant after the time of all its runs, unless it
\* was saved with an old one.
Ahead ==
    \A r \in runs :
        /\ r.run.key <= r.at
        /\ r.run.gen <= trig[r.run.trigger].gen
        /\ r.run.gen = trig[r.run.trigger].gen /\ Incarnation(r.run.trigger) \notin rewound
              => r.at < trig[r.run.trigger].next

\* What the replicas have yet to start.
Shares ==
    /\ IsFiniteSet(runs)
    /\ \A p, q \in Replicas : p # q => loop[p].todo \cap loop[q].todo = {}
    /\ \A p \in Replicas : Cardinality(loop[p].todo) <= Limit
    /\ \A p \in Replicas : loop[p].phase # "start" => loop[p].todo = {}

IInv == TypeOK /\ OncePerSlot /\ CatchUpOnce /\ Ahead /\ Shares /\ OrphansAreEarned

LEMMA InitIInv == Init => IInv
<1> SUFFICES ASSUME Init PROVE IInv
  OBVIOUS
<1> USE DEF Init
<1>1. TypeOK
  BY TriggerBoundsAssumption DEF TypeOK, LoopState, Fresh, FirstLoop, NoEdit, Instants, Never
<1>2. OncePerSlot /\ CatchUpOnce /\ Ahead
  BY DEF OncePerSlot, CatchUpOnce, Ahead
<1>3. Shares
  BY FS_EmptySet, Bounds DEF Shares, FirstLoop
<1>4. OrphansAreEarned
  <2>1. Orphans = {}
    BY DEF Orphans
  <2> QED BY <2>1, FS_EmptySet, Bounds DEF OrphansAreEarned
<1> QED BY <1>1, <1>2, <1>3, <1>4 DEF IInv

\* The parts of the invariant that only look at the table of triggers and at the runs.
Slots == OncePerSlot /\ CatchUpOnce /\ Ahead

LEMMA SlotsUnchanged ==
    ASSUME Slots, runs' = runs, trig' = trig, rewound' = rewound
    PROVE  Slots'
BY DEF Slots, OncePerSlot, CatchUpOnce, Ahead, Incarnation

\* Nothing new is orphaned while no failure happens.
LEMMA NoNewOrphans ==
    ASSUME IInv, Orphans' \subseteq Orphans, budget'.faults = budget.faults
    PROVE  OrphansAreEarned'
<1>1. IsFiniteSet(Orphans)
  BY FS_Subset DEF IInv, Shares, Orphans
<1>2. Cardinality(Orphans') <= Cardinality(Orphans) /\ Cardinality(Orphans) \in Nat
      /\ Cardinality(Orphans') \in Nat
  BY <1>1, FS_Subset, FS_CardinalityType
<1>3. Limit * budget.faults \in Nat
  BY Bounds DEF IInv, TypeOK
<1> QED BY <1>2, <1>3 DEF IInv, OrphansAreEarned

-------------------------------------------------------------------------------
(***************************************************************************)
(* The loop of a replica.                                                  *)
(***************************************************************************)
LEMMA ReadClockStep ==
    ASSUME IInv, NEW p \in Replicas, ReadClock(p)
    PROVE  IInv'
<1> USE DEF ReadClock
<1>1. loop[p] \in LoopState /\ now \in Nat /\ loop[p].todo = {}
  BY Bounds DEF IInv, TypeOK, Shares
<1>2. loop' = [loop EXCEPT ![p] = [loop[p] EXCEPT !.phase = "claim", !.clock = now]]
  OBVIOUS
<1>3. [loop[p] EXCEPT !.phase = "claim", !.clock = now] \in LoopState
  <2>1. now \in 0..now
    BY <1>1
  <2> QED BY <1>1, <2>1 DEF LoopState
<1>4. /\ loop' \in [Replicas -> LoopState]
      /\ \A q \in Replicas : loop'[q].todo = loop[q].todo
      /\ \A q \in Replicas : q # p => loop'[q] = loop[q]
  BY <1>1, <1>2, <1>3 DEF IInv, TypeOK, LoopState
<1>5. TypeOK'
  BY <1>4 DEF IInv, TypeOK, LoopState
<1>6. Slots'
  BY SlotsUnchanged DEF IInv, Slots
<1>7. Shares'
  BY <1>1, <1>4 DEF IInv, Shares
<1>8. OrphansAreEarned'
  BY <1>4, NoNewOrphans DEF Orphans
<1> QED BY <1>5, <1>6, <1>7, <1>8 DEF IInv, Slots

\* A replica that goes on has nothing to start.
LEMMA GoesOnType ==
    ASSUME TypeOK, NEW p \in Replicas, NEW S
    PROVE  /\ GoesOn(p) \in [phase : {"read", "claim", "start"}, kind : {"workflow", "pipeline"},
                              clock : 0..now, todo : SUBSET S]
           /\ GoesOn(p).todo = {} /\ GoesOn(p).phase = "read"
<1>1. NextKind(loop[p].kind) \in {"workflow", "pipeline"} /\ 0 \in 0..now
  BY Bounds DEF NextKind, TypeOK
<1> QED BY <1>1 DEF GoesOn, FirstLoop

\* A claim fires instants that are not on record and moves their triggers on.
LEMMA ClaimStep ==
    ASSUME IInv, NEW p \in Replicas, claim_due_trigger_firings(p)
    PROVE  IInv'
<1> DEFINE at == loop[p].clock
           claimed == Claimed(loop[p].kind, at)
           dated == {t \in claimed : trig[t].next # Never}
           quiet == {t \in dated : is_trigger_in_blackout(t, at)}
           fires == {t \in dated \ quiet : ~recorded(t)}
           new == {[run |-> FireKey(t), at |-> at,
                    n |-> Cardinality({r \in runs : r.run = FireKey(t)})] : t \in fires}
           moved == [t \in Triggers |->
                        IF t \in quiet THEN [trig[t] EXCEPT !.next = blackout_end(t)]
                        ELSE IF t \in fires \/ t \in claimed \ dated
                        THEN [trig[t] EXCEPT !.next = next_execution_for_cron(t, at)]
                        ELSE trig[t]]
<1>1. /\ trig' = moved
      /\ firings' = firings \cup {FireKey(t) : t \in fires}
      /\ runs' = runs \cup new
      /\ loop' = [loop EXCEPT ![p] = IF new = {} THEN GoesOn(p)
                                     ELSE [@ EXCEPT !.phase = "start", !.todo = new]]
      /\ UNCHANGED <<now, started, web, rewound, budget>>
      /\ loop[p].phase = "claim"
  BY DEF claim_due_trigger_firings
<1>2. at \in Nat /\ at <= now /\ loop[p].todo = {} /\ loop[p] \in LoopState
  BY <1>1, Bounds DEF IInv, TypeOK, Shares, LoopState
<1>3. /\ \A t \in claimed : t \in Triggers /\ Due(t, loop[p].kind, at)
      /\ quiet \subseteq dated /\ fires \subseteq dated /\ dated \subseteq claimed
      /\ fires \cap quiet = {}
  BY DEF Claimed
<1>4. \A t \in dated : trig[t].next \in Nat /\ trig[t].next <= at
  BY <1>3 DEF Due, IInv, TypeOK, Instants
<1>5. \A t \in fires : FireKey(t) \notin firings
  BY DEF recorded
<1>6. \A t \in fires : FireKey(t) \in Keys
  BY <1>3, <1>4 DEF FireKey, Keys, IInv, TypeOK
<1>7. \A t \in fires : Cardinality({r \in runs : r.run = FireKey(t)}) = 0
  <2> TAKE t \in fires
  <2>1. {r \in runs : r.run = FireKey(t)} = {}
    BY <1>5 DEF IInv, TypeOK
  <2> QED BY <2>1, FS_EmptySet
<1>8. new = {[run |-> FireKey(t), at |-> at, n |-> 0] : t \in fires}
  BY <1>7
<1>9. \A t \in quiet : blackout_end(t) \in Nat /\ blackout_end(t) >= at
  BY <1>2, <1>3, BlackoutEnds
<1>10. \A t \in claimed : next_execution_for_cron(t, at) \in Nat /\ next_execution_for_cron(t, at) > at
  BY <1>2, <1>3, NextIsLater
<1> HIDE DEF new, fires, quiet, dated, claimed
<1>11. ASSUME NEW t \in Triggers
       PROVE  /\ trig'[t] \in TriggerRow
              /\ trig'[t].gen = trig[t].gen
              /\ t \in fires => trig'[t].next > at
              /\ trig[t].next # Never => trig'[t].next >= trig[t].next
  <2>1. trig[t] \in TriggerRow
    BY DEF IInv, TypeOK
  <2>2. CASE t \in quiet
    <3>1. trig'[t] = [trig[t] EXCEPT !.next = blackout_end(t)]
      BY <1>1, <2>2
    <3> QED BY <1>2, <1>3, <1>4, <1>9, <2>1, <2>2, <3>1 DEF Instants
  <2>3. CASE t \notin quiet /\ (t \in fires \/ t \in claimed \ dated)
    <3>1. trig'[t] = [trig[t] EXCEPT !.next = next_execution_for_cron(t, at)]
      BY <1>1, <2>3
    <3>2. t \in fires => trig[t].next <= at
      BY <1>3, <1>4
    <3>3. t \in claimed \ dated => trig[t].next = Never
      BY DEF dated
    <3> QED BY <1>2, <1>3, <1>4, <1>10, <2>1, <2>3, <3>1, <3>2, <3>3 DEF Instants
  <2>4. CASE t \notin quiet /\ t \notin fires /\ t \notin claimed \ dated
    <3>1. trig'[t] = trig[t]
      BY <1>1, <2>4
    <3> QED BY <2>1, <2>4, <3>1 DEF Instants, Never
  <2> QED BY <2>2, <2>3, <2>4
<1>12. trig' \in [Triggers -> TriggerRow]
  BY <1>1, <1>11
<1> HIDE DEF moved
<1>13. ASSUME NEW x \in new
       PROVE  /\ x \in [run : Keys, at : Nat, n : Nat] /\ x.at = at /\ x.n = 0
              /\ x.run \notin firings /\ x.run.trigger \in fires
              /\ x.run.gen = trig[x.run.trigger].gen /\ x.run.key = trig[x.run.trigger].next
              /\ x.run.key \in Nat /\ x.run = FireKey(x.run.trigger)
  <2>1. PICK t \in fires : x = [run |-> FireKey(t), at |-> at, n |-> 0]
    BY <1>8
  <2>2. FireKey(t).trigger = t /\ FireKey(t).gen = trig[t].gen /\ FireKey(t).key = trig[t].next
    BY DEF FireKey
  <2>3. FireKey(t).key \in Nat
    BY <1>6 DEF Keys
  <2> QED BY <1>2, <1>5, <1>6, <2>1, <2>2, <2>3
<1>14. new \cap runs = {}
  BY <1>13 DEF IInv, TypeOK
<1>15. firings' = {r.run : r \in runs'}
  <2>1. {FireKey(t) : t \in fires} \subseteq {x.run : x \in new}
    <3> SUFFICES ASSUME NEW t \in fires PROVE FireKey(t) \in {x.run : x \in new}
      OBVIOUS
    <3>1. [run |-> FireKey(t), at |-> at, n |-> 0] \in new
      BY <1>8
    <3> QED BY <3>1
  <2>2. {x.run : x \in new} \subseteq {FireKey(t) : t \in fires}
    BY <1>13
  <2>3. firings' = firings \cup {x.run : x \in new} /\ firings = {r.run : r \in runs}
    BY <1>1, <2>1, <2>2 DEF IInv, TypeOK
  <2>4. \A r \in runs' : r.run \in firings'
    BY <1>1, <2>3
  <2>5. \A k \in firings' : \E r \in runs' : k = r.run
    BY <1>1, <2>3
  <2> QED BY <2>4, <2>5
<1>16. TypeOK'
  <2>1. runs' \subseteq [run : Keys, at : Nat, n : Nat] /\ started' \subseteq runs'
    BY <1>1, <1>13 DEF IInv, TypeOK
  <2>2. GoesOn(p) \in LoopState'
    BY <1>1, GoesOnType DEF IInv, LoopState
  <2>3. [loop[p] EXCEPT !.phase = "start", !.todo = new] \in LoopState'
    BY <1>1, <1>2, <1>14 DEF IInv, TypeOK, LoopState
  <2>4. \A q \in Replicas : loop[q] \in LoopState'
    BY <1>1 DEF IInv, TypeOK, LoopState
  <2>5. loop' \in [Replicas -> LoopState']
    BY <1>1, <2>2, <2>3, <2>4 DEF IInv, TypeOK
  <2> QED BY <1>1, <1>12, <1>15, <2>1, <2>5 DEF IInv, TypeOK
<1>17. OncePerSlot'
  BY <1>1, <1>13 DEF IInv, OncePerSlot, TypeOK
<1>18. CatchUpOnce'
  <2> SUFFICES ASSUME NEW r \in runs', NEW s \in runs',
                      r.run.trigger = s.run.trigger, r.run.gen = s.run.gen, r.run.key < s.run.key,
                      [trigger |-> r.run.trigger, gen |-> r.run.gen] \notin rewound
               PROVE  r.at < s.run.key
    BY <1>1 DEF CatchUpOnce
  <2> DEFINE t == r.run.trigger
  <2>0. \A x \in new : x.run.gen = trig[x.run.trigger].gen /\ x.run.key = trig[x.run.trigger].next
                       /\ x.run.key \in Nat
    BY <1>13
  <2>1. CASE r \in runs /\ s \in runs
    BY <2>1 DEF IInv, CatchUpOnce
  <2>2. CASE r \in runs /\ s \in new
    BY <2>0, <2>2 DEF IInv, Ahead, Incarnation
  <2>3. CASE r \in new /\ s \in runs
    <3>1. s.run.key <= s.at /\ s.at < trig[t].next /\ r.run.key = trig[t].next
      BY <2>0, <2>3 DEF IInv, Ahead, Incarnation
    <3>2. s.run.key \in Nat /\ s.at \in Nat /\ r.run.key \in Nat
      BY <2>0, <2>3 DEF IInv, TypeOK, Keys
    <3> QED BY <3>1, <3>2
  <2>4. CASE r \in new /\ s \in new
    BY <2>0, <2>4
  <2> QED BY <1>1, <2>1, <2>2, <2>3, <2>4
<1>19. Ahead'
  <2> SUFFICES ASSUME NEW r \in runs'
               PROVE  /\ r.run.key <= r.at
                      /\ r.run.gen <= trig'[r.run.trigger].gen
                      /\ r.run.gen = trig'[r.run.trigger].gen
                         /\ [trigger |-> r.run.trigger, gen |-> trig'[r.run.trigger].gen] \notin rewound
                            => r.at < trig'[r.run.trigger].next
    BY <1>1 DEF Ahead, Incarnation
  <2>1. CASE r \in new
    <3>1. r.run.trigger \in fires /\ r.run.trigger \in dated /\ r.run.trigger \in Triggers /\ r.at = at
          /\ r.run.gen = trig[r.run.trigger].gen /\ r.run.key = trig[r.run.trigger].next
      BY <1>3, <1>13, <2>1
    <3>2. trig[r.run.trigger].gen \in Nat
      BY <3>1 DEF IInv, TypeOK
    <3> QED BY <1>4, <1>11, <3>1, <3>2
  <2>2. CASE r \in runs
    <3> DEFINE t == r.run.trigger
    <3>1. t \in Triggers /\ r.at \in Nat /\ trig[t].next \in Instants
      BY <2>2 DEF IInv, TypeOK, Keys
    <3>2. /\ r.run.key <= r.at
          /\ r.run.gen <= trig[t].gen
          /\ r.run.gen = trig[t].gen /\ [trigger |-> t, gen |-> trig[t].gen] \notin rewound
                => r.at < trig[t].next
      BY <2>2 DEF IInv, Ahead, Incarnation
    <3>3. trig'[t].gen = trig[t].gen /\ (trig[t].next # Never => trig'[t].next >= trig[t].next)
          /\ trig'[t].next \in Instants
      BY <1>11, <3>1
    <3> HIDE DEF t
    <3>4. r.at < trig[t].next => r.at < trig'[t].next
      BY <3>1, <3>3 DEF Instants, Never
    <3> QED BY <3>2, <3>3, <3>4 DEF t
  <2> QED BY <1>1, <2>1, <2>2
<1>20. IsFiniteSet(new) /\ Cardinality(new) <= Limit
  <2> DEFINE g == [x \in new |-> x.run.trigger]
  <2>1. IsFiniteSet(claimed) /\ Cardinality(claimed) <= Limit /\ Cardinality(claimed) \in Nat
    BY ClaimIsBounded, FS_CardinalityType DEF claimed, IInv
  <2>2. \A x, y \in new : x.run.trigger = y.run.trigger => x = y
    BY <1>13
  <2>3. g \in Injection(new, claimed)
    BY <1>3, <1>13, <2>2 DEF Injection, IsInjective
  <2>4. IsFiniteSet(new) /\ Cardinality(new) <= Cardinality(claimed)
    BY <2>1, <2>3, FS_Injection
  <2> QED BY <2>1, <2>4, FS_CardinalityType, Bounds
<1>21. /\ loop'[p].todo = new /\ \A q \in Replicas : q # p => loop'[q] = loop[q]
       /\ loop'[p].phase # "start" => new = {}
  <2>1. loop'[p] = IF new = {} THEN GoesOn(p) ELSE [loop[p] EXCEPT !.phase = "start", !.todo = new]
    BY <1>1 DEF IInv, TypeOK
  <2>2. GoesOn(p).todo = {}
    BY GoesOnType DEF IInv
  <2>3. \A q \in Replicas : q # p => loop'[q] = loop[q]
    BY <1>1 DEF IInv, TypeOK
  <2> QED BY <1>2, <2>1, <2>2, <2>3 DEF LoopState
<1>22. Shares'
  <2>1. IsFiniteSet(runs')
    BY <1>1, <1>20, FS_Union DEF IInv, Shares
  <2>2. \A q \in Replicas : loop[q].todo \subseteq runs
    BY DEF IInv, TypeOK, LoopState
  <2>3. \A q, o \in Replicas : q # o => loop'[q].todo \cap loop'[o].todo = {}
    BY <1>14, <1>21, <2>2 DEF IInv, Shares
  <2> QED BY <1>20, <1>21, <2>1, <2>3 DEF IInv, Shares
<1>23. OrphansAreEarned'
  <2>1. Orphans' \subseteq Orphans
    BY <1>1, <1>2, <1>21 DEF Orphans
  <2> QED BY <1>1, <2>1, NoNewOrphans
<1> QED BY <1>16, <1>17, <1>18, <1>19, <1>22, <1>23 DEF IInv

\* Starting a run takes it from what the replica has yet to start.
LEMMA EnqueueStep ==
    ASSUME IInv, NEW p \in Replicas, enqueue_start_ready_node(p)
    PROVE  IInv'
<1>1. PICK r \in loop[p].todo :
         /\ started' = started \cup {r}
         /\ loop' = [loop EXCEPT ![p] = IF loop[p].todo = {r} THEN GoesOn(p)
                                        ELSE [loop[p] EXCEPT !.todo = @ \ {r}]]
  BY DEF enqueue_start_ready_node
<1>2. UNCHANGED <<now, trig, firings, runs, web, rewound, budget>> /\ loop[p].phase = "start"
  BY DEF enqueue_start_ready_node
<1>3. loop \in [Replicas -> LoopState] /\ loop[p] \in LoopState
  BY DEF IInv, TypeOK
<1> DEFINE rest == IF loop[p].todo = {r} THEN GoesOn(p) ELSE [loop[p] EXCEPT !.todo = @ \ {r}]
<1>a. loop' = [loop EXCEPT ![p] = rest]
  BY <1>1
<1> HIDE DEF rest
<1>4. loop'[p] = rest /\ \A q \in Replicas : q # p => loop'[q] = loop[q]
  BY <1>3, <1>a
<1>5. loop'[p].todo = loop[p].todo \ {r}
  BY <1>3, <1>4, GoesOnType DEF IInv, LoopState, rest
<1>6. \A q \in Replicas : q # p => r \notin loop[q].todo
  BY <1>1 DEF IInv, Shares
<1>7. r \in runs /\ loop[p].todo \subseteq runs
  BY <1>1, <1>3 DEF LoopState
<1>8. loop' \in [Replicas -> LoopState']
  <2>1. GoesOn(p) \in LoopState'
    BY <1>2, GoesOnType DEF IInv, LoopState
  <2>2. [loop[p] EXCEPT !.todo = @ \ {r}] \in LoopState'
    BY <1>1, <1>2, <1>3 DEF LoopState
  <2>3. \A q \in Replicas : q # p => loop[q] \in LoopState'
    BY <1>1, <1>2, <1>3, <1>6 DEF LoopState
  <2>4. \A q \in Replicas : loop'[q] \in LoopState'
    BY <1>4, <2>1, <2>2, <2>3 DEF rest
  <2> QED BY <1>3, <1>a, <2>4
<1>9. TypeOK'
  BY <1>1, <1>2, <1>7, <1>8 DEF IInv, TypeOK
<1>10. Slots'
  BY <1>2, SlotsUnchanged DEF IInv, Slots
<1>11. Cardinality(loop'[p].todo) <= Limit
  <2>1. IsFiniteSet(loop[p].todo) /\ Cardinality(loop[p].todo) <= Limit
    BY <1>7, FS_Subset DEF IInv, Shares
  <2>2. Cardinality(loop'[p].todo) <= Cardinality(loop[p].todo) /\ IsFiniteSet(loop'[p].todo)
    BY <1>5, <2>1, FS_Subset
  <2> QED BY <2>1, <2>2, FS_CardinalityType, Bounds
<1>12. Shares'
  <2>1. \A q, o \in Replicas : q # o => loop'[q].todo \cap loop'[o].todo = {}
    BY <1>4, <1>5 DEF IInv, Shares
  <2>2. loop'[p].phase # "start" => loop'[p].todo = {}
    BY <1>2, <1>3, <1>4, GoesOnType DEF IInv, LoopState, rest
  <2> QED BY <1>2, <1>4, <1>11, <2>1, <2>2 DEF IInv, Shares
<1>13. OrphansAreEarned'
  <2>1. Orphans' \subseteq Orphans
    BY <1>1, <1>2, <1>4, <1>5 DEF Orphans
  <2> QED BY <1>2, <2>1, NoNewOrphans
<1> QED BY <1>9, <1>10, <1>12, <1>13 DEF IInv, Slots

\* A replica that forgets what it had to start orphans that much and no more.
LEMMA FailureStep ==
    ASSUME IInv, NEW p \in Replicas, NEW rest, Spend("faults"),
           rest \in LoopState, rest.todo = {},
           loop' = [loop EXCEPT ![p] = rest],
           UNCHANGED <<now, trig, firings, runs, started, web, rewound>>
    PROVE  IInv'
<1>1. budget' = [budget EXCEPT !.faults = @ + 1] /\ budget.edits + budget.faults < MaxTrouble
  BY DEF Spend
<1>2. budget' \in [edits : Nat, faults : Nat] /\ budget'.edits + budget'.faults <= MaxTrouble
      /\ budget'.faults = budget.faults + 1 /\ budget.faults \in Nat
  BY <1>1, Bounds DEF IInv, TypeOK
<1>3. loop \in [Replicas -> LoopState]
  BY DEF IInv, TypeOK
<1>4. loop'[p] = rest /\ \A q \in Replicas : q # p => loop'[q] = loop[q]
  BY <1>3
<1>5. TypeOK'
  <2>1. loop' \in [Replicas -> LoopState] /\ LoopState' = LoopState
    BY <1>3 DEF LoopState
  <2> QED BY <1>2, <2>1 DEF IInv, TypeOK
<1>6. Slots'
  BY SlotsUnchanged DEF IInv, Slots
<1>7. Shares'
  BY <1>4, FS_EmptySet, Bounds, SMTT(30) DEF IInv, Shares
<1>8. OrphansAreEarned'
  <2> DEFINE todo == loop[p].todo
  <2>1. Orphans' \subseteq Orphans \cup todo
    BY <1>4 DEF Orphans
  <2>2. IsFiniteSet(Orphans) /\ IsFiniteSet(todo) /\ Cardinality(todo) <= Limit
    <3>1. todo \subseteq runs /\ Orphans \subseteq runs
      BY <1>3 DEF LoopState, Orphans
    <3> QED BY <3>1, FS_Subset DEF IInv, Shares
  <2> HIDE DEF todo
  <2>3. /\ IsFiniteSet(Orphans \cup todo)
        /\ Cardinality(Orphans \cup todo) <= Cardinality(Orphans) + Limit
    <3>1. /\ Cardinality(Orphans) \in Nat /\ Cardinality(todo) \in Nat
          /\ Cardinality(Orphans \cap todo) \in Nat
      BY <2>2, FS_Intersection, FS_CardinalityType
    <3>2. /\ IsFiniteSet(Orphans \cup todo)
          /\ Cardinality(Orphans \cup todo)
                = Cardinality(Orphans) + Cardinality(todo) - Cardinality(Orphans \cap todo)
      BY <2>2, FS_Union
    <3> QED BY <2>2, <3>1, <3>2, Bounds
  <2>4. Cardinality(Orphans') <= Cardinality(Orphans) + Limit
    BY <2>1, <2>2, <2>3, FS_Subset, FS_CardinalityType, Bounds
  <2>5. Limit * (budget.faults + 1) = Limit * budget.faults + Limit /\ Limit * budget.faults \in Nat
    BY <1>2, Bounds
  <2>6. Cardinality(Orphans) <= Limit * budget.faults /\ Cardinality(Orphans) \in Nat
    BY <2>2, FS_CardinalityType DEF IInv, OrphansAreEarned
  <2>7. Cardinality(Orphans') \in Nat
    BY <2>1, <2>3, FS_Subset, FS_CardinalityType
  <2> QED BY <1>2, <2>4, <2>5, <2>6, <2>7, Bounds DEF OrphansAreEarned
<1> QED BY <1>5, <1>6, <1>7, <1>8 DEF IInv, Slots

LEMMA FaultStep ==
    ASSUME IInv, NEW p \in Replicas, IterationFails(p) \/ ReplicaCrash(p)
    PROVE  IInv'
<1>1. GoesOn(p) \in LoopState /\ GoesOn(p).todo = {}
  BY GoesOnType DEF IInv, LoopState
<1>2. FirstLoop \in LoopState /\ FirstLoop.todo = {}
  BY Bounds DEF FirstLoop, LoopState, IInv, TypeOK
<1>3. CASE IterationFails(p)
  BY <1>1, <1>3, FailureStep DEF IterationFails
<1>4. CASE ReplicaCrash(p)
  BY <1>2, <1>4, FailureStep DEF ReplicaCrash
<1> QED BY <1>3, <1>4

-------------------------------------------------------------------------------
(***************************************************************************)
(* The handlers and the clock.                                             *)
(***************************************************************************)
\* A step that leaves the runs and the replicas alone, and trouble that is not a failure.
LEMMA LoopsUnchanged ==
    ASSUME IInv, UNCHANGED <<firings, runs, started, loop>>, now' = now,
           budget' = budget \/ Spend("edits")
    PROVE  /\ Shares' /\ OrphansAreEarned' /\ LoopState' = LoopState
           /\ budget' \in [edits : Nat, faults : Nat] /\ budget'.edits + budget'.faults <= MaxTrouble
<1>1. /\ budget' \in [edits : Nat, faults : Nat] /\ budget'.edits + budget'.faults <= MaxTrouble
      /\ budget'.faults = budget.faults
  BY Bounds DEF Spend, IInv, TypeOK
<1>2. Shares' /\ LoopState' = LoopState
  BY DEF IInv, Shares, LoopState
<1>3. Orphans' = Orphans
  BY DEF Orphans
<1> QED BY <1>1, <1>2, <1>3, NoNewOrphans

LEMMA EditStep ==
    ASSUME IInv, NEW t \in Triggers, EditTrigger(t)
    PROVE  IInv'
<1> USE DEF EditTrigger
<1>1. Slots'
  BY SlotsUnchanged DEF IInv, Slots
<1>2. web' \in [phase : {"idle", "edit", "import"}, trigger : Nat, next : Instants]
      /\ web'.trigger \in Triggers
  BY DEF IInv, TypeOK
<1>3. TypeOK'
  BY <1>2, LoopsUnchanged DEF IInv, TypeOK
<1> QED BY <1>1, <1>3, LoopsUnchanged DEF IInv, Slots

\* Deleting a trigger touches neither its instant nor its incarnation.
LEMMA DeleteStep ==
    ASSUME IInv, NEW t \in Triggers, DeleteTrigger(t)
    PROVE  IInv'
<1> USE DEF DeleteTrigger
<1>1. trig' = [trig EXCEPT ![t].live = FALSE]
  OBVIOUS
<1>2. /\ trig' \in [Triggers -> TriggerRow]
      /\ \A u \in Triggers : trig'[u].next = trig[u].next /\ trig'[u].gen = trig[u].gen
  <2> DEFINE new == [trig[t] EXCEPT !.live = FALSE]
  <2>1. trig[t] \in TriggerRow /\ trig \in [Triggers -> TriggerRow]
    BY DEF IInv, TypeOK
  <2>2. new \in TriggerRow /\ new.next = trig[t].next /\ new.gen = trig[t].gen
    BY <2>1
  <2>3. trig' = [trig EXCEPT ![t] = new]
    BY <1>1
  <2> HIDE DEF new, DeleteTrigger, TriggerRow
  <2>4. trig' \in [Triggers -> TriggerRow]
    BY <2>1, <2>2, <2>3
  <2>5. trig'[t] = new /\ \A u \in Triggers : u # t => trig'[u] = trig[u]
    BY <2>1, <2>3
  <2> QED BY <2>2, <2>4, <2>5
<1>3. web' \in [phase : {"idle", "edit", "import"}, trigger : Nat, next : Instants]
      /\ web'.trigger \in Triggers
  BY DEF IInv, TypeOK, NoEdit, Instants
<1>4. TypeOK'
  BY <1>2, <1>3, LoopsUnchanged DEF IInv, TypeOK
<1>5. \A r \in runs : r.run.trigger \in Triggers
  BY DEF IInv, TypeOK, Keys
<1>6. Ahead'
  BY <1>2, <1>5 DEF IInv, Ahead, Incarnation
<1> QED BY <1>4, <1>6, LoopsUnchanged DEF IInv, OncePerSlot, CatchUpOnce

\* Saving a copy either leaves the instant as it is or marks the incarnation as rewound.
LEMMA UpsertStep ==
    ASSUME IInv, upsert_trigger
    PROVE  IInv'
<1> DEFINE t == web.trigger
<1>1. PICK enabled \in BOOLEAN :
         /\ trig' = [trig EXCEPT ![t].enabled = enabled, ![t].next = web.next]
         /\ rewound' = IF web.next # trig[t].next THEN rewound \cup {Incarnation(t)} ELSE rewound
  BY DEF upsert_trigger
<1>2. web' = NoEdit /\ UNCHANGED <<now, firings, runs, started, loop, budget>> /\ t \in Triggers
  BY DEF upsert_trigger, IInv, TypeOK
<1>3. /\ trig' \in [Triggers -> TriggerRow]
      /\ trig'[t].next = web.next
      /\ \A u \in Triggers : trig'[u].gen = trig[u].gen /\ (u # t => trig'[u] = trig[u])
  <2> DEFINE new == [trig[t] EXCEPT !.enabled = enabled, !.next = web.next]
  <2>1. trig[t] \in TriggerRow /\ trig \in [Triggers -> TriggerRow]
        /\ web.next \in Instants
    BY <1>2 DEF IInv, TypeOK
  <2>2. new \in TriggerRow /\ new.next = web.next /\ new.gen = trig[t].gen
    BY <2>1
  <2>3. trig' = [trig EXCEPT ![t] = new]
    BY <1>1
  <2> HIDE DEF new, t, TriggerRow
  <2>4. trig' \in [Triggers -> TriggerRow]
    BY <1>2, <2>1, <2>2, <2>3
  <2>5. trig'[t] = new /\ \A u \in Triggers : u # t => trig'[u] = trig[u]
    BY <1>2, <2>1, <2>3
  <2> QED BY <2>2, <2>4, <2>5
<1>4. web' \in [phase : {"idle", "edit", "import"}, trigger : Nat, next : Instants]
      /\ web'.phase = "idle"
  BY <1>2 DEF NoEdit, Instants
<1>5. rewound \subseteq rewound' /\ rewound' \subseteq [trigger : Triggers, gen : Nat]
  BY <1>1, <1>2 DEF IInv, TypeOK, Incarnation
<1>6. TypeOK'
  BY <1>2, <1>3, <1>4, <1>5, LoopsUnchanged DEF IInv, TypeOK
<1>7. CatchUpOnce'
  BY <1>2, <1>5 DEF IInv, CatchUpOnce
<1>8. Ahead'
  <2> SUFFICES ASSUME NEW r \in runs
               PROVE  /\ r.run.key <= r.at
                      /\ r.run.gen <= trig'[r.run.trigger].gen
                      /\ r.run.gen = trig'[r.run.trigger].gen
                         /\ [trigger |-> r.run.trigger, gen |-> trig'[r.run.trigger].gen] \notin rewound'
                            => r.at < trig'[r.run.trigger].next
    BY <1>2 DEF Ahead, Incarnation
  <2>1. r.run.trigger \in Triggers
    BY DEF IInv, TypeOK, Keys
  <2>2. /\ r.run.key <= r.at /\ r.run.gen <= trig[r.run.trigger].gen
        /\ r.run.gen = trig[r.run.trigger].gen
           /\ [trigger |-> r.run.trigger, gen |-> trig[r.run.trigger].gen] \notin rewound
              => r.at < trig[r.run.trigger].next
    BY DEF IInv, Ahead, Incarnation
  <2>3. web.next # trig[t].next => [trigger |-> t, gen |-> trig[t].gen] \in rewound'
    BY <1>1 DEF Incarnation
  <2>4. CASE r.run.trigger = t
    BY <1>2, <1>3, <1>5, <2>2, <2>3, <2>4
  <2>5. CASE r.run.trigger # t
    BY <1>3, <1>5, <2>1, <2>2, <2>5
  <2> QED BY <2>4, <2>5
<1> QED BY <1>2, <1>6, <1>7, <1>8, LoopsUnchanged DEF IInv, OncePerSlot

\* A trigger that is inserted anew has had no runs.
LEMMA InsertStep ==
    ASSUME IInv, InsertTrigger
    PROVE  IInv'
<1> DEFINE t == web.trigger
<1>1. /\ trig' = [trig EXCEPT ![t] = Fresh(trig[t].gen + 1)] /\ web' = NoEdit
      /\ UNCHANGED <<now, firings, runs, started, loop, rewound, budget>>
      /\ t \in Triggers
  BY DEF InsertTrigger, IInv, TypeOK
<1>2. trig[t].gen \in Nat
  BY <1>1 DEF IInv, TypeOK
<1>3. Fresh(trig[t].gen + 1) \in TriggerRow
      /\ Fresh(trig[t].gen + 1).gen = trig[t].gen + 1
  BY <1>2 DEF Fresh, Instants
<1>4. /\ trig' \in [Triggers -> TriggerRow]
      /\ trig'[t].gen = trig[t].gen + 1
      /\ \A u \in Triggers : u # t => trig'[u] = trig[u]
  BY <1>1, <1>3 DEF IInv, TypeOK
<1>5. web' \in [phase : {"idle", "edit", "import"}, trigger : Nat, next : Instants]
      /\ web'.phase = "idle"
  BY <1>1 DEF NoEdit, Instants
<1>6. TypeOK'
  BY <1>1, <1>4, <1>5, LoopsUnchanged DEF IInv, TypeOK
<1>7. Ahead'
  <2> SUFFICES ASSUME NEW r \in runs
               PROVE  /\ r.run.key <= r.at
                      /\ r.run.gen <= trig'[r.run.trigger].gen
                      /\ r.run.gen = trig'[r.run.trigger].gen
                         /\ [trigger |-> r.run.trigger, gen |-> trig'[r.run.trigger].gen] \notin rewound
                            => r.at < trig'[r.run.trigger].next
    BY <1>1 DEF Ahead, Incarnation
  <2>1. r.run.trigger \in Triggers /\ r.run.gen \in Nat
    BY DEF IInv, TypeOK, Keys
  <2>2. /\ r.run.key <= r.at /\ r.run.gen <= trig[r.run.trigger].gen
        /\ r.run.gen = trig[r.run.trigger].gen
           /\ [trigger |-> r.run.trigger, gen |-> trig[r.run.trigger].gen] \notin rewound
              => r.at < trig[r.run.trigger].next
    BY DEF IInv, Ahead, Incarnation
  <2>3. CASE r.run.trigger = t
    BY <1>2, <1>4, <2>1, <2>2, <2>3
  <2>4. CASE r.run.trigger # t
    BY <1>4, <2>1, <2>2, <2>4
  <2> QED BY <2>3, <2>4
<1> QED BY <1>1, <1>6, <1>7, LoopsUnchanged DEF IInv, OncePerSlot, CatchUpOnce

LEMMA TickStep ==
    ASSUME IInv, Tick
    PROVE  IInv'
<1> USE DEF Tick
<1>1. now' \in 0..MaxTime /\ \A c \in 0..now : c \in 0..now'
  BY Bounds DEF IInv, TypeOK
<1>2. \A x \in LoopState : x \in LoopState'
  BY <1>1 DEF LoopState
<1>3. TypeOK'
  BY <1>1, <1>2 DEF IInv, TypeOK
<1>4. Slots'
  BY SlotsUnchanged DEF IInv, Slots
<1>5. Shares' /\ Orphans' = Orphans
  BY DEF IInv, Shares, Orphans
<1>6. OrphansAreEarned'
  BY <1>5, NoNewOrphans
<1> QED BY <1>3, <1>4, <1>5, <1>6 DEF IInv, Slots

-------------------------------------------------------------------------------
\* The inductive invariant holds in every reachable state.
THEOREM Invariance == Spec => []IInv
<1>1. IInv /\ [Next]_vars => IInv'
  <2> SUFFICES ASSUME IInv, [Next]_vars PROVE IInv'
    OBVIOUS
  <2>1. ASSUME NEW p \in Replicas, LoopStep(p) PROVE IInv'
    BY <2>1, ReadClockStep, ClaimStep, EnqueueStep DEF LoopStep
  <2>2. ASSUME NEW p \in Replicas, IterationFails(p) \/ ReplicaCrash(p) PROVE IInv'
    BY <2>2, FaultStep
  <2>3. ASSUME NEW t \in Triggers, EditTrigger(t) \/ DeleteTrigger(t) PROVE IInv'
    BY <2>3, EditStep, DeleteStep
  <2>4. CASE upsert_trigger \/ InsertTrigger \/ Tick
    BY <2>4, UpsertStep, InsertStep, TickStep
  <2>5. CASE UNCHANGED vars
    <3>1. Slots'
      BY <2>5, SlotsUnchanged DEF IInv, Slots, vars
    <3>2. TypeOK' /\ Shares' /\ Orphans' = Orphans
      BY <2>5 DEF vars, IInv, TypeOK, LoopState, Shares, Orphans
    <3>3. OrphansAreEarned'
      BY <2>5, <3>2, NoNewOrphans DEF vars
    <3> QED BY <3>1, <3>2, <3>3 DEF IInv, Slots
  <2> QED BY <2>1, <2>2, <2>3, <2>4, <2>5 DEF Next
<1> QED BY <1>1, InitIInv, PTL DEF Spec

\* The trigger tables and the loops keep their types, and the firing tables hold exactly
\* the keys of the runs that were created.
THEOREM TypeCorrect == Spec => []TypeOK
<1>1. IInv => TypeOK
  BY DEF IInv
<1> QED BY <1>1, Invariance, PTL

\* One instant of a trigger makes one run, whatever clocks the replicas go by and
\* whatever editors and imports write meanwhile.
THEOREM FiresOnce == Spec => []OncePerSlot
<1>1. IInv => OncePerSlot
  BY DEF IInv
<1> QED BY <1>1, Invariance, PTL

\* A trigger that has fired does not fire for an instant that was over by then, unless
\* that incarnation of it was saved with an old instant.
THEOREM MissedInstantsCollapse == Spec => []CatchUpOnce
<1>1. IInv => CatchUpOnce
  BY DEF IInv
<1> QED BY <1>1, Invariance, PTL

\* A failure or a crash of a replica orphans the runs of one claim at most: no run is
\* created and never started otherwise.
THEOREM OrphansBounded == Spec => []OrphansAreEarned
<1>1. IInv => OrphansAreEarned
  BY DEF IInv
<1> QED BY <1>1, Invariance, PTL
===============================================================================
