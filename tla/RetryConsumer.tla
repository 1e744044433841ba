----------------------------- MODULE RetryConsumer -----------------------------
(***************************************************************************)
(* The engine's ingress consumer (runinator-engine/src/loops.rs,           *)
(* run_ingress_consumer) and result consumer (result_consumer.rs): the     *)
(* same loop over a lease channel.  Each replica takes one delivery at a   *)
(* time, applies it, and acks; on an error it counts the failure in a map  *)
(* of its own, returns the delivery after a backoff, and gives the message *)
(* up as a dead letter when its count reaches MaxAttempts.                 *)
(*                                                                         *)
(* Republish tells the two channels apart: the key of a result event is    *)
(* its event id and is published once, the keys of ingress messages        *)
(* (drive:<row>, control:<run>:<kind>) come back.                          *)
(***************************************************************************)
EXTENDS LeaseChannel

CONSTANTS
    Poison,         \* messages whose application always fails
    MaxAttempts,    \* MAX_INGRESS_ATTEMPTS, policy.max_attempts
    Republish,      \* keys that may be published again once they are settled
    MaxFaults       \* crashes, slow applies, transient errors, failed inserts

ASSUME PoisonAssumption == Poison \subseteq Keys /\ Republish \subseteq Keys
ASSUME AttemptsAssumption == MaxAttempts \in Nat \ {0} /\ MaxFaults \in Nat

VARIABLES
    work,       \* consumer -> what it does with the delivery it holds
    attempts,   \* consumer -> key -> failures it has counted
    outcome,    \* key -> what became of the message published last under it
    failures,   \* key -> failed applications of that message (up to MaxAttempts)
    faults

consumerVars == <<queue, inflight, dedupe, held, work, attempts, outcome, failures, faults>>

\* Every replica serves every message: neither channel is targeted.
Untargeted == [k \in Keys |-> Consumers]

Idle == [phase |-> "idle"]
Work == [phase : {"received", "acking", "nacking"}, id : Ids, key : Keys, old : BOOLEAN]
Outcomes == {"none", "open", "applied", "recorded", "dropped"}

-------------------------------------------------------------------------------
Fault == faults < MaxFaults /\ faults' = faults + 1

\* the delivery a working consumer holds, and the key it carries
Working(c) == work[c].phase # "idle"

Counted(c, k) == attempts[c][k] + 1

\* history: what c did to the message it works on, unless that is an old one
Became(c, o) == [outcome EXCEPT ![work[c].key] = IF @ = "open" /\ ~work[c].old THEN o ELSE @]
Failed(c) == [failures EXCEPT ![work[c].key] =
                IF @ < MaxAttempts /\ ~work[c].old THEN @ + 1 ELSE @]

ConsumerInit ==
    /\ Init
    /\ work = [c \in Consumers |-> Idle]
    /\ attempts = [c \in Consumers |-> [k \in Keys |-> 0]]
    /\ outcome = [k \in Keys |-> "none"]
    /\ failures = [k \in Keys |-> 0]
    /\ faults = 0

\* Somebody publishes a message.  A replica that still works on a delivery of
\* the previous message of this key (its lease was lost) works on an old one.
PublishMessage(k) ==
    /\ k \in Republish \/ outcome[k] = "none"
    /\ Publish(k)
    /\ outcome' = [outcome EXCEPT ![k] = "open"]
    /\ failures' = [failures EXCEPT ![k] = 0]
    /\ work' = [c \in Consumers |-> IF Working(c) /\ work[c].key = k
                                      THEN [work[c] EXCEPT !.old = TRUE] ELSE work[c]]
    /\ UNCHANGED <<attempts, faults>>

\* receive_ingress / receive_result.
Take(c) ==
    /\ ~Working(c)
    /\ Receive(c)
    /\ work' = [work EXCEPT ![c] =
                  IF held'[c] = {} THEN @
                  ELSE LET d == CHOOSE x \in held'[c] : TRUE
                       IN [phase |-> "received", id |-> d, key |-> inflight'[d].key, old |-> FALSE]]
    /\ UNCHANGED <<attempts, outcome, failures, faults>>

\* Fault: the delivery is acked before it is applied.
Apply_ack_first(c) ==
    /\ work[c].phase = "received"
    /\ work' = [work EXCEPT ![c].phase = "acking"]
    /\ UNCHANGED <<queue, inflight, dedupe, held, attempts, outcome, failures, faults>>

\* apply succeeds: this replica forgets its count and acks.  A second delivery of
\* the same message applies again; both appliers are idempotent.
Apply(c) ==
    /\ work[c].phase = "received"
    /\ work[c].key \notin Poison
    /\ outcome' = Became(c, "applied")
    /\ attempts' = [attempts EXCEPT ![c][work[c].key] = 0]
    /\ work' = [work EXCEPT ![c].phase = "acking"]
    /\ UNCHANGED <<queue, inflight, dedupe, held, failures, faults>>

\* Fault: the count has no limit.
ApplyFails_unlimited(c) ==
    /\ work[c].phase = "received"
    /\ work[c].key \in Poison
    /\ attempts' = [attempts EXCEPT ![c][work[c].key] = @ + 1]
    /\ failures' = Failed(c)
    /\ work' = [work EXCEPT ![c].phase = "nacking"]
    /\ UNCHANGED <<queue, inflight, dedupe, held, outcome, faults>>

\* apply fails and the count stays below the limit: back off, then nack.
ApplyFails(c) ==
    /\ work[c].phase = "received"
    /\ IF work[c].key \in Poison THEN UNCHANGED faults ELSE Fault
    /\ Counted(c, work[c].key) < MaxAttempts
    /\ attempts' = [attempts EXCEPT ![c][work[c].key] = @ + 1]
    /\ failures' = Failed(c)
    /\ work' = [work EXCEPT ![c].phase = "nacking"]
    /\ UNCHANGED <<queue, inflight, dedupe, held, outcome>>

\* Fault: one failure too early.
DeadLetter_early(c) ==
    /\ work[c].phase = "received"
    /\ work[c].key \in Poison
    /\ Counted(c, work[c].key) + 1 >= MaxAttempts
    /\ attempts' = [attempts EXCEPT ![c][work[c].key] = 0]
    /\ failures' = Failed(c)
    /\ outcome' = Became(c, "recorded")
    /\ work' = [work EXCEPT ![c].phase = "acking"]
    /\ UNCHANGED <<queue, inflight, dedupe, held, faults>>

\* Fault: a message at its limit is returned once more instead of given up.
DeadLetter_never(c) ==
    /\ work[c].phase = "received"
    /\ work[c].key \in Poison
    /\ Counted(c, work[c].key) >= MaxAttempts
    /\ work' = [work EXCEPT ![c].phase = "nacking"]
    /\ UNCHANGED <<queue, inflight, dedupe, held, attempts, outcome, failures, faults>>

\* apply fails for the last time: the count is forgotten, persist_dead_letter
\* writes a row (an insert that fails is only logged), and the message is acked.
DeadLetter(c) ==
    /\ work[c].phase = "received"
    /\ IF work[c].key \in Poison THEN TRUE ELSE faults < MaxFaults
    /\ Counted(c, work[c].key) >= MaxAttempts
    /\ attempts' = [attempts EXCEPT ![c][work[c].key] = 0]
    /\ failures' = Failed(c)
    /\ \/ /\ outcome' = Became(c, "recorded")
          /\ UNCHANGED faults
       \/ /\ outcome' = Became(c, "dropped")
          /\ Fault
    /\ work' = [work EXCEPT ![c].phase = "acking"]
    /\ UNCHANGED <<queue, inflight, dedupe, held>>

\* ack_ingress / ack_result; an error (the lease is gone) is only logged.
AckDelivery(c) ==
    /\ work[c].phase = "acking"
    /\ Ack(c, work[c].id)
    /\ work' = [work EXCEPT ![c] = Idle]
    /\ UNCHANGED <<attempts, outcome, failures, faults>>

\* nack_ingress / nack_result.
NackDelivery(c) ==
    /\ work[c].phase = "nacking"
    /\ Nack(c, work[c].id)
    /\ work' = [work EXCEPT ![c] = Idle]
    /\ UNCHANGED <<attempts, outcome, failures, faults>>

\* A lease runs out: of a crashed consumer in time, of a working one only when
\* its application takes longer than the lease.
LeaseExpires(d) ==
    /\ Expire(d)
    /\ IF \E c \in Consumers : d \in held[c] THEN Fault ELSE UNCHANGED faults
    /\ UNCHANGED <<work, attempts, outcome, failures>>

\* A replica stops, at work or between two deliveries; its counts go with it.
ReplicaStops(c) ==
    /\ Fault
    /\ Crash(c) \/ (~Working(c) /\ UNCHANGED vars)
    /\ work' = [work EXCEPT ![c] = Idle]
    /\ attempts' = [attempts EXCEPT ![c] = [k \in Keys |-> 0]]
    /\ UNCHANGED <<outcome, failures>>

\* Nothing is outstanding and nothing more will be published.
Quiet ==
    /\ dedupe = {} /\ \A k \in Keys : outcome[k] # "none"
    /\ UNCHANGED consumerVars

Loop(c) == Take(c) \/ Apply(c) \/ ApplyFails(c) \/ DeadLetter(c) \/ AckDelivery(c) \/ NackDelivery(c)

ConsumerNext ==
    \/ \E k \in Keys : PublishMessage(k)
    \/ \E c \in Consumers : Loop(c) \/ ReplicaStops(c)
    \/ \E d \in DOMAIN inflight : LeaseExpires(d)
    \/ Quiet

\* Every replica's loop keeps running and deadlines pass.
Fairness ==
    /\ \A c \in Consumers : WF_consumerVars(Loop(c))
    /\ \A d \in Ids : WF_consumerVars(d \in DOMAIN inflight /\ LeaseExpires(d))

ConsumerSpec == ConsumerInit /\ [][ConsumerNext]_consumerVars
ConsumerFairSpec == ConsumerSpec /\ Fairness

-------------------------------------------------------------------------------
\* Types; a replica holds just the delivery it works on, and its count of a
\* message stays below the limit: the failure that reaches it gives the message up.
ConsumerTypeOK ==
    /\ TypeOK
    /\ work \in [Consumers -> {Idle} \cup Work]
    /\ \A c \in Consumers : held[c] = IF Working(c) THEN {work[c].id} ELSE {}
    /\ attempts \in [Consumers -> [Keys -> 0..(MaxAttempts - 1)]]
    /\ outcome \in [Keys -> Outcomes]
    /\ failures \in [Keys -> 0..MaxAttempts]
    /\ faults \in 0..MaxFaults

\* A message leaves the channel only once it was applied or given up: no late
\* ack of a replica that lost its lease removes a message published since.
AckedAfterOutcome == \A k \in Keys : k \notin dedupe => outcome[k] # "open"

\* A message is given up only after MaxAttempts failed applications of it, however its
\* deliveries were spread over replicas, unless its key is used again: then a replica
\* may still count failures of the message before it.
GiveUpIsEarned ==
    \A k \in Keys \ Republish :
        outcome[k] \in {"recorded", "dropped"} => failures[k] >= MaxAttempts

\* Every message leaves the channel: a poisonous one neither stays for ever nor
\* keeps the ones behind it waiting for ever.
EventuallySettled == \A k \in Keys : k \in dedupe ~> k \notin dedupe
===============================================================================
