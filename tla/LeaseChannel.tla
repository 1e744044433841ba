----------------------------- MODULE LeaseChannel -----------------------------
(***************************************************************************)
(* One deduplicating channel of the in-memory broker                       *)
(* (runinator-broker/src/in_memory.rs): the action, result, wake and       *)
(* ingress channels all follow this protocol.  A channel is a queue of     *)
(* deliveries, a map of leased (in-flight) deliveries and the set of       *)
(* dedupe keys it has accepted and not yet settled.  Every operation runs  *)
(* under the one state lock, so each is one atomic action.                 *)
(*                                                                         *)
(* Abstractions.  A message is its dedupe key.  A delivery id (a UUID      *)
(* drawn afresh) is any identifier nobody refers to any more.  Time is the *)
(* flag "expired" of a lease: a lease may expire at any moment after it    *)
(* was granted and stays expired.  What a consumer remembers of its        *)
(* deliveries (held) is the client side of the protocol.                   *)
(***************************************************************************)
EXTENDS Integers, Sequences, FiniteSets, Functions

CONSTANTS
    Keys,       \* dedupe keys of the messages that may be published
    Consumers,  \* clients of the channel
    Ids,        \* delivery identifiers
    Eligible,   \* Eligible[k]: the consumers whose profile the target of k matches
    Capacity    \* deliveries one consumer works on at the same time

ASSUME EligibleAssumption == Eligible \in [Keys -> SUBSET Consumers]
ASSUME CapacityAssumption == Capacity \in Nat \ {0}
ASSUME IdsAssumption == Ids # {}

VARIABLES
    queue,      \* sequence of deliveries waiting to be received
    inflight,   \* delivery id -> lease
    dedupe,     \* keys accepted and not settled
    held        \* consumer -> ids of the deliveries it has not resolved

vars == <<queue, inflight, dedupe, held>>

Delivery == [id : Ids, key : Keys]

\* "to" is history: the broker ignores the consumer name once it has leased.
Lease == [key : Keys, to : Consumers, expired : BOOLEAN]

-------------------------------------------------------------------------------
\* Every id that the broker or a client still refers to; a new UUID is none of them.
UsedIds ==
    {queue[i].id : i \in DOMAIN queue} \cup DOMAIN inflight
        \cup UNION {held[c] : c \in Consumers}

expired_ids(infl) == {d \in DOMAIN infl : infl[d].expired}

\* Fault: a reclaimed delivery goes back under the id its old consumer knows.
redeliver_same_id(infl, order, fresh) ==
    [i \in DOMAIN order |-> [id |-> order[i], key |-> infl[order[i]].key]]

\* The expired leases in the order the reclaim loop visits them, each under its new id.
redeliver(infl, order, fresh) ==
    [i \in DOMAIN order |-> [id |-> fresh[order[i]], key |-> infl[order[i]].key]]

Unleased(infl, ids) == Restrict(infl, DOMAIN infl \ ids)

\* the lease map with delivery x leased to consumer c
Leased(infl, x, c) ==
    [d \in DOMAIN infl \cup {x.id} |->
        IF d = x.id THEN [key |-> x.key, to |-> c, expired |-> FALSE] ELSE infl[d]]

\* Fault: the head of the queue is taken whatever its target.
IsFirstMatch_untargeted(q, i, c) == i \in DOMAIN q /\ i = 1

\* position of the first delivery of q that consumer c may take
IsFirstMatch(q, i, c) ==
    /\ i \in DOMAIN q
    /\ c \in Eligible[q[i].key]
    /\ \A j \in 1..(i - 1) : c \notin Eligible[q[j].key]

NoMatch(q, c) == \A i \in DOMAIN q : c \notin Eligible[q[i].key]

Drop(q, i) == [j \in 1..(Len(q) - 1) |-> IF j < i THEN q[j] ELSE q[j + 1]]

-------------------------------------------------------------------------------
Init ==
    /\ queue = <<>>
    /\ inflight = [d \in {} |-> [key |-> d, to |-> d, expired |-> FALSE]]
    /\ dedupe = {}
    /\ held = [c \in Consumers |-> {}]

\* Fault: no duplicate check.
Publish_unchecked(k) ==
    /\ dedupe' = dedupe \cup {k}
    /\ Len(queue) < 2 * Cardinality(Keys)
    /\ \E d \in Ids \ UsedIds : queue' = Append(queue, [id |-> d, key |-> k])
    /\ UNCHANGED <<inflight, held>>

\* Fault: the delivery id is the dedupe key.
Publish_key_as_id(k) ==
    /\ k \notin dedupe
    /\ dedupe' = dedupe \cup {k}
    /\ queue' = Append(queue, [id |-> k, key |-> k])
    /\ UNCHANGED <<inflight, held>>

\* publish: refused with Duplicate while the key is accepted and not settled.
Publish(k) ==
    /\ k \notin dedupe
    /\ dedupe' = dedupe \cup {k}
    /\ \E d \in Ids \ UsedIds : queue' = Append(queue, [id |-> d, key |-> k])
    /\ UNCHANGED <<inflight, held>>

\* receive_for / receive_*: one turn of the loop.  Expired leases go back to the
\* front of the queue first (in the map's arbitrary order), then the first
\* delivery the consumer matches is leased; when there is none the consumer goes
\* back to waiting and the reclaim stays done.
Receive(c) ==
    /\ Cardinality(held[c]) < Capacity
    /\ LET gone == expired_ids(inflight)
           live == Unleased(inflight, gone)
       IN \E order \in Bijection(1..Cardinality(gone), gone),
             fresh \in Injection(gone, Ids \ UsedIds) :
            LET q == redeliver(inflight, order, fresh) \o queue
            IN \/ \E i \in DOMAIN q :
                    /\ IsFirstMatch(q, i, c)
                    /\ queue' = Drop(q, i)
                    /\ inflight' = Leased(live, q[i], c)
                    /\ held' = [held EXCEPT ![c] = @ \cup {q[i].id}]
               \/ /\ NoMatch(q, c)
                  /\ gone # {}
                  /\ queue' = q
                  /\ inflight' = live
                  /\ UNCHANGED held
    /\ UNCHANGED dedupe

\* Fault: the lease goes, the dedupe key stays.
Ack_keeps_key(c, d) ==
    /\ d \in held[c]
    /\ held' = [held EXCEPT ![c] = @ \ {d}]
    /\ inflight' = IF d \in DOMAIN inflight THEN Unleased(inflight, {d}) ELSE inflight
    /\ UNCHANGED <<queue, dedupe>>

\* ack: Ok only while the lease is in the map, whether or not it has expired.
Ack(c, d) ==
    /\ d \in held[c]
    /\ held' = [held EXCEPT ![c] = @ \ {d}]
    /\ IF d \in DOMAIN inflight
         THEN /\ dedupe' = dedupe \ {inflight[d].key}
              /\ inflight' = Unleased(inflight, {d})
         ELSE UNCHANGED <<dedupe, inflight>>      \* Err(UnknownDelivery)
    /\ UNCHANGED queue

\* nack: the delivery goes back to the front under a new id; its key stays accepted.
Nack(c, d) ==
    /\ d \in held[c]
    /\ held' = [held EXCEPT ![c] = @ \ {d}]
    /\ IF d \in DOMAIN inflight
         THEN /\ inflight' = Unleased(inflight, {d})
              /\ \E e \in Ids \ UsedIds :
                    queue' = <<[id |-> e, key |-> inflight[d].key]>> \o queue
         ELSE UNCHANGED <<inflight, queue>>       \* Err(UnknownDelivery)
    /\ UNCHANGED dedupe

\* Time passes the deadline of a lease.
Expire(d) ==
    /\ d \in DOMAIN inflight
    /\ ~inflight[d].expired
    /\ inflight' = [inflight EXCEPT ![d].expired = TRUE]
    /\ UNCHANGED <<queue, dedupe, held>>

\* A consumer process stops: it forgets its deliveries without resolving them.
Crash(c) ==
    /\ held[c] # {}
    /\ held' = [held EXCEPT ![c] = {}]
    /\ UNCHANGED <<queue, inflight, dedupe>>

Next ==
    \/ \E k \in Keys : Publish(k)
    \/ \E c \in Consumers : Receive(c) \/ Crash(c)
    \/ \E c \in Consumers : \E d \in held[c] : Ack(c, d) \/ Nack(c, d)
    \/ \E d \in DOMAIN inflight : Expire(d)

Spec == Init /\ [][Next]_vars

-------------------------------------------------------------------------------
(***************************************************************************)
(* Properties.                                                             *)
(***************************************************************************)
\* The channel's state has its type.
TypeOK ==
    /\ queue \in Seq(Delivery)
    /\ DOMAIN inflight \in SUBSET Ids /\ IsFiniteSet(DOMAIN inflight)
    /\ inflight \in [DOMAIN inflight -> Lease]
    /\ dedupe \subseteq Keys
    /\ held \in [Consumers -> SUBSET Ids]

QueuedKeys(q) == {q[i].key : i \in DOMAIN q}
LeasedKeys(infl) == {infl[d].key : d \in DOMAIN infl}

\* Nothing is lost and nothing is retained: the dedupe set holds exactly the keys
\* of the queued and the leased deliveries (insert in publish, remove in ack).
DedupeExact == dedupe = QueuedKeys(queue) \cup LeasedKeys(inflight)

\* A key has one copy: it is queued once or leased once, never both, so a
\* redelivery (nack, reclaim) never duplicates a message inside the broker.
OneCopy(q, infl) ==
    /\ \A i, j \in DOMAIN q : q[i].key = q[j].key => i = j
    /\ \A d, e \in DOMAIN infl : infl[d].key = infl[e].key => d = e
    /\ QueuedKeys(q) \cap LeasedKeys(infl) = {}

\* Two deliveries never carry the same id.
OneId(q, infl) ==
    /\ \A i, j \in DOMAIN q : q[i].id = q[j].id => i = j
    /\ \A i \in DOMAIN q : q[i].id \notin DOMAIN infl

SingleCopy == OneCopy(queue, inflight) /\ OneId(queue, inflight)

\* A delivery id is known to one consumer at most, and one that is still leased
\* only to the consumer the broker leased it to: a resolution by somebody whose
\* delivery was handed on to another consumer cannot name the new delivery.
HolderIsLessee ==
    /\ \A c \in Consumers : \A d \in held[c] :
          d \in DOMAIN inflight => inflight[d].to = c
    /\ \A c \in Consumers : \A d \in held[c] : \A i \in DOMAIN queue :
          queue[i].id # d

\* What the channel promises, for the abstract specification.
holder ==
    [k \in Keys |->
        IF k \in LeasedKeys(inflight)
          THEN {inflight[d].to : d \in {e \in DOMAIN inflight : inflight[e].key = k}}
          ELSE {}]

Promise == INSTANCE AtLeastOnce WITH outstanding <- dedupe, lessee <- holder

\* The channel implements at-least-once delivery with exclusive leases.
ImplementsAtLeastOnce == Promise!Spec
===============================================================================
