----------------------------- MODULE ChannelProofs -----------------------------
(***************************************************************************)
(* Proofs about the lease channel, for any sets of keys, consumers and     *)
(* delivery ids, and about the retrying consumers of it, for any messages, *)
(* replicas and limits.  The consumers' steps contain the channel's, so    *)
(* their invariant takes the channel's over, action by action.             *)
(***************************************************************************)
EXTENDS RetryConsumer, FiniteSetTheorems, SequenceTheorems, TLAPS

USE EligibleAssumption, CapacityAssumption

\* Appending and removing leave a queue of deliveries a queue of deliveries.
LEMMA DropType ==
    ASSUME NEW q \in Seq(Delivery), NEW i \in DOMAIN q
    PROVE  Drop(q, i) \in Seq(Delivery)
<1>1. Len(q) \in Nat /\ DOMAIN q = 1..Len(q) /\ q \in [1..Len(q) -> Delivery]
  OBVIOUS
<1>2. Drop(q, i) \in [1..(Len(q) - 1) -> Delivery]
  BY <1>1 DEF Drop
<1>3. Len(q) - 1 \in Nat
  BY <1>1
<1> QED BY <1>2, <1>3

\* Disjointness of the two key sets, delivery by delivery.
NoSharedKey(q, infl) == \A i \in DOMAIN q : \A d \in DOMAIN infl : q[i].key # infl[d].key

LEMMA DisjointKeys ==
    ASSUME NEW q, NEW infl
    PROVE  (QueuedKeys(q) \cap LeasedKeys(infl) = {}) <=> NoSharedKey(q, infl)
<1>1. ASSUME QueuedKeys(q) \cap LeasedKeys(infl) = {},
             NEW i \in DOMAIN q, NEW d \in DOMAIN infl
      PROVE  q[i].key # infl[d].key
  <2>1. q[i].key \in QueuedKeys(q) /\ infl[d].key \in LeasedKeys(infl)
    BY DEF QueuedKeys, LeasedKeys
  <2> QED BY <1>1, <2>1
<1>2. ASSUME \A i \in DOMAIN q : \A d \in DOMAIN infl : q[i].key # infl[d].key,
             NEW k \in QueuedKeys(q), k \in LeasedKeys(infl)
      PROVE  FALSE
  BY <1>2, Zenon DEF QueuedKeys, LeasedKeys
<1> QED BY <1>1, <1>2 DEF NoSharedKey

\* The reclaimed deliveries form a finite sequence of deliveries.
LEMMA RedeliverType ==
    ASSUME TypeOK,
           NEW gone, gone = expired_ids(inflight),
           NEW order \in Bijection(1..Cardinality(gone), gone),
           NEW fresh \in Injection(gone, Ids \ UsedIds)
    PROVE  /\ redeliver(inflight, order, fresh) \in Seq(Delivery)
           /\ gone \subseteq DOMAIN inflight
           /\ IsFiniteSet(gone)
           /\ DOMAIN order = 1..Cardinality(gone)
           /\ Cardinality(gone) \in Nat
           /\ redeliver(inflight, order, fresh) \in [1..Cardinality(gone) -> Delivery]
<1>1. gone \subseteq DOMAIN inflight
  BY DEF expired_ids
<1>2. IsFiniteSet(gone) /\ Cardinality(gone) \in Nat
  BY <1>1, FS_Subset, FS_CardinalityType DEF TypeOK
<1>3. order \in [1..Cardinality(gone) -> gone]
  BY DEF Bijection, Injection
<1>4. fresh \in [gone -> Ids]
  BY DEF Injection
<1>5. redeliver(inflight, order, fresh) \in [1..Cardinality(gone) -> Delivery]
  BY <1>1, <1>3, <1>4 DEF redeliver, TypeOK, Delivery, Lease
<1> QED BY <1>1, <1>2, <1>3, <1>5

-------------------------------------------------------------------------------
(***************************************************************************)
(* The inductive invariant: the four invariants together.  No one of them  *)
(* is inductive alone: that the dedupe set is exact after an ack needs the *)
(* single copy, the single copy after a publish needs the exact dedupe     *)
(* set, and that a holder is the lessee needs the ids to be distinct.      *)
(***************************************************************************)
IInv == TypeOK /\ DedupeExact /\ SingleCopy /\ HolderIsLessee

\* State of the channel between the reclaim and the scan of a receive: the
\* reclaim moves deliveries from the lease map to the queue and changes nothing
\* that the invariant speaks of.
LEMMA ReclaimKeeps ==
    ASSUME IInv,
           NEW gone, gone = expired_ids(inflight),
           NEW live, live = Unleased(inflight, gone),
           NEW order \in Bijection(1..Cardinality(gone), gone),
           NEW fresh \in Injection(gone, Ids \ UsedIds),
           NEW q, q = redeliver(inflight, order, fresh) \o queue
    PROVE  /\ q \in Seq(Delivery)
           /\ DOMAIN live = DOMAIN inflight \ gone
           /\ \A d \in DOMAIN live : live[d] = inflight[d]
           /\ live \in [DOMAIN live -> Lease]
           /\ OneCopy(q, live)
           /\ OneId(q, live)
           /\ dedupe = QueuedKeys(q) \cup LeasedKeys(live)
           /\ \A i \in DOMAIN q : \A c \in Consumers : q[i].id \notin held[c]
<1> DEFINE r == redeliver(inflight, order, fresh)
           n == Cardinality(gone)
<1>1. /\ r \in Seq(Delivery) /\ gone \subseteq DOMAIN inflight
      /\ IsFiniteSet(gone) /\ DOMAIN order = 1..n /\ n \in Nat
      /\ r \in [1..n -> Delivery]
  BY RedeliverType DEF IInv
<1>2. queue \in Seq(Delivery) /\ DOMAIN inflight \subseteq Ids
      /\ inflight \in [DOMAIN inflight -> Lease] /\ held \in [Consumers -> SUBSET Ids]
  BY DEF IInv, TypeOK
<1>3. Len(r) = n /\ DOMAIN r = 1..n
  BY <1>1
<1>4. /\ q \in Seq(Delivery) /\ Len(q) = n + Len(queue) /\ DOMAIN q = 1..(n + Len(queue))
      /\ Len(queue) \in Nat /\ DOMAIN queue = 1..Len(queue)
  BY <1>1, <1>2, <1>3, ConcatProperties
<1>5. \A i \in 1..n : q[i] = r[i]
  BY <1>1, <1>2, <1>3, ConcatProperties
<1>6. \A i \in DOMAIN queue : q[i + n] = queue[i]
  <2> SUFFICES ASSUME NEW i \in DOMAIN queue PROVE q[i + n] = queue[i]
    OBVIOUS
  <2>1. i + n \in 1..(Len(r) + Len(queue)) /\ ~(i + n <= Len(r)) /\ (i + n) - Len(r) = i
    BY <1>1, <1>3, <1>4
  <2>2. (r \o queue)[i + n] = queue[(i + n) - Len(r)]
    BY <1>1, <1>2, <2>1, ConcatProperties
  <2> QED BY <2>1, <2>2
<1>7. \A i \in DOMAIN q : i \in 1..n \/ \E j \in DOMAIN queue : i = j + n /\ q[i] = queue[j]
  <2> SUFFICES ASSUME NEW i \in DOMAIN q, i \notin 1..n
               PROVE  \E j \in DOMAIN queue : i = j + n /\ q[i] = queue[j]
    OBVIOUS
  <2>1. i - n \in DOMAIN queue /\ i = (i - n) + n
    BY <1>1, <1>4
  <2> QED BY <1>6, <2>1
<1>8. \A i \in 1..n : /\ order[i] \in gone
                      /\ r[i].id = fresh[order[i]] /\ r[i].key = inflight[order[i]].key
                      /\ r[i].id \in Ids \ UsedIds
  BY <1>1 DEF redeliver, Bijection, Injection
<1>9. \A i, j \in 1..n : order[i] = order[j] => i = j
  BY <1>1 DEF Bijection, Injection, IsInjective
<1>10. \A d \in gone : \E i \in 1..n : order[i] = d
  BY <1>1 DEF Bijection, Surjection
<1>11. \A d, e \in gone : fresh[d] = fresh[e] => d = e
  BY DEF Injection, IsInjective
<1>12. /\ DOMAIN live = DOMAIN inflight \ gone
       /\ \A d \in DOMAIN live : live[d] = inflight[d]
  BY DEF Unleased, Restrict
<1>13. live \in [DOMAIN live -> Lease]
  <2>1. live = [d \in DOMAIN inflight \ gone |-> inflight[d]]
    BY DEF Unleased, Restrict
  <2> QED BY <1>2, <1>12, <2>1
<1>14. OneCopy(queue, inflight) /\ OneId(queue, inflight)
       /\ dedupe = QueuedKeys(queue) \cup LeasedKeys(inflight)
  BY DEF IInv, SingleCopy, DedupeExact
<1>21. \A i \in DOMAIN queue : \A d \in DOMAIN inflight : queue[i].key # inflight[d].key
  BY <1>14, DisjointKeys DEF OneCopy, NoSharedKey
<1>15. OneCopy(q, live)
  <2>1. \A i, j \in DOMAIN q : q[i].key = q[j].key => i = j
    <3> SUFFICES ASSUME NEW i \in DOMAIN q, NEW j \in DOMAIN q, q[i].key = q[j].key
                 PROVE  i = j
      OBVIOUS
    <3>1. CASE i \in 1..n /\ j \in 1..n
      BY <3>1, <1>1, <1>5, <1>8, <1>9, <1>14 DEF OneCopy
    <3>2. CASE i \in 1..n /\ j \notin 1..n
      <4>1. PICK b \in DOMAIN queue : q[j] = queue[b]
        BY <3>2, <1>7
      <4> QED BY <3>2, <4>1, <1>1, <1>5, <1>8, <1>21
    <3>3. CASE i \notin 1..n /\ j \in 1..n
      <4>1. PICK a \in DOMAIN queue : q[i] = queue[a]
        BY <3>3, <1>7
      <4> QED BY <3>3, <4>1, <1>1, <1>5, <1>8, <1>21
    <3>4. CASE i \notin 1..n /\ j \notin 1..n
      BY <3>4, <1>7, <1>14, SMTT(30) DEF OneCopy
    <3> QED BY <3>1, <3>2, <3>3, <3>4
  <2>2. \A d, e \in DOMAIN live : live[d].key = live[e].key => d = e
    BY <1>12, <1>14 DEF OneCopy
  <2>3. \A i \in DOMAIN q : \A d \in DOMAIN live : q[i].key # live[d].key
    <3> SUFFICES ASSUME NEW i \in DOMAIN q, NEW d \in DOMAIN live
                 PROVE  q[i].key # live[d].key
      OBVIOUS
    <3>1. CASE i \in 1..n
      BY <3>1, <1>1, <1>5, <1>8, <1>12, <1>14 DEF OneCopy
    <3>2. CASE i \notin 1..n
      BY <3>2, <1>7, <1>12, <1>21
    <3> QED BY <3>1, <3>2
  <2>4. NoSharedKey(q, live)
    BY <2>3 DEF NoSharedKey
  <2>5. QueuedKeys(q) \cap LeasedKeys(live) = {}
    BY <2>4, DisjointKeys
  <2> QED BY <2>1, <2>2, <2>5 DEF OneCopy
<1>16. \A i \in DOMAIN queue : queue[i].id \in UsedIds
  BY DEF UsedIds
<1>17. DOMAIN inflight \subseteq UsedIds /\ \A c \in Consumers : held[c] \subseteq UsedIds
  BY DEF UsedIds
<1>18. OneId(q, live)
  <2>1. \A i, j \in DOMAIN q : q[i].id = q[j].id => i = j
    <3> SUFFICES ASSUME NEW i \in DOMAIN q, NEW j \in DOMAIN q, q[i].id = q[j].id
                 PROVE  i = j
      OBVIOUS
    <3>1. CASE i \in 1..n /\ j \in 1..n
      <4>1. fresh[order[i]] = fresh[order[j]] /\ order[i] \in gone /\ order[j] \in gone
        BY <3>1, <1>5, <1>8
      <4> QED BY <3>1, <4>1, <1>9, <1>11
    <3>2. CASE i \in 1..n /\ j \notin 1..n
      BY <3>2, <1>5, <1>7, <1>8, <1>16
    <3>3. CASE i \notin 1..n /\ j \in 1..n
      BY <3>3, <1>5, <1>7, <1>8, <1>16
    <3>4. CASE i \notin 1..n /\ j \notin 1..n
      BY <3>4, <1>7, <1>14 DEF OneId
    <3> QED BY <3>1, <3>2, <3>3, <3>4
  <2>2. \A i \in DOMAIN q : q[i].id \notin DOMAIN live
    BY <1>5, <1>7, <1>8, <1>12, <1>14, <1>17 DEF OneId
  <2> QED BY <2>1, <2>2 DEF OneId
<1>19. dedupe = QueuedKeys(q) \cup LeasedKeys(live)
  <2>1. ASSUME NEW k \in QueuedKeys(queue) PROVE k \in QueuedKeys(q)
    <3>1. PICK j \in DOMAIN queue : k = queue[j].key
      BY <2>1 DEF QueuedKeys
    <3>2. j + n \in DOMAIN q /\ q[j + n] = queue[j]
      BY <1>1, <1>4, <1>6
    <3> QED BY <3>1, <3>2 DEF QueuedKeys
  <2>2. ASSUME NEW d \in DOMAIN inflight
        PROVE  inflight[d].key \in QueuedKeys(q) \cup LeasedKeys(live)
    <3>1. CASE d \in gone
      <4>1. PICK i \in 1..n : order[i] = d
        BY <3>1, <1>10
      <4>2. i \in DOMAIN q /\ q[i].key = inflight[d].key
        BY <4>1, <1>1, <1>4, <1>5, <1>8
      <4> QED BY <4>2 DEF QueuedKeys
    <3>2. CASE d \notin gone
      BY <3>2, <1>12 DEF LeasedKeys
    <3> QED BY <3>1, <3>2
  <2>3. ASSUME NEW i \in DOMAIN q
        PROVE  q[i].key \in QueuedKeys(queue) \cup LeasedKeys(inflight)
    BY <1>1, <1>5, <1>7, <1>8 DEF QueuedKeys, LeasedKeys
  <2>4. LeasedKeys(live) \subseteq LeasedKeys(inflight)
    BY <1>12 DEF LeasedKeys
  <2>5. LeasedKeys(inflight) \subseteq QueuedKeys(q) \cup LeasedKeys(live)
    BY <2>2 DEF LeasedKeys
  <2>6. QueuedKeys(q) \subseteq QueuedKeys(queue) \cup LeasedKeys(inflight)
    BY <2>3 DEF QueuedKeys
  <2> QED BY <2>1, <2>4, <2>5, <2>6, <1>14
<1>20. \A i \in DOMAIN q : \A c \in Consumers : q[i].id \notin held[c]
  <2> SUFFICES ASSUME NEW i \in DOMAIN q, NEW c \in Consumers PROVE q[i].id \notin held[c]
    OBVIOUS
  <2>1. CASE i \in 1..n
    BY <2>1, <1>5, <1>8, <1>17
  <2>2. CASE i \notin 1..n
    BY <2>2, <1>7 DEF IInv, HolderIsLessee
  <2> QED BY <2>1, <2>2
<1> QED BY <1>4, <1>12, <1>13, <1>15, <1>18, <1>19, <1>20

\* Leasing the i-th delivery of a consistent queue to consumer c.
LEMMA TakeKeeps ==
    ASSUME NEW q \in Seq(Delivery),
           NEW live, live \in [DOMAIN live -> Lease],
           NEW i \in DOMAIN q,
           NEW c \in Consumers,
           OneCopy(q, live), OneId(q, live)
    PROVE  /\ OneCopy(Drop(q, i), Leased(live, q[i], c))
           /\ OneId(Drop(q, i), Leased(live, q[i], c))
           /\ QueuedKeys(Drop(q, i)) \cup LeasedKeys(Leased(live, q[i], c))
                = QueuedKeys(q) \cup LeasedKeys(live)
           /\ \A j \in DOMAIN Drop(q, i) : \E a \in DOMAIN q : a # i /\ Drop(q, i)[j] = q[a]
<1> DEFINE rest == Drop(q, i)
           infl == Leased(live, q[i], c)
<1>1. Len(q) \in Nat /\ DOMAIN q = 1..Len(q) /\ i \in 1..Len(q)
  OBVIOUS
<1>2. DOMAIN rest = 1..(Len(q) - 1)
  BY DEF Drop
<1> DEFINE at(j) == IF j < i THEN j ELSE j + 1
<1>3. \A j \in DOMAIN rest : at(j) \in DOMAIN q /\ at(j) # i /\ rest[j] = q[at(j)]
  BY <1>1, <1>2 DEF Drop
<1>4. \A j, k \in DOMAIN rest : at(j) = at(k) => j = k
  BY <1>1, <1>2
<1>5. \A a \in DOMAIN q : a # i => \E j \in DOMAIN rest : at(j) = a
  <2> SUFFICES ASSUME NEW a \in DOMAIN q, a # i PROVE \E j \in DOMAIN rest : at(j) = a
    OBVIOUS
  <2>1. CASE a < i
    BY <2>1, <1>1, <1>2
  <2>2. CASE a > i
    <3>1. a - 1 \in DOMAIN rest /\ at(a - 1) = a
      BY <2>2, <1>1, <1>2
    <3> QED BY <3>1
  <2> QED BY <2>1, <2>2, <1>1
<1>6. /\ DOMAIN infl = DOMAIN live \cup {q[i].id}
      /\ infl[q[i].id].key = q[i].key
      /\ \A d \in DOMAIN live : infl[d] = live[d]
      /\ q[i].id \notin DOMAIN live
  BY DEF OneId, Leased
<1>7. \A a \in DOMAIN q : \A d \in DOMAIN live : q[a].key # live[d].key
  BY DisjointKeys DEF OneCopy, NoSharedKey
<1> HIDE DEF at, rest, infl
<1>8. OneCopy(rest, infl)
  <2>1. \A j, k \in DOMAIN rest : rest[j].key = rest[k].key => j = k
    BY <1>3, <1>4 DEF OneCopy
  <2>2. \A d, e \in DOMAIN infl : infl[d].key = infl[e].key => d = e
    BY <1>6, <1>7 DEF OneCopy
  <2>3. \A j \in DOMAIN rest : \A d \in DOMAIN infl : rest[j].key # infl[d].key
    <3> SUFFICES ASSUME NEW j \in DOMAIN rest, NEW d \in DOMAIN infl
                 PROVE  rest[j].key # infl[d].key
      OBVIOUS
    <3>1. CASE d \in DOMAIN live
      BY <3>1, <1>3, <1>6, <1>7
    <3>2. CASE d = q[i].id
      BY <3>2, <1>3, <1>6 DEF OneCopy
    <3> QED BY <3>1, <3>2, <1>6
  <2>4. NoSharedKey(rest, infl)
    BY <2>3 DEF NoSharedKey
  <2>5. QueuedKeys(rest) \cap LeasedKeys(infl) = {}
    BY <2>4, DisjointKeys
  <2> QED BY <2>1, <2>2, <2>5 DEF OneCopy
<1>9. OneId(rest, infl)
  <2>1. \A j, k \in DOMAIN rest : rest[j].id = rest[k].id => j = k
    BY <1>3, <1>4 DEF OneId
  <2>2. \A j \in DOMAIN rest : rest[j].id \notin DOMAIN infl
    BY <1>3, <1>6 DEF OneId
  <2> QED BY <2>1, <2>2 DEF OneId
<1>10. QueuedKeys(rest) \cup LeasedKeys(infl) = QueuedKeys(q) \cup LeasedKeys(live)
  <2>1. QueuedKeys(rest) \subseteq QueuedKeys(q)
    BY <1>3 DEF QueuedKeys
  <2>2. LeasedKeys(infl) = LeasedKeys(live) \cup {q[i].key}
    <3>1. \A d \in DOMAIN infl : infl[d].key \in LeasedKeys(live) \cup {q[i].key}
      BY <1>6 DEF LeasedKeys
    <3>2. \A d \in DOMAIN live : live[d].key \in LeasedKeys(infl)
      BY <1>6 DEF LeasedKeys
    <3>3. q[i].key \in LeasedKeys(infl)
      BY <1>6 DEF LeasedKeys
    <3>4. LeasedKeys(infl) \subseteq LeasedKeys(live) \cup {q[i].key}
      BY <3>1 DEF LeasedKeys
    <3>5. LeasedKeys(live) \subseteq LeasedKeys(infl)
      BY <3>2 DEF LeasedKeys
    <3> QED BY <3>3, <3>4, <3>5
  <2>3. q[i].key \in QueuedKeys(q)
    BY DEF QueuedKeys
  <2>4. \A a \in DOMAIN q : a # i => q[a].key \in QueuedKeys(rest)
    <3> SUFFICES ASSUME NEW a \in DOMAIN q, a # i PROVE q[a].key \in QueuedKeys(rest)
      OBVIOUS
    <3>1. PICK j \in DOMAIN rest : rest[j] = q[a]
      BY <1>3, <1>5
    <3> QED BY <3>1 DEF QueuedKeys
  <2>5. QueuedKeys(q) \subseteq QueuedKeys(rest) \cup {q[i].key}
    BY <2>4 DEF QueuedKeys
  <2> QED BY <2>1, <2>2, <2>3, <2>5
<1> QED BY <1>3, <1>8, <1>9, <1>10 DEF rest, infl

\* Dropping one lease.
LEMMA UnleaseKeeps ==
    ASSUME IInv, NEW d \in DOMAIN inflight,
           NEW infl, infl = Unleased(inflight, {d})
    PROVE  /\ DOMAIN infl = DOMAIN inflight \ {d}
           /\ \A e \in DOMAIN infl : infl[e] = inflight[e]
           /\ infl \in [DOMAIN infl -> Lease]
           /\ DOMAIN infl \in SUBSET Ids
           /\ IsFiniteSet(DOMAIN infl)
           /\ LeasedKeys(infl) = LeasedKeys(inflight) \ {inflight[d].key}
           /\ inflight[d].key \in Keys
           /\ OneCopy(queue, infl)
           /\ OneId(queue, infl)
<1>1. infl = [e \in DOMAIN inflight \ {d} |-> inflight[e]]
  BY DEF Unleased, Restrict
<1>2. /\ DOMAIN infl = DOMAIN inflight \ {d}
      /\ \A e \in DOMAIN infl : infl[e] = inflight[e]
  BY <1>1
<1>3. infl \in [DOMAIN infl -> Lease] /\ DOMAIN infl \in SUBSET Ids
  BY <1>1, <1>2 DEF IInv, TypeOK
<1>4. IsFiniteSet(DOMAIN infl)
  BY <1>2, FS_Subset DEF IInv, TypeOK
<1>5. OneCopy(queue, inflight) /\ OneId(queue, inflight)
  BY DEF IInv, SingleCopy
<1>6. \A e \in DOMAIN inflight : e # d => inflight[e].key # inflight[d].key
  BY <1>5 DEF OneCopy
<1>7. LeasedKeys(infl) = LeasedKeys(inflight) \ {inflight[d].key}
  <2>1. \A e \in DOMAIN infl : infl[e].key \in LeasedKeys(inflight) \ {inflight[d].key}
    BY <1>2, <1>6 DEF LeasedKeys
  <2>2. \A e \in DOMAIN inflight : inflight[e].key # inflight[d].key
                                      => inflight[e].key \in LeasedKeys(infl)
    BY <1>2 DEF LeasedKeys
  <2>3. LeasedKeys(infl) \subseteq LeasedKeys(inflight) \ {inflight[d].key}
    BY <2>1 DEF LeasedKeys
  <2>4. LeasedKeys(inflight) \ {inflight[d].key} \subseteq LeasedKeys(infl)
    BY <2>2 DEF LeasedKeys
  <2> QED BY <2>3, <2>4
<1>8. inflight[d].key \in Keys
  BY DEF IInv, TypeOK, Lease
<1>9. OneCopy(queue, infl)
  BY <1>2, <1>5, <1>7, ZenonT(40) DEF OneCopy
<1>10. OneId(queue, infl)
  BY <1>2, <1>5 DEF OneId
<1> QED BY <1>2, <1>3, <1>4, <1>7, <1>8, <1>9, <1>10

-------------------------------------------------------------------------------
LEMMA InitIInv == Init => IInv
<1> SUFFICES ASSUME Init PROVE IInv
  OBVIOUS
<1>1. DOMAIN inflight = {} /\ DOMAIN queue = {} /\ queue = <<>>
  BY DEF Init
<1>2. TypeOK
  BY <1>1, FS_EmptySet DEF Init, TypeOK
<1>3. QueuedKeys(queue) = {} /\ LeasedKeys(inflight) = {}
  BY <1>1 DEF QueuedKeys, LeasedKeys
<1> QED BY <1>1, <1>2, <1>3 DEF Init, IInv, DedupeExact, SingleCopy, OneCopy, OneId, HolderIsLessee

\* One more delivery at the end of the queue.
LEMMA PublishStep ==
    ASSUME IInv, NEW k \in Keys, Publish(k)
    PROVE  IInv'
<1>1. PICK d \in Ids \ UsedIds : queue' = Append(queue, [id |-> d, key |-> k])
  BY DEF Publish
<1>2. UNCHANGED <<inflight, held>> /\ dedupe' = dedupe \cup {k} /\ k \notin dedupe
  BY DEF Publish
<1> DEFINE x == [id |-> d, key |-> k]
<1>3. queue \in Seq(Delivery) /\ x \in Delivery /\ x.id = d /\ x.key = k
  BY DEF IInv, TypeOK, Delivery
<1>4. /\ queue' \in Seq(Delivery) /\ Len(queue) \in Nat
      /\ DOMAIN queue = 1..Len(queue) /\ DOMAIN queue' = 1..(Len(queue) + 1)
      /\ \A i \in DOMAIN queue : queue'[i] = queue[i]
      /\ queue'[Len(queue) + 1] = x
  BY <1>1, <1>3, AppendProperties
<1>5. \A i \in DOMAIN queue' : i \in DOMAIN queue \/ (i = Len(queue) + 1 /\ queue'[i] = x)
  BY <1>4
<1> HIDE DEF x
<1>6. TypeOK'
  BY <1>2, <1>4 DEF IInv, TypeOK
<1>7. QueuedKeys(queue') = QueuedKeys(queue) \cup {k}
  <2>1. \A i \in DOMAIN queue' : queue'[i].key \in QueuedKeys(queue) \cup {k}
    BY <1>3, <1>4, <1>5 DEF QueuedKeys
  <2>2. \A i \in DOMAIN queue : queue[i].key \in QueuedKeys(queue')
    <3> SUFFICES ASSUME NEW i \in DOMAIN queue PROVE queue[i].key \in QueuedKeys(queue')
      OBVIOUS
    <3>1. i \in DOMAIN queue' /\ queue'[i].key = queue[i].key
      BY <1>4
    <3> QED BY <3>1 DEF QueuedKeys
  <2>3. k \in QueuedKeys(queue')
    <3>1. Len(queue) + 1 \in DOMAIN queue' /\ queue'[Len(queue) + 1].key = k
      BY <1>3, <1>4
    <3> QED BY <3>1 DEF QueuedKeys
  <2>4. QueuedKeys(queue') \subseteq QueuedKeys(queue) \cup {k}
    BY <2>1 DEF QueuedKeys
  <2>5. QueuedKeys(queue) \subseteq QueuedKeys(queue')
    BY <2>2 DEF QueuedKeys
  <2> QED BY <2>3, <2>4, <2>5
<1>8. DedupeExact'
  BY <1>2, <1>7 DEF IInv, DedupeExact
<1>9. k \notin QueuedKeys(queue) /\ k \notin LeasedKeys(inflight)
  BY <1>2 DEF IInv, DedupeExact
<1>10. \A i \in DOMAIN queue : queue[i].key # k /\ queue[i].id # d
  BY <1>1, <1>9 DEF QueuedKeys, UsedIds
<1>11. d \notin DOMAIN inflight /\ \A c \in Consumers : d \notin held[c]
  BY DEF UsedIds
<1>12. OneCopy(queue', inflight')
  <2>1. \A i, j \in DOMAIN queue' : queue'[i].key = queue'[j].key => i = j
    BY <1>3, <1>4, <1>5, <1>10 DEF IInv, SingleCopy, OneCopy
  <2>2. QueuedKeys(queue') \cap LeasedKeys(inflight') = {}
    BY <1>2, <1>7, <1>9 DEF IInv, SingleCopy, OneCopy
  <2> QED BY <1>2, <2>1, <2>2 DEF IInv, SingleCopy, OneCopy
<1>13. OneId(queue', inflight')
  BY <1>2, <1>3, <1>4, <1>5, <1>10, <1>11 DEF IInv, SingleCopy, OneId
<1>14. HolderIsLessee'
  BY <1>2, <1>3, <1>4, <1>5, <1>11 DEF IInv, HolderIsLessee
<1> QED BY <1>6, <1>8, <1>12, <1>13, <1>14 DEF IInv, SingleCopy

\* The reclaim, then at most one new lease.
LEMMA ReceiveStep ==
    ASSUME IInv, NEW c \in Consumers, Receive(c)
    PROVE  IInv'
<1> DEFINE gone == expired_ids(inflight)
           live == Unleased(inflight, gone)
<1>1. PICK order \in Bijection(1..Cardinality(gone), gone),
           fresh \in Injection(gone, Ids \ UsedIds) :
        LET q == redeliver(inflight, order, fresh) \o queue
        IN \/ \E i \in DOMAIN q :
                /\ IsFirstMatch(q, i, c)
                /\ queue' = Drop(q, i)
                /\ inflight' = Leased(live, q[i], c)
                /\ held' = [held EXCEPT ![c] = @ \cup {q[i].id}]
           \/ /\ NoMatch(q, c)
              /\ gone # {}
              /\ queue' = q
              /\ inflight' = live
              /\ UNCHANGED held
  BY DEF Receive
<1>2. dedupe' = dedupe
  BY DEF Receive
<1> DEFINE q == redeliver(inflight, order, fresh) \o queue
<1>3. /\ q \in Seq(Delivery)
      /\ DOMAIN live = DOMAIN inflight \ gone
      /\ \A d \in DOMAIN live : live[d] = inflight[d]
      /\ live \in [DOMAIN live -> Lease]
      /\ OneCopy(q, live)
      /\ OneId(q, live)
      /\ dedupe = QueuedKeys(q) \cup LeasedKeys(live)
      /\ \A i \in DOMAIN q : \A b \in Consumers : q[i].id \notin held[b]
  BY ReclaimKeeps
<1>9. \/ \E i \in DOMAIN q :
              /\ queue' = Drop(q, i)
              /\ inflight' = Leased(live, q[i], c)
              /\ held' = [held EXCEPT ![c] = @ \cup {q[i].id}]
      \/ queue' = q /\ inflight' = live /\ UNCHANGED held
  BY <1>1
<1> HIDE DEF q, live, gone
<1>4. IsFiniteSet(DOMAIN live) /\ DOMAIN live \subseteq Ids
  BY <1>3, FS_Subset DEF IInv, TypeOK
<1>5. held \in [Consumers -> SUBSET Ids] /\ dedupe \subseteq Keys
  BY DEF IInv, TypeOK
<1>6. \A b \in Consumers : \A d \in held[b] : d \in DOMAIN live => live[d].to = b
  BY <1>3 DEF IInv, HolderIsLessee
<1>7. CASE \E i \in DOMAIN q :
                /\ queue' = Drop(q, i)
                /\ inflight' = Leased(live, q[i], c)
                /\ held' = [held EXCEPT ![c] = @ \cup {q[i].id}]
  <2>1. PICK i \in DOMAIN q :
                /\ queue' = Drop(q, i)
                /\ inflight' = Leased(live, q[i], c)
                /\ held' = [held EXCEPT ![c] = @ \cup {q[i].id}]
    BY <1>7
  <2>0. q[i] \in Delivery
    BY <1>3
  <2>2. q[i].id \in Ids /\ q[i].key \in Keys
    BY <2>0 DEF Delivery
  <2>3. /\ OneCopy(queue', inflight')
        /\ OneId(queue', inflight')
        /\ QueuedKeys(queue') \cup LeasedKeys(inflight') = QueuedKeys(q) \cup LeasedKeys(live)
        /\ \A j \in DOMAIN queue' : \E a \in DOMAIN q : a # i /\ queue'[j] = q[a]
    BY <1>3, <2>1, TakeKeeps
  <2>4. queue' \in Seq(Delivery)
    BY <1>3, <2>1, DropType
  <2>5. /\ DOMAIN inflight' = DOMAIN live \cup {q[i].id}
        /\ inflight'[q[i].id] = [key |-> q[i].key, to |-> c, expired |-> FALSE]
        /\ \A d \in DOMAIN live : d # q[i].id => inflight'[d] = live[d]
        /\ inflight' = [d \in DOMAIN inflight' |-> inflight'[d]]
    BY <2>1 DEF Leased
  <2>6. IsFiniteSet(DOMAIN inflight')
    BY <1>4, <2>5, FS_AddElement
  <2>7. inflight' \in [DOMAIN inflight' -> Lease]
    <3>1. \A d \in DOMAIN live : live[d] \in Lease
      BY <1>3
    <3>2. [key |-> q[i].key, to |-> c, expired |-> FALSE] \in Lease
      BY <2>2 DEF Lease
    <3> QED BY <2>1, <2>5, <3>1, <3>2
  <2>8. TypeOK'
    BY <1>2, <1>4, <1>5, <2>1, <2>2, <2>4, <2>5, <2>6, <2>7 DEF TypeOK
  <2>9. DedupeExact'
    BY <1>2, <1>3, <2>3 DEF DedupeExact
  <2>10. ASSUME NEW b \in Consumers, NEW d \in held'[b]
         PROVE  /\ d \in DOMAIN inflight' => inflight'[d].to = b
                /\ \A j \in DOMAIN queue' : queue'[j].id # d
    <3>1. CASE d = q[i].id
      <4>1. b = c
        BY <3>1, <1>3, <1>5, <2>1, <2>10
      <4>2. \A j \in DOMAIN queue' : queue'[j].id # d
        BY <3>1, <1>3, <2>3 DEF OneId
      <4> QED BY <3>1, <4>1, <4>2, <2>1, <2>5
    <3>2. CASE d # q[i].id
      <4>1. d \in held[b]
        BY <3>2, <1>5, <2>1, <2>10
      <4>2. \A j \in DOMAIN queue' : queue'[j].id # d
        BY <4>1, <1>3, <2>3
      <4> QED BY <3>2, <4>1, <4>2, <1>6, <2>1, <2>5
    <3> QED BY <3>1, <3>2
  <2>11. HolderIsLessee'
    BY <2>10 DEF HolderIsLessee
  <2> QED BY <2>3, <2>8, <2>9, <2>11 DEF IInv, SingleCopy
<1>8. CASE queue' = q /\ inflight' = live /\ UNCHANGED held
  <2>1. TypeOK'
    BY <1>2, <1>3, <1>4, <1>5, <1>8 DEF TypeOK
  <2>2. HolderIsLessee'
    BY <1>3, <1>6, <1>8 DEF HolderIsLessee
  <2> QED BY <1>2, <1>3, <1>8, <2>1, <2>2 DEF IInv, DedupeExact, SingleCopy
<1> QED BY <1>9, <1>7, <1>8

\* An ack removes a lease and its key together.
LEMMA AckStep ==
    ASSUME IInv, NEW c \in Consumers, NEW d \in held[c], Ack(c, d)
    PROVE  IInv'
<1>1. held' = [held EXCEPT ![c] = @ \ {d}] /\ queue' = queue
  BY DEF Ack
<1>2. held \in [Consumers -> SUBSET Ids]
  BY DEF IInv, TypeOK
<1>3. \A b \in Consumers : held'[b] \subseteq held[b]
  BY <1>1, <1>2
<1>4. held' \in [Consumers -> SUBSET Ids]
  BY <1>1, <1>2
<1>5. CASE d \in DOMAIN inflight
  <2>1. dedupe' = dedupe \ {inflight[d].key} /\ inflight' = Unleased(inflight, {d})
    BY <1>5 DEF Ack
  <2>2. /\ DOMAIN inflight' = DOMAIN inflight \ {d}
        /\ \A e \in DOMAIN inflight' : inflight'[e] = inflight[e]
        /\ inflight' \in [DOMAIN inflight' -> Lease]
        /\ DOMAIN inflight' \in SUBSET Ids
        /\ IsFiniteSet(DOMAIN inflight')
        /\ LeasedKeys(inflight') = LeasedKeys(inflight) \ {inflight[d].key}
        /\ OneCopy(queue, inflight')
        /\ OneId(queue, inflight')
    BY <1>5, <2>1, UnleaseKeeps
  <2>3. TypeOK'
    BY <1>1, <1>4, <2>1, <2>2 DEF IInv, TypeOK
  <2>4. inflight[d].key \in LeasedKeys(inflight)
    BY <1>5 DEF LeasedKeys
  <2>5. inflight[d].key \notin QueuedKeys(queue)
    BY <2>4 DEF IInv, SingleCopy, OneCopy
  <2>6. DedupeExact'
    BY <1>1, <2>1, <2>2, <2>5 DEF IInv, DedupeExact
  <2>7. HolderIsLessee'
    BY <1>1, <1>3, <2>2 DEF IInv, HolderIsLessee
  <2> QED BY <1>1, <2>2, <2>3, <2>6, <2>7 DEF IInv, SingleCopy
<1>6. CASE d \notin DOMAIN inflight
  <2>1. UNCHANGED <<dedupe, inflight>>
    BY <1>6 DEF Ack
  <2>2. TypeOK' /\ HolderIsLessee'
    BY <1>1, <1>3, <1>4, <2>1 DEF IInv, TypeOK, HolderIsLessee
  <2> QED BY <1>1, <2>1, <2>2 DEF IInv, DedupeExact, SingleCopy
<1> QED BY <1>5, <1>6

\* A nack moves a leased delivery to the front of the queue under a new id.
LEMMA NackStep ==
    ASSUME IInv, NEW c \in Consumers, NEW d \in held[c], Nack(c, d)
    PROVE  IInv'
<1>1. held' = [held EXCEPT ![c] = @ \ {d}] /\ dedupe' = dedupe
  BY DEF Nack
<1>2. held \in [Consumers -> SUBSET Ids]
  BY DEF IInv, TypeOK
<1>3. \A b \in Consumers : held'[b] \subseteq held[b]
  BY <1>1, <1>2
<1>4. held' \in [Consumers -> SUBSET Ids]
  BY <1>1, <1>2
<1>5. CASE d \in DOMAIN inflight
  <2>1. PICK e \in Ids \ UsedIds :
          queue' = <<[id |-> e, key |-> inflight[d].key]>> \o queue
    BY <1>5 DEF Nack
  <2>2. inflight' = Unleased(inflight, {d})
    BY <1>5 DEF Nack
  <2> DEFINE k == inflight[d].key
             x == [id |-> e, key |-> k]
  <2>3. /\ DOMAIN inflight' = DOMAIN inflight \ {d}
        /\ \A a \in DOMAIN inflight' : inflight'[a] = inflight[a]
        /\ inflight' \in [DOMAIN inflight' -> Lease]
        /\ DOMAIN inflight' \in SUBSET Ids
        /\ IsFiniteSet(DOMAIN inflight')
        /\ LeasedKeys(inflight') = LeasedKeys(inflight) \ {k}
        /\ k \in Keys
        /\ OneCopy(queue, inflight')
        /\ OneId(queue, inflight')
    BY <1>5, <2>2, UnleaseKeeps
  <2>4. queue \in Seq(Delivery) /\ x \in Delivery /\ x.id = e /\ x.key = k
    BY <2>3 DEF IInv, TypeOK, Delivery
  <2>5. /\ queue' \in Seq(Delivery) /\ Len(queue) \in Nat
        /\ DOMAIN queue = 1..Len(queue) /\ DOMAIN queue' = 1..(Len(queue) + 1)
        /\ queue'[1] = x
        /\ \A i \in DOMAIN queue' : i # 1 => i - 1 \in DOMAIN queue /\ queue'[i] = queue[i - 1]
    <3>1. <<x>> \in Seq(Delivery) /\ Len(<<x>>) = 1 /\ <<x>>[1] = x
      BY <2>4
    <3> HIDE DEF x
    <3>2. queue' \in Seq(Delivery) /\ Len(queue') = 1 + Len(queue) /\ Len(queue) \in Nat
      BY <2>1, <2>4, <3>1, ConcatProperties DEF x
    <3>3. \A i \in 1..(1 + Len(queue)) : queue'[i] = IF i <= 1 THEN <<x>>[i] ELSE queue[i - 1]
      BY <2>1, <2>4, <3>1, ConcatProperties DEF x
    <3>4. DOMAIN queue' = 1..(Len(queue) + 1) /\ DOMAIN queue = 1..Len(queue)
      BY <2>4, <3>2
    <3> QED BY <3>1, <3>2, <3>3, <3>4
  <2> HIDE DEF x, k
  <2>6. \A i \in DOMAIN queue : i + 1 \in DOMAIN queue' /\ queue'[i + 1] = queue[i]
    BY <2>5
  <2>7. TypeOK'
    BY <1>1, <1>4, <2>3, <2>5 DEF IInv, TypeOK
  <2>8. QueuedKeys(queue') = QueuedKeys(queue) \cup {k}
    <3>1. \A i \in DOMAIN queue' : queue'[i].key \in QueuedKeys(queue) \cup {k}
      BY <2>4, <2>5 DEF QueuedKeys
    <3>2. \A i \in DOMAIN queue : queue[i].key \in QueuedKeys(queue')
      <4> SUFFICES ASSUME NEW i \in DOMAIN queue PROVE queue[i].key \in QueuedKeys(queue')
        OBVIOUS
      <4>1. i + 1 \in DOMAIN queue' /\ queue'[i + 1].key = queue[i].key
        BY <2>6
      <4> QED BY <4>1 DEF QueuedKeys
    <3>3. k \in QueuedKeys(queue')
      <4>1. 1 \in DOMAIN queue' /\ queue'[1].key = k
        BY <2>4, <2>5
      <4> QED BY <4>1 DEF QueuedKeys
    <3>4. QueuedKeys(queue') \subseteq QueuedKeys(queue) \cup {k}
      BY <3>1 DEF QueuedKeys
    <3>5. QueuedKeys(queue) \subseteq QueuedKeys(queue')
      BY <3>2 DEF QueuedKeys
    <3> QED BY <3>3, <3>4, <3>5
  <2>9. k \in LeasedKeys(inflight)
    BY <1>5 DEF LeasedKeys, k
  <2>10. DedupeExact'
    BY <1>1, <2>3, <2>8, <2>9 DEF IInv, DedupeExact
  <2>11. \A i \in DOMAIN queue : queue[i].key # k /\ queue[i].id # e
    <3>1. k \notin QueuedKeys(queue)
      BY <2>9 DEF IInv, SingleCopy, OneCopy
    <3> QED BY <2>1, <3>1 DEF QueuedKeys, UsedIds
  <2>12. e \notin DOMAIN inflight /\ \A b \in Consumers : e \notin held[b]
    BY DEF UsedIds
  <2>13. OneCopy(queue', inflight')
    <3>1. \A i, j \in DOMAIN queue' : queue'[i].key = queue'[j].key => i = j
      BY <2>4, <2>5, <2>11, SMTT(30) DEF IInv, SingleCopy, OneCopy
    <3>2. QueuedKeys(queue') \cap LeasedKeys(inflight') = {}
      BY <2>3, <2>8 DEF OneCopy
    <3> QED BY <2>3, <3>1, <3>2 DEF OneCopy
  <2>14. OneId(queue', inflight')
    <3>1. \A i, j \in DOMAIN queue' : queue'[i].id = queue'[j].id => i = j
      BY <2>4, <2>5, <2>11 DEF IInv, SingleCopy, OneId
    <3>2. \A i \in DOMAIN queue' : queue'[i].id \notin DOMAIN inflight'
      BY <2>3, <2>4, <2>5, <2>12 DEF OneId
    <3> QED BY <3>1, <3>2 DEF OneId
  <2>15. HolderIsLessee'
    <3>1. \A b \in Consumers : \A a \in held'[b] : a \in DOMAIN inflight' => inflight'[a].to = b
      BY <1>3, <2>3 DEF IInv, HolderIsLessee
    <3>2. \A b \in Consumers : \A a \in held'[b] : \A i \in DOMAIN queue' : queue'[i].id # a
      BY <1>3, <2>4, <2>5, <2>12 DEF IInv, HolderIsLessee
    <3> QED BY <3>1, <3>2 DEF HolderIsLessee
  <2> QED BY <2>7, <2>10, <2>13, <2>14, <2>15 DEF IInv, SingleCopy
<1>6. CASE d \notin DOMAIN inflight
  <2>1. UNCHANGED <<queue, inflight>>
    BY <1>6 DEF Nack
  <2>2. TypeOK' /\ HolderIsLessee'
    BY <1>1, <1>3, <1>4, <2>1 DEF IInv, TypeOK, HolderIsLessee
  <2> QED BY <1>1, <2>1, <2>2 DEF IInv, DedupeExact, SingleCopy
<1> QED BY <1>5, <1>6

\* Time and crashes touch neither the keys nor the ids.
LEMMA ExpireStep ==
    ASSUME IInv, NEW d \in DOMAIN inflight, Expire(d)
    PROVE  IInv'
<1>1. /\ inflight' = [inflight EXCEPT ![d].expired = TRUE]
      /\ queue' = queue /\ dedupe' = dedupe /\ held' = held
  BY DEF Expire
<1>2. inflight \in [DOMAIN inflight -> Lease]
  BY DEF IInv, TypeOK
<1>3. /\ DOMAIN inflight' = DOMAIN inflight
      /\ \A e \in DOMAIN inflight : /\ inflight'[e] \in Lease
                                    /\ inflight'[e].key = inflight[e].key
                                    /\ inflight'[e].to = inflight[e].to
  BY <1>1, <1>2 DEF Lease
<1>4. inflight' \in [DOMAIN inflight' -> Lease]
  BY <1>1, <1>2, <1>3
<1>5. LeasedKeys(inflight') = LeasedKeys(inflight)
  <2>1. \A e \in DOMAIN inflight' : inflight'[e].key \in LeasedKeys(inflight)
    BY <1>3 DEF LeasedKeys
  <2>2. \A e \in DOMAIN inflight : inflight[e].key \in LeasedKeys(inflight')
    <3> SUFFICES ASSUME NEW e \in DOMAIN inflight
                 PROVE  inflight[e].key \in LeasedKeys(inflight')
      OBVIOUS
    <3>1. e \in DOMAIN inflight' /\ inflight'[e].key = inflight[e].key
      BY <1>3
    <3> QED BY <3>1 DEF LeasedKeys
  <2>3. LeasedKeys(inflight') \subseteq LeasedKeys(inflight)
    BY <2>1 DEF LeasedKeys
  <2>4. LeasedKeys(inflight) \subseteq LeasedKeys(inflight')
    BY <2>2 DEF LeasedKeys
  <2> QED BY <2>3, <2>4
<1>6. TypeOK'
  BY <1>1, <1>3, <1>4 DEF IInv, TypeOK
<1>7. OneCopy(queue', inflight') /\ OneId(queue', inflight')
  BY <1>1, <1>3, <1>5 DEF IInv, SingleCopy, OneCopy, OneId
<1>8. HolderIsLessee'
  BY <1>1, <1>3 DEF IInv, HolderIsLessee
<1> QED BY <1>1, <1>5, <1>6, <1>7, <1>8 DEF IInv, DedupeExact, SingleCopy

LEMMA CrashStep ==
    ASSUME IInv, NEW c \in Consumers, Crash(c)
    PROVE  IInv'
<1>1. held' = [held EXCEPT ![c] = {}] /\ UNCHANGED <<queue, inflight, dedupe>>
  BY DEF Crash
<1>2. held' \in [Consumers -> SUBSET Ids] /\ \A b \in Consumers : held'[b] \subseteq held[b]
  BY <1>1 DEF IInv, TypeOK
<1>3. TypeOK' /\ HolderIsLessee'
  BY <1>1, <1>2 DEF IInv, TypeOK, HolderIsLessee
<1> QED BY <1>1, <1>3 DEF IInv, DedupeExact, SingleCopy

-------------------------------------------------------------------------------
\* The inductive invariant holds in every reachable state of the channel.
THEOREM Invariance == Spec => []IInv
<1>1. IInv /\ [Next]_vars => IInv'
  <2> SUFFICES ASSUME IInv, [Next]_vars PROVE IInv'
    OBVIOUS
  <2>1. ASSUME NEW k \in Keys, Publish(k) PROVE IInv'
    BY <2>1, PublishStep
  <2>2. ASSUME NEW c \in Consumers, Receive(c) PROVE IInv'
    BY <2>2, ReceiveStep
  <2>3. ASSUME NEW c \in Consumers, Crash(c) PROVE IInv'
    BY <2>3, CrashStep
  <2>4. ASSUME NEW c \in Consumers, NEW d \in held[c], Ack(c, d) PROVE IInv'
    BY <2>4, AckStep
  <2>5. ASSUME NEW c \in Consumers, NEW d \in held[c], Nack(c, d) PROVE IInv'
    BY <2>5, NackStep
  <2>6. ASSUME NEW d \in DOMAIN inflight, Expire(d) PROVE IInv'
    BY <2>6, ExpireStep
  <2>7. CASE UNCHANGED vars
    BY <2>7 DEF vars, IInv, TypeOK, DedupeExact, SingleCopy, HolderIsLessee
  <2> QED BY <2>1, <2>2, <2>3, <2>4, <2>5, <2>6, <2>7 DEF Next
<1> QED BY <1>1, InitIInv, PTL DEF Spec

\* The channel's state keeps its type.
THEOREM TypeCorrect == Spec => []TypeOK
<1>1. IInv => TypeOK
  BY DEF IInv
<1> QED BY <1>1, Invariance, PTL

\* A message is in the channel exactly while its key is in the dedupe set, and
\* then in one place: publish, receive with reclaim, ack, nack, lease expiry and
\* consumer crashes neither lose nor duplicate it.
THEOREM NothingLostOrDuplicated == Spec => [](DedupeExact /\ SingleCopy)
<1>1. IInv => DedupeExact /\ SingleCopy
  BY DEF IInv
<1> QED BY <1>1, Invariance, PTL

\* A consumer whose delivery was reclaimed or handed on cannot settle or return
\* the new delivery: it does not know the id under which that one is leased.
THEOREM HolderSafety == Spec => []HolderIsLessee
<1>1. IInv => HolderIsLessee
  BY DEF IInv
<1> QED BY <1>1, Invariance, PTL

\* The dedupe set is exact: a publish is refused while, and only while, its message is
\* queued or leased.
THEOREM RefusedWhileHeld == Spec => []DedupeExact
<1>1. IInv => DedupeExact
  BY DEF IInv
<1> QED BY <1>1, Invariance, PTL

-------------------------------------------------------------------------------
(***************************************************************************)
(* The refinement: what a client of the channel sees is an at-least-once   *)
(* channel with exclusive leases.                                          *)
(***************************************************************************)
\* The consumers a lease map has message k leased to.
HoldersIn(infl, k) == {infl[d].to : d \in {e \in DOMAIN infl : infl[e].key = k}}

LEMMA HoldersOfMap ==
    ASSUME NEW infl
    PROVE  [k \in Keys |-> IF k \in LeasedKeys(infl)
                             THEN {infl[d].to : d \in {e \in DOMAIN infl : infl[e].key = k}}
                             ELSE {}]
             = [k \in Keys |-> HoldersIn(infl, k)]
<1>1. ASSUME NEW k \in Keys, k \notin LeasedKeys(infl) PROVE HoldersIn(infl, k) = {}
  <2>1. {e \in DOMAIN infl : infl[e].key = k} = {}
    BY <1>1 DEF LeasedKeys
  <2> QED BY <2>1 DEF HoldersIn
<1> QED BY <1>1 DEF HoldersIn

LEMMA HolderOfKey ==
    /\ holder = [k \in Keys |-> HoldersIn(inflight, k)]
    /\ holder' = [k \in Keys |-> HoldersIn(inflight', k)]
  BY HoldersOfMap DEF holder

\* Holders change with the leases of the message alone.
LEMMA SameHolders ==
    ASSUME NEW f, NEW g, NEW k,
           \A d \in DOMAIN f : f[d].key = k => d \in DOMAIN g /\ g[d].key = k /\ g[d].to = f[d].to,
           \A d \in DOMAIN g : g[d].key = k => d \in DOMAIN f /\ f[d].key = k /\ f[d].to = g[d].to
    PROVE  HoldersIn(f, k) = HoldersIn(g, k)
<1>1. ASSUME NEW d \in DOMAIN f, f[d].key = k PROVE f[d].to \in HoldersIn(g, k)
  BY <1>1 DEF HoldersIn
<1>2. ASSUME NEW d \in DOMAIN g, g[d].key = k PROVE g[d].to \in HoldersIn(f, k)
  BY <1>2 DEF HoldersIn
<1>3. HoldersIn(f, k) \subseteq HoldersIn(g, k)
  BY <1>1 DEF HoldersIn
<1>4. HoldersIn(g, k) \subseteq HoldersIn(f, k)
  BY <1>2 DEF HoldersIn
<1> QED BY <1>3, <1>4

LEMMA NoHolders ==
    ASSUME NEW f, NEW k, \A d \in DOMAIN f : f[d].key # k
    PROVE  HoldersIn(f, k) = {}
<1>1. {e \in DOMAIN f : f[e].key = k} = {}
  OBVIOUS
<1> QED BY <1>1 DEF HoldersIn

LEMMA InitRefines == Init => Promise!Init
<1> SUFFICES ASSUME Init PROVE Promise!Init
  OBVIOUS
<1>1. DOMAIN inflight = {}
  BY DEF Init
<1>2. \A k \in Keys : HoldersIn(inflight, k) = {}
  BY <1>1, NoHolders
<1> QED BY <1>2, HolderOfKey DEF Init, Promise!Init

LEMMA PublishRefines ==
    ASSUME NEW k \in Keys, Publish(k)
    PROVE  Promise!Next
<1>1. Promise!Accept(k)
  BY DEF Publish, Promise!Accept, holder
<1> QED BY <1>1 DEF Promise!Next

LEMMA AckRefines ==
    ASSUME IInv, NEW c \in Consumers, NEW d \in held[c], Ack(c, d)
    PROVE  Promise!Next \/ UNCHANGED <<dedupe, holder>>
<1>1. CASE d \notin DOMAIN inflight
  BY <1>1 DEF Ack, holder
<1>2. CASE d \in DOMAIN inflight
  <2>1. PICK k \in Keys : k = inflight[d].key
    BY <1>2 DEF IInv, TypeOK, Lease
  <2>2. dedupe' = dedupe \ {k} /\ inflight' = Unleased(inflight, {d})
    BY <1>2, <2>1 DEF Ack
  <2>3. /\ DOMAIN inflight' = DOMAIN inflight \ {d}
        /\ \A e \in DOMAIN inflight' : inflight'[e] = inflight[e]
    BY <2>2 DEF Unleased, Restrict
  <2>4. \A e \in DOMAIN inflight : inflight[e].key = k => e = d
    BY <1>2, <2>1 DEF IInv, SingleCopy, OneCopy
  <2>5. k \in dedupe
    BY <1>2, <2>1 DEF IInv, DedupeExact, LeasedKeys
  <2>6. HoldersIn(inflight, k) # {}
    BY <1>2, <2>1 DEF HoldersIn
  <2>7. HoldersIn(inflight', k) = {}
    BY <2>3, <2>4, NoHolders
  <2>8. \A j \in Keys : j # k => HoldersIn(inflight', j) = HoldersIn(inflight, j)
    BY <2>1, <2>3, SameHolders
  <2>9. Promise!Settle(k)
    BY <2>2, <2>5, <2>6, <2>7, <2>8, HolderOfKey DEF Promise!Settle
  <2> QED BY <2>9 DEF Promise!Next
<1> QED BY <1>1, <1>2

LEMMA NackRefines ==
    ASSUME IInv, NEW c \in Consumers, NEW d \in held[c], Nack(c, d)
    PROVE  Promise!Next \/ UNCHANGED <<dedupe, holder>>
<1>1. CASE d \notin DOMAIN inflight
  BY <1>1 DEF Nack, holder
<1>2. CASE d \in DOMAIN inflight
  <2>1. PICK k \in Keys : k = inflight[d].key
    BY <1>2 DEF IInv, TypeOK, Lease
  <2>2. dedupe' = dedupe /\ inflight' = Unleased(inflight, {d})
    BY <1>2 DEF Nack
  <2>3. /\ DOMAIN inflight' = DOMAIN inflight \ {d}
        /\ \A e \in DOMAIN inflight' : inflight'[e] = inflight[e]
    BY <2>2 DEF Unleased, Restrict
  <2>4. \A e \in DOMAIN inflight : inflight[e].key = k => e = d
    BY <1>2, <2>1 DEF IInv, SingleCopy, OneCopy
  <2>5. HoldersIn(inflight', k) = {}
    BY <2>3, <2>4, NoHolders
  <2>6. \A j \in Keys : j # k => HoldersIn(inflight', j) = HoldersIn(inflight, j)
    BY <2>1, <2>3, SameHolders
  <2>7. Promise!Reassign({k}, {})
    BY <2>2, <2>5, <2>6, HolderOfKey DEF Promise!Reassign
  <2>8. {k} \in SUBSET Keys /\ {} \in Promise!Grants
    BY DEF Promise!Grants
  <2> QED BY <2>7, <2>8 DEF Promise!Next
<1> QED BY <1>1, <1>2

LEMMA ExpireRefines ==
    ASSUME IInv, NEW d \in DOMAIN inflight, Expire(d)
    PROVE  UNCHANGED <<dedupe, holder>>
<1>1. inflight' = [inflight EXCEPT ![d].expired = TRUE] /\ dedupe' = dedupe
  BY DEF Expire
<1>2. /\ DOMAIN inflight' = DOMAIN inflight
      /\ \A e \in DOMAIN inflight : /\ inflight'[e].key = inflight[e].key
                                    /\ inflight'[e].to = inflight[e].to
  BY <1>1 DEF IInv, TypeOK, Lease
<1>3. \A k \in Keys : HoldersIn(inflight', k) = HoldersIn(inflight, k)
  BY <1>2, SameHolders
<1> QED BY <1>1, <1>3, HolderOfKey

\* A receive takes the expired leases away and leases one message, in one step.
LEMMA ReceiveRefines ==
    ASSUME IInv, NEW c \in Consumers, Receive(c)
    PROVE  Promise!Next
<1> DEFINE gone == expired_ids(inflight)
           live == Unleased(inflight, gone)
           lapsed == {k \in Keys : \E d \in gone : inflight[d].key = k}
<1>1. PICK order \in Bijection(1..Cardinality(gone), gone),
           fresh \in Injection(gone, Ids \ UsedIds) :
        LET q == redeliver(inflight, order, fresh) \o queue
        IN \/ \E i \in DOMAIN q :
                /\ IsFirstMatch(q, i, c)
                /\ queue' = Drop(q, i)
                /\ inflight' = Leased(live, q[i], c)
                /\ held' = [held EXCEPT ![c] = @ \cup {q[i].id}]
           \/ /\ NoMatch(q, c)
              /\ gone # {}
              /\ queue' = q
              /\ inflight' = live
              /\ UNCHANGED held
  BY DEF Receive
<1>2. dedupe' = dedupe
  BY DEF Receive
<1> DEFINE q == redeliver(inflight, order, fresh) \o queue
<1>3. /\ q \in Seq(Delivery)
      /\ DOMAIN live = DOMAIN inflight \ gone
      /\ \A d \in DOMAIN live : live[d] = inflight[d]
      /\ OneCopy(q, live)
      /\ OneId(q, live)
      /\ dedupe = QueuedKeys(q) \cup LeasedKeys(live)
  BY ReclaimKeeps
<1>4. \/ \E i \in DOMAIN q : c \in Eligible[q[i].key] /\ inflight' = Leased(live, q[i], c)
      \/ inflight' = live
  BY <1>1 DEF IsFirstMatch
<1>5. gone \subseteq DOMAIN inflight
  BY DEF expired_ids
<1>6. \A d, e \in DOMAIN inflight : inflight[d].key = inflight[e].key => d = e
  BY DEF IInv, SingleCopy, OneCopy
<1> HIDE DEF q, live, gone
<1>7. \A k \in Keys : k \in lapsed => \A d \in DOMAIN live : live[d].key # k
  BY <1>3, <1>5, <1>6
<1>8. \A k \in Keys : k \notin lapsed =>
         \A d \in DOMAIN inflight : inflight[d].key = k => d \in DOMAIN live
  BY <1>3
<1> HIDE DEF lapsed
<1>9. \A k \in Keys : HoldersIn(live, k) = IF k \in lapsed THEN {} ELSE HoldersIn(inflight, k)
  <2> SUFFICES ASSUME NEW k \in Keys
               PROVE  HoldersIn(live, k) = IF k \in lapsed THEN {} ELSE HoldersIn(inflight, k)
    OBVIOUS
  <2>1. CASE k \in lapsed
    BY <1>7, <2>1, NoHolders
  <2>2. CASE k \notin lapsed
    BY <1>3, <1>8, <2>2, SameHolders
  <2> QED BY <2>1, <2>2
<1>10. lapsed \in SUBSET Keys
  BY DEF lapsed
<1>11. CASE inflight' = live
  <2>1. Promise!Reassign(lapsed, {})
    BY <1>2, <1>9, <1>11, HolderOfKey DEF Promise!Reassign
  <2>2. {} \in Promise!Grants
    BY DEF Promise!Grants
  <2> QED BY <1>10, <2>1, <2>2 DEF Promise!Next
<1>12. CASE \E i \in DOMAIN q : c \in Eligible[q[i].key] /\ inflight' = Leased(live, q[i], c)
  <2>1. PICK i \in DOMAIN q : c \in Eligible[q[i].key] /\ inflight' = Leased(live, q[i], c)
    BY <1>12
  <2>2. q[i] \in Delivery
    BY <1>3
  <2>3. PICK k \in Keys : k = q[i].key
    BY <2>2 DEF Delivery
  <2> DEFINE g == [key |-> k, to |-> c]
  <2>4. g.key = k /\ g.to = c
    OBVIOUS
  <2>5. {g} \in Promise!Grants
    BY DEF Promise!Grants
  <2> HIDE DEF g
  <2>6. \A d \in DOMAIN live : live[d].key # k
    <3>1. QueuedKeys(q) \cap LeasedKeys(live) = {}
      BY <1>3 DEF OneCopy
    <3>2. NoSharedKey(q, live)
      BY <3>1, DisjointKeys
    <3> QED BY <2>3, <3>2 DEF NoSharedKey
  <2>7. /\ DOMAIN inflight' = DOMAIN live \cup {q[i].id}
        /\ inflight'[q[i].id].key = k /\ inflight'[q[i].id].to = c
        /\ \A d \in DOMAIN live : inflight'[d] = live[d]
        /\ q[i].id \notin DOMAIN live
    BY <1>3, <2>1, <2>3 DEF Leased, OneId
  <2>8. HoldersIn(inflight', k) = {c}
    <3>1. {e \in DOMAIN inflight' : inflight'[e].key = k} = {q[i].id}
      BY <2>6, <2>7
    <3> QED BY <2>7, <3>1 DEF HoldersIn
  <2>9. \A j \in Keys : j # k => HoldersIn(inflight', j) = HoldersIn(live, j)
    BY <2>7, SameHolders
  <2>10. {x.to : x \in {g}} = {c}
    BY <2>4
  <2>11. k \in dedupe
    BY <1>3, <2>3 DEF QueuedKeys
  <2>12. HoldersIn(inflight, k) = {} \/ k \in lapsed
    <3>1. k \notin lapsed => \A d \in DOMAIN inflight : inflight[d].key # k
      BY <1>3, <1>8, <2>6
    <3> QED BY <3>1, NoHolders
  <2>13. \A j \in Keys : HoldersIn(inflight', j) =
            IF \E x \in {g} : x.key = j THEN {x.to : x \in {g}}
            ELSE IF j \in lapsed THEN {} ELSE HoldersIn(inflight, j)
    BY <1>9, <2>4, <2>8, <2>9, <2>10
  <2>14. \A x \in {g} : /\ x.key \in dedupe /\ x.to \in Eligible[x.key]
                        /\ holder[x.key] = {} \/ x.key \in lapsed
    BY <2>1, <2>3, <2>4, <2>11, <2>12, HolderOfKey
  <2>15. holder' = [j \in Keys |-> IF \E x \in {g} : x.key = j THEN {x.to : x \in {g}}
                                   ELSE IF j \in lapsed THEN {} ELSE holder[j]]
    BY <2>13, HolderOfKey
  <2>16. Promise!Reassign(lapsed, {g})
    BY <1>2, <2>14, <2>15 DEF Promise!Reassign
  <2> QED BY <1>10, <2>5, <2>16 DEF Promise!Next
<1> QED BY <1>4, <1>11, <1>12

\* The channel implements at-least-once delivery with exclusive leases: a publish accepts
\* a message or nothing; a receive takes away lapsed leases and grants one to an eligible
\* consumer; an ack settles what is still leased; nothing else is seen by a client.
THEOREM Refinement == Spec => ImplementsAtLeastOnce
<1>1. Init => Promise!Init
  BY InitRefines
<1>2. IInv /\ [Next]_vars => [Promise!Next]_(Promise!avars)
  <2> SUFFICES ASSUME IInv, [Next]_vars PROVE Promise!Next \/ UNCHANGED <<dedupe, holder>>
    BY DEF Promise!avars
  <2>1. CASE UNCHANGED vars
    BY <2>1 DEF vars, holder
  <2>2. ASSUME NEW k \in Keys, Publish(k) PROVE Promise!Next
    BY <2>2, PublishRefines
  <2>3. ASSUME NEW c \in Consumers, Receive(c) PROVE Promise!Next
    BY <2>3, ReceiveRefines
  <2>4. ASSUME NEW c \in Consumers, Crash(c) PROVE UNCHANGED <<dedupe, holder>>
    BY <2>4 DEF Crash, holder
  <2>5. ASSUME NEW c \in Consumers, NEW d \in held[c], Ack(c, d) \/ Nack(c, d)
        PROVE  Promise!Next \/ UNCHANGED <<dedupe, holder>>
    BY <2>5, AckRefines, NackRefines
  <2>6. ASSUME NEW d \in DOMAIN inflight, Expire(d) PROVE UNCHANGED <<dedupe, holder>>
    BY <2>6, ExpireRefines
  <2> QED BY <2>1, <2>2, <2>3, <2>4, <2>5, <2>6 DEF Next
<1> QED BY <1>1, <1>2, Invariance, PTL DEF Spec, ImplementsAtLeastOnce, Promise!Spec

-------------------------------------------------------------------------------
(***************************************************************************)
(* The retrying consumers.                                                 *)
(***************************************************************************)
\* A delivery that is still leased is the message its holder works on, not an older one.
LeaseIsCurrent ==
    \A c \in Consumers : Working(c) /\ work[c].id \in DOMAIN inflight =>
        inflight[work[c].id].key = work[c].key /\ ~work[c].old

\* What is about to be acked was applied or given up.
AckIsEarned ==
    \A c \in Consumers : work[c].phase = "acking" /\ ~work[c].old => outcome[work[c].key] # "open"

\* A message on its way or worked on was published; nobody has counted failures before.
Published ==
    /\ \A k \in dedupe : outcome[k] # "none"
    /\ \A c \in Consumers : Working(c) => outcome[work[c].key] # "none"
    /\ \A k \in Keys : outcome[k] = "none" => \A c \in Consumers : attempts[c][k] = 0

\* Of a key that is used once nobody works on an old message, and what a replica has
\* counted are failures of that message.
CountIsOfTheMessage ==
    \A k \in Keys \ Republish, c \in Consumers :
        /\ Working(c) /\ work[c].key = k => ~work[c].old
        /\ attempts[c][k] <= failures[k]

ConsumerIInv == /\ ConsumerTypeOK /\ IInv
        /\ LeaseIsCurrent /\ AckIsEarned /\ Published /\ CountIsOfTheMessage
        /\ AckedAfterOutcome /\ GiveUpIsEarned

-------------------------------------------------------------------------------
(***************************************************************************)
(* What the steps have in common.                                          *)
(***************************************************************************)
\* The types of the consumers' side.
Typed ==
    /\ work \in [Consumers -> {Idle} \cup Work]
    /\ \A c \in Consumers : held[c] = IF Working(c) THEN {work[c].id} ELSE {}
    /\ attempts \in [Consumers -> [Keys -> 0..(MaxAttempts - 1)]]
    /\ outcome \in [Keys -> Outcomes]
    /\ failures \in [Keys -> 0..MaxAttempts]
    /\ faults \in 0..MaxFaults

LEMMA IInvTyped == ConsumerIInv => Typed
  BY DEF ConsumerIInv, ConsumerTypeOK, Typed

LEMMA TypesAgain == IInv /\ Typed => ConsumerTypeOK
  BY DEF IInv, ConsumerTypeOK, Typed

LEMMA AtWork ==
    ASSUME Typed, NEW c \in Consumers, Working(c)
    PROVE  /\ work[c] \in Work /\ work[c].id \in Ids /\ work[c].key \in Keys
           /\ work[c].old \in BOOLEAN /\ held[c] = {work[c].id}
<1>1. work[c] \in {Idle} \cup Work /\ work[c] # Idle
  BY DEF Typed, Working, Idle
<1> QED BY <1>1 DEF Typed, Work

LEMMA Phased ==
    ASSUME Typed, NEW c \in Consumers, NEW p \in {"received", "acking", "nacking"}, Working(c),
           work' = [work EXCEPT ![c].phase = p]
    PROVE  /\ work' \in [Consumers -> {Idle} \cup Work]
           /\ work'[c].phase = p /\ work'[c].id = work[c].id
           /\ work'[c].key = work[c].key /\ work'[c].old = work[c].old
           /\ \A d \in Consumers \ {c} : work'[d] = work[d]
<1>1. work \in [Consumers -> {Idle} \cup Work] /\ work[c] \in Work
  BY AtWork DEF Typed
<1>2. PICK w : w = [work[c] EXCEPT !.phase = p]
  OBVIOUS
<1>3. w \in Work /\ w.phase = p /\ w.id = work[c].id /\ w.key = work[c].key /\ w.old = work[c].old
  BY <1>1, <1>2 DEF Work
<1>4. work' = [work EXCEPT ![c] = w]
  BY <1>1, <1>2
<1> QED BY <1>1, <1>3, <1>4

LEMMA FaultType == ASSUME Typed, Fault PROVE faults' \in 0..MaxFaults
  BY AttemptsAssumption DEF Typed, Fault

\* Replica c is through with the application of the message it works on.
LEMMA Applied ==
    ASSUME ConsumerIInv, NEW c \in Consumers, work[c].phase = "received",
           NEW p \in {"acking", "nacking"}, work' = [work EXCEPT ![c].phase = p],
           UNCHANGED vars,
           attempts' \in [Consumers -> [Keys -> 0..(MaxAttempts - 1)]],
           outcome' \in [Keys -> Outcomes], failures' \in [Keys -> 0..MaxAttempts],
           faults' \in 0..MaxFaults,
           \A k \in Keys : outcome'[k] = outcome[k]
                           \/ (outcome[k] = "open" /\ outcome'[k] \notin {"open", "none"}),
           p = "acking" /\ ~work[c].old => outcome'[work[c].key] # "open",
           \A k \in Keys : outcome[k] = "none" => \A d \in Consumers : attempts'[d][k] = attempts[d][k],
           \A k \in Keys \ Republish, d \in Consumers : attempts'[d][k] <= failures'[k],
           GiveUpIsEarned'
    PROVE  ConsumerIInv'
<1>0. Typed /\ Working(c)
  BY IInvTyped DEF Working
<1>1. UNCHANGED <<queue, inflight, dedupe, held>>
  BY DEF vars
<1>2. IInv'
  BY <1>1 DEF ConsumerIInv, IInv, TypeOK, DedupeExact, SingleCopy, HolderIsLessee
<1>3. /\ work' \in [Consumers -> {Idle} \cup Work]
      /\ work'[c].phase = p /\ work'[c].id = work[c].id
      /\ work'[c].key = work[c].key /\ work'[c].old = work[c].old
      /\ \A d \in Consumers \ {c} : work'[d] = work[d]
  BY <1>0, Phased
<1>4. \A d \in Consumers : Working(d)' <=> Working(d)
  BY <1>0, <1>3 DEF Working
<1>5. \A d \in Consumers : /\ work'[d].id = work[d].id /\ work'[d].key = work[d].key
                           /\ work'[d].old = work[d].old
  BY <1>3
<1>6. Typed'
  BY <1>0, <1>1, <1>3, <1>4, <1>5 DEF Typed
<1>7. ConsumerTypeOK'
  BY <1>2, <1>6, TypesAgain, PTL
<1>8. LeaseIsCurrent'
  BY <1>1, <1>4, <1>5 DEF ConsumerIInv, LeaseIsCurrent
<1>9. \A d \in Consumers : work[d].phase = "acking" => work[d].key \in Keys
  BY <1>0, AtWork DEF Working
<1>10. AckIsEarned'
  BY <1>3, <1>9 DEF ConsumerIInv, AckIsEarned
<1>11. Published'
  <2>1. \A k \in dedupe : k \in Keys
    BY DEF ConsumerIInv, IInv, TypeOK
  <2>2. \A d \in Consumers : Working(d) => work[d].key \in Keys
    BY <1>0, AtWork
  <2> QED BY <1>1, <1>4, <1>5, <2>1, <2>2 DEF ConsumerIInv, Published
<1>12. CountIsOfTheMessage'
  BY <1>4, <1>5 DEF ConsumerIInv, CountIsOfTheMessage
<1>13. AckedAfterOutcome'
  BY <1>1 DEF ConsumerIInv, AckedAfterOutcome
<1> QED BY <1>2, <1>7, <1>8, <1>10, <1>11, <1>12, <1>13 DEF ConsumerIInv

\* A step of the channel: a delivery is taken or resolved, or its lease runs out.
LEMMA ChannelMoves ==
    ASSUME ConsumerIInv, IInv', UNCHANGED <<outcome, failures>>, faults' \in 0..MaxFaults,
           attempts' \in [Consumers -> [Keys -> 0..(MaxAttempts - 1)]],
           \A d \in Consumers, k \in Keys : attempts'[d][k] \in {0, attempts[d][k]},
           work' \in [Consumers -> {Idle} \cup Work],
           \A d \in Consumers : held'[d] = IF Working(d)' THEN {work'[d].id} ELSE {},
           \A d \in Consumers :
              \/ work'[d] = work[d] \/ work'[d] = Idle
              \/ /\ work'[d].phase = "received" /\ ~work'[d].old
                 /\ work'[d].id \in DOMAIN inflight' /\ inflight'[work'[d].id].key = work'[d].key,
           \A d \in Consumers :
              Working(d) /\ work'[d] = work[d] /\ work[d].id \in DOMAIN inflight' =>
                 work[d].id \in DOMAIN inflight /\ inflight'[work[d].id].key = inflight[work[d].id].key,
           dedupe' \subseteq dedupe,
           \A k \in dedupe \ dedupe' : outcome[k] # "open"
    PROVE  ConsumerIInv'
<1>0. Typed
  BY IInvTyped
<1>1. Typed'
  BY <1>0 DEF Typed
<1>2. ConsumerTypeOK'
  BY <1>1, TypesAgain, PTL
<1>3. \A d \in Consumers : work'[d] = Idle => ~Working(d)' /\ work'[d].phase # "acking"
  BY DEF Idle, Working
<1>4. LeaseIsCurrent'
  <2> SUFFICES ASSUME NEW d \in Consumers, Working(d)', work'[d].id \in DOMAIN inflight'
               PROVE  inflight'[work'[d].id].key = work'[d].key /\ ~work'[d].old
    BY DEF LeaseIsCurrent
  <2>1. CASE work'[d] = work[d]
    <3>1. Working(d)
      BY <2>1 DEF Working
    <3> QED BY <2>1, <3>1 DEF ConsumerIInv, LeaseIsCurrent
  <2> QED BY <1>3, <2>1
<1>5. AckIsEarned'
  BY <1>3 DEF ConsumerIInv, AckIsEarned
<1>6. Published'
  <2>1. \A d \in DOMAIN inflight' : inflight'[d].key \in dedupe'
    BY DEF IInv, DedupeExact, LeasedKeys
  <2>2. \A k \in dedupe' : outcome'[k] # "none"
    BY DEF ConsumerIInv, Published
  <2>3. \A d \in Consumers : Working(d)' => outcome'[work'[d].key] # "none"
    <3> SUFFICES ASSUME NEW d \in Consumers, Working(d)' PROVE outcome'[work'[d].key] # "none"
      OBVIOUS
    <3>1. CASE work'[d] = work[d]
      BY <3>1 DEF ConsumerIInv, Published, Working
    <3>2. CASE work'[d].id \in DOMAIN inflight' /\ inflight'[work'[d].id].key = work'[d].key
      BY <2>1, <2>2, <3>2
    <3> QED BY <1>3, <3>1, <3>2
  <2>4. \A k \in Keys : outcome'[k] = "none" => \A d \in Consumers : attempts'[d][k] = 0
    BY DEF ConsumerIInv, Published
  <2> QED BY <2>2, <2>3, <2>4 DEF Published
<1>7. CountIsOfTheMessage'
  <2> SUFFICES ASSUME NEW k \in Keys \ Republish, NEW d \in Consumers
               PROVE  /\ Working(d)' /\ work'[d].key = k => ~work'[d].old
                      /\ attempts'[d][k] <= failures'[k]
    BY DEF CountIsOfTheMessage
  <2>1. attempts[d][k] <= failures[k] /\ failures[k] \in Nat
    BY <1>0 DEF ConsumerIInv, CountIsOfTheMessage, Typed
  <2>2. attempts'[d][k] <= failures'[k]
    BY <2>1
  <2>3. Working(d)' /\ work'[d].key = k => ~work'[d].old
    BY <1>3 DEF ConsumerIInv, CountIsOfTheMessage, Working
  <2> QED BY <2>2, <2>3
<1>8. AckedAfterOutcome'
  BY DEF ConsumerIInv, AckedAfterOutcome
<1>9. GiveUpIsEarned'
  BY DEF ConsumerIInv, GiveUpIsEarned
<1> QED BY <1>2, <1>4, <1>5, <1>6, <1>7, <1>8, <1>9 DEF ConsumerIInv

-------------------------------------------------------------------------------
(***************************************************************************)
(* The application of a message.                                           *)
(***************************************************************************)
\* What Became makes of the outcomes.
LEMMA BecameWhat ==
    ASSUME Typed, NEW c \in Consumers, Working(c), NEW o \in {"applied", "recorded", "dropped"},
           outcome' = Became(c, o)
    PROVE  /\ outcome' \in [Keys -> Outcomes]
           /\ \A k \in Keys : outcome'[k] = outcome[k] \/ (outcome[k] = "open" /\ outcome'[k] = o
                                                            /\ k = work[c].key /\ ~work[c].old)
           /\ ~work[c].old => outcome'[work[c].key] # "open"
<1>1. PICK k \in Keys : k = work[c].key
  BY AtWork
<1>2. outcome \in [Keys -> Outcomes] /\ o \in Outcomes /\ o # "open"
  BY DEF Typed, Outcomes
<1>3. outcome' = [outcome EXCEPT ![k] = IF outcome[k] = "open" /\ ~work[c].old THEN o ELSE outcome[k]]
  BY <1>1 DEF Became
<1>4. /\ outcome' \in [Keys -> Outcomes]
      /\ outcome'[k] = IF outcome[k] = "open" /\ ~work[c].old THEN o ELSE outcome[k]
      /\ \A l \in Keys \ {k} : outcome'[l] = outcome[l]
  BY <1>2, <1>3
<1> QED BY <1>1, <1>2, <1>4

\* What Failed makes of the failures.
LEMMA FailedWhat ==
    ASSUME Typed, NEW c \in Consumers, Working(c), failures' = Failed(c)
    PROVE  /\ failures' \in [Keys -> 0..MaxAttempts]
           /\ \A k \in Keys : failures'[k] >= failures[k]
           /\ ~work[c].old => \/ failures'[work[c].key] = MaxAttempts
                              \/ failures'[work[c].key] = failures[work[c].key] + 1
<1>1. PICK k \in Keys : k = work[c].key
  BY AtWork
<1>2. failures \in [Keys -> 0..MaxAttempts] /\ MaxAttempts \in Nat
  BY AttemptsAssumption DEF Typed
<1>3. PICK n : n = IF failures[k] < MaxAttempts /\ ~work[c].old THEN failures[k] + 1 ELSE failures[k]
  OBVIOUS
<1>4. n \in 0..MaxAttempts /\ n >= failures[k] /\ (~work[c].old => n = MaxAttempts \/ n = failures[k] + 1)
  BY <1>2, <1>3
<1>5. failures' = [failures EXCEPT ![k] = n]
  BY <1>1, <1>3 DEF Failed
<1>6. failures' \in [Keys -> 0..MaxAttempts] /\ failures'[k] = n
      /\ \A l \in Keys \ {k} : failures'[l] = failures[l]
  BY <1>2, <1>4, <1>5
<1> QED BY <1>1, <1>2, <1>4, <1>6

\* What replica c has counted for k becomes n.
LEMMA CountSet ==
    ASSUME Typed, NEW c \in Consumers, NEW k \in Keys, NEW n \in 0..(MaxAttempts - 1),
           attempts' = [attempts EXCEPT ![c][k] = n]
    PROVE  /\ attempts' \in [Consumers -> [Keys -> 0..(MaxAttempts - 1)]]
           /\ attempts'[c][k] = n
           /\ \A d \in Consumers, l \in Keys : d # c \/ l # k => attempts'[d][l] = attempts[d][l]
<1>1. attempts \in [Consumers -> [Keys -> 0..(MaxAttempts - 1)]]
  BY DEF Typed
<1>2. PICK a : a = [attempts[c] EXCEPT ![k] = n]
  OBVIOUS
<1>3. a \in [Keys -> 0..(MaxAttempts - 1)] /\ a[k] = n /\ \A l \in Keys \ {k} : a[l] = attempts[c][l]
  BY <1>1, <1>2
<1>4. attempts' = [attempts EXCEPT ![c] = a]
  BY <1>1, <1>2
<1> QED BY <1>1, <1>3, <1>4

LEMMA Numbers ==
    ASSUME ConsumerIInv
    PROVE  /\ MaxAttempts \in Nat /\ MaxAttempts > 0
           /\ \A c \in Consumers, k \in Keys : attempts[c][k] \in Nat /\ attempts[c][k] < MaxAttempts
           /\ \A k \in Keys : failures[k] \in Nat
  BY AttemptsAssumption, IInvTyped DEF Typed

LEMMA ApplyStep == ASSUME ConsumerIInv, NEW c \in Consumers, Apply(c) PROVE ConsumerIInv'
<1>0. Typed /\ Working(c)
  BY IInvTyped DEF Apply, Working
<1>1. PICK k \in Keys : k = work[c].key
  BY <1>0, AtWork
<1>2. /\ work[c].phase = "received" /\ outcome' = Became(c, "applied")
      /\ attempts' = [attempts EXCEPT ![c][k] = 0] /\ work' = [work EXCEPT ![c].phase = "acking"]
      /\ UNCHANGED <<queue, inflight, dedupe, held, failures, faults>>
  BY <1>1 DEF Apply
<1>3. /\ outcome' \in [Keys -> Outcomes]
      /\ \A l \in Keys : outcome'[l] = outcome[l] \/ (outcome[l] = "open" /\ outcome'[l] = "applied")
      /\ ~work[c].old => outcome'[work[c].key] # "open"
  BY <1>0, <1>2, BecameWhat
<1>4. /\ attempts' \in [Consumers -> [Keys -> 0..(MaxAttempts - 1)]] /\ attempts'[c][k] = 0
      /\ \A d \in Consumers, l \in Keys : d # c \/ l # k => attempts'[d][l] = attempts[d][l]
  <2>1. 0 \in 0..(MaxAttempts - 1)
    BY Numbers
  <2>2. attempts' = [attempts EXCEPT ![c][k] = 0]
    BY <1>2
  <2> QED BY <1>0, <2>1, <2>2, CountSet, ZenonT(40)
<1>5. outcome[k] # "none"
  BY <1>0, <1>1 DEF ConsumerIInv, Published
<1>6. \A l \in Keys \ Republish, d \in Consumers : attempts'[d][l] <= failures'[l]
  BY <1>2, <1>4, Numbers DEF ConsumerIInv, CountIsOfTheMessage
<1>7. GiveUpIsEarned'
  BY <1>2, <1>3 DEF ConsumerIInv, GiveUpIsEarned
<1>8. failures' \in [Keys -> 0..MaxAttempts] /\ faults' \in 0..MaxFaults /\ UNCHANGED vars
  BY <1>0, <1>2 DEF Typed, vars
<1> QED BY <1>2, <1>3, <1>4, <1>5, <1>6, <1>7, <1>8, Applied

LEMMA ApplyFailsStep == ASSUME ConsumerIInv, NEW c \in Consumers, ApplyFails(c) PROVE ConsumerIInv'
<1>0. Typed /\ Working(c)
  BY IInvTyped DEF ApplyFails, Working
<1>1. PICK k \in Keys : k = work[c].key
  BY <1>0, AtWork
<1>2. /\ work[c].phase = "received" /\ failures' = Failed(c) /\ attempts[c][k] + 1 < MaxAttempts
      /\ attempts' = [attempts EXCEPT ![c][k] = attempts[c][k] + 1]
      /\ work' = [work EXCEPT ![c].phase = "nacking"]
      /\ UNCHANGED <<queue, inflight, dedupe, held, outcome>>
  BY <1>1 DEF ApplyFails, Counted
<1>3. faults' \in 0..MaxFaults
  <2>1. CASE UNCHANGED faults
    BY <1>0, <2>1 DEF Typed
  <2> QED BY <1>0, <2>1, FaultType DEF ApplyFails
<1>4. PICK n \in 0..(MaxAttempts - 1) : n = attempts[c][k] + 1
  BY <1>2, Numbers
<1>5. /\ attempts' \in [Consumers -> [Keys -> 0..(MaxAttempts - 1)]] /\ attempts'[c][k] = n
      /\ \A d \in Consumers, l \in Keys : d # c \/ l # k => attempts'[d][l] = attempts[d][l]
  <2>1. attempts' = [attempts EXCEPT ![c][k] = n]
    BY <1>2, <1>4
  <2> QED BY <1>0, <2>1, CountSet, ZenonT(40)
<1>6. /\ failures' \in [Keys -> 0..MaxAttempts] /\ \A l \in Keys : failures'[l] >= failures[l]
      /\ ~work[c].old => failures'[k] = MaxAttempts \/ failures'[k] = failures[k] + 1
  BY <1>0, <1>1, <1>2, FailedWhat
<1>7. outcome[k] # "none"
  BY <1>0, <1>1 DEF ConsumerIInv, Published
<1>8. ASSUME NEW l \in Keys \ Republish, NEW d \in Consumers PROVE attempts'[d][l] <= failures'[l]
  <2>1. /\ attempts[d][l] <= failures[l] /\ failures'[l] >= failures[l]
        /\ failures'[l] \in Nat /\ failures[l] \in Nat /\ attempts[d][l] \in Nat /\ MaxAttempts \in Nat
    BY <1>6, Numbers DEF ConsumerIInv, CountIsOfTheMessage
  <2>2. CASE d = c /\ l = k
    <3>1. ~work[c].old
      BY <1>0, <1>1, <2>2 DEF ConsumerIInv, CountIsOfTheMessage
    <3> QED BY <1>2, <1>4, <1>5, <1>6, <2>1, <2>2, <3>1
  <2>3. CASE d # c \/ l # k
    <3>1. attempts'[d][l] = attempts[d][l]
      BY <1>5, <2>3
    <3> QED BY <2>1, <3>1
  <2> QED BY <2>2, <2>3
<1>9. GiveUpIsEarned'
  <2> SUFFICES ASSUME NEW l \in Keys \ Republish, outcome'[l] \in {"recorded", "dropped"}
               PROVE  failures'[l] >= MaxAttempts
    BY DEF GiveUpIsEarned
  <2>1. failures[l] >= MaxAttempts
    BY <1>2 DEF ConsumerIInv, GiveUpIsEarned
  <2> QED BY <1>6, <2>1, Numbers
<1>10. outcome' \in [Keys -> Outcomes] /\ UNCHANGED vars
  BY <1>0, <1>2 DEF Typed, vars
<1> QED BY <1>2, <1>3, <1>5, <1>6, <1>7, <1>8, <1>9, <1>10, Applied

LEMMA DeadLetterStep == ASSUME ConsumerIInv, NEW c \in Consumers, DeadLetter(c) PROVE ConsumerIInv'
<1>0. Typed /\ Working(c)
  BY IInvTyped DEF DeadLetter, Working
<1>1. PICK k \in Keys : k = work[c].key
  BY <1>0, AtWork
<1>2. /\ work[c].phase = "received" /\ failures' = Failed(c) /\ attempts[c][k] + 1 >= MaxAttempts
      /\ attempts' = [attempts EXCEPT ![c][k] = 0]
      /\ work' = [work EXCEPT ![c].phase = "acking"]
      /\ UNCHANGED <<queue, inflight, dedupe, held>>
  BY <1>1 DEF DeadLetter, Counted
<1>3. PICK o \in {"recorded", "dropped"} : outcome' = Became(c, o)
  BY DEF DeadLetter
<1>4. faults' \in 0..MaxFaults
  <2>1. CASE UNCHANGED faults
    BY <1>0, <2>1 DEF Typed
  <2> QED BY <1>0, <2>1, FaultType DEF DeadLetter
<1>5. /\ attempts' \in [Consumers -> [Keys -> 0..(MaxAttempts - 1)]] /\ attempts'[c][k] = 0
      /\ \A d \in Consumers, l \in Keys : d # c \/ l # k => attempts'[d][l] = attempts[d][l]
  <2>1. 0 \in 0..(MaxAttempts - 1)
    BY Numbers
  <2>2. attempts' = [attempts EXCEPT ![c][k] = 0]
    BY <1>2
  <2> QED BY <1>0, <2>1, <2>2, CountSet, ZenonT(40)
<1>6. /\ failures' \in [Keys -> 0..MaxAttempts] /\ \A l \in Keys : failures'[l] >= failures[l]
      /\ ~work[c].old => failures'[k] = MaxAttempts \/ failures'[k] = failures[k] + 1
  BY <1>0, <1>1, <1>2, FailedWhat
<1>7. /\ outcome' \in [Keys -> Outcomes]
      /\ \A l \in Keys : outcome'[l] = outcome[l] \/ (outcome[l] = "open" /\ outcome'[l] = o
                                                       /\ l = k /\ ~work[c].old)
      /\ ~work[c].old => outcome'[work[c].key] # "open"
  BY <1>0, <1>1, <1>3, BecameWhat
<1>8. outcome[k] # "none"
  BY <1>0, <1>1 DEF ConsumerIInv, Published
<1>9. ASSUME NEW l \in Keys \ Republish, NEW d \in Consumers PROVE attempts'[d][l] <= failures'[l]
  <2>1. /\ attempts[d][l] <= failures[l] /\ failures'[l] >= failures[l]
        /\ failures'[l] \in Nat /\ failures[l] \in Nat /\ attempts[d][l] \in Nat
    BY <1>6, Numbers DEF ConsumerIInv, CountIsOfTheMessage
  <2>2. attempts'[d][l] = 0 \/ attempts'[d][l] = attempts[d][l]
    BY <1>5
  <2> QED BY <2>1, <2>2
<1>10. ASSUME NEW l \in Keys \ Republish, outcome'[l] \in {"recorded", "dropped"}
       PROVE  failures'[l] >= MaxAttempts
  <2>1. CASE outcome'[l] = outcome[l]
    <3>1. failures[l] >= MaxAttempts
      BY <1>10, <2>1 DEF ConsumerIInv, GiveUpIsEarned
    <3> QED BY <1>6, <3>1, Numbers
  <2>2. CASE l = k /\ ~work[c].old
    <3>1. attempts[c][k] <= failures[k]
      BY <2>2 DEF ConsumerIInv, CountIsOfTheMessage
    <3> QED BY <1>2, <1>6, <2>2, <3>1, Numbers
  <2> QED BY <1>7, <2>1, <2>2
<1>11. GiveUpIsEarned' /\ UNCHANGED vars
  BY <1>2, <1>10 DEF GiveUpIsEarned, vars
<1> QED BY <1>2, <1>4, <1>5, <1>6, <1>7, <1>8, <1>9, <1>11, Applied

-------------------------------------------------------------------------------
(***************************************************************************)
(* The channel's operations.                                               *)
(***************************************************************************)
LEMMA WorkEnds ==
    ASSUME ConsumerIInv, NEW c \in Consumers, work' = [work EXCEPT ![c] = Idle], held' = [held EXCEPT ![c] = {}]
    PROVE  /\ work' \in [Consumers -> {Idle} \cup Work]
           /\ work'[c] = Idle /\ \A d \in Consumers \ {c} : work'[d] = work[d]
           /\ \A d \in Consumers : held'[d] = IF Working(d)' THEN {work'[d].id} ELSE {}
<1>0. Typed
  BY IInvTyped
<1>1. /\ work' \in [Consumers -> {Idle} \cup Work]
      /\ work'[c] = Idle /\ \A d \in Consumers \ {c} : work'[d] = work[d]
  BY <1>0 DEF Typed
<1>2. held'[c] = {} /\ \A d \in Consumers \ {c} : held'[d] = held[d]
  BY <1>0 DEF ConsumerIInv, IInv, TypeOK
<1>3. ASSUME NEW d \in Consumers PROVE held'[d] = IF Working(d)' THEN {work'[d].id} ELSE {}
  <2>1. CASE d = c
    BY <1>1, <1>2, <2>1 DEF Working, Idle
  <2>2. CASE d # c
    <3>1. held[d] = IF Working(d) THEN {work[d].id} ELSE {}
      BY <1>0 DEF Typed
    <3> QED BY <1>1, <1>2, <2>2, <3>1 DEF Working
  <2> QED BY <2>1, <2>2
<1> QED BY <1>1, <1>3

\* Nothing of the counts changes.
LEMMA CountsStay ==
    ASSUME ConsumerIInv, UNCHANGED attempts
    PROVE  /\ attempts' \in [Consumers -> [Keys -> 0..(MaxAttempts - 1)]]
           /\ \A d \in Consumers, k \in Keys : attempts'[d][k] \in {0, attempts[d][k]}
  BY IInvTyped DEF Typed

LEMMA AckDeliveryStep == ASSUME ConsumerIInv, NEW c \in Consumers, AckDelivery(c) PROVE ConsumerIInv'
<1>0. Typed /\ Working(c)
  BY IInvTyped DEF AckDelivery, Working
<1>1. PICK d : d = work[c].id
  OBVIOUS
<1>2. held[c] = {d} /\ d \in held[c]
  BY <1>0, <1>1, AtWork
<1>3. /\ work[c].phase = "acking" /\ Ack(c, d) /\ work' = [work EXCEPT ![c] = Idle]
      /\ UNCHANGED <<attempts, outcome, failures, faults>>
  BY <1>1 DEF AckDelivery
<1>4. IInv'
  BY <1>2, <1>3, AckStep DEF ConsumerIInv
<1>5. held' = [held EXCEPT ![c] = {}]
  BY <1>2, <1>3 DEF Ack, ConsumerIInv, IInv, TypeOK
<1>6. /\ work' \in [Consumers -> {Idle} \cup Work]
      /\ work'[c] = Idle /\ \A b \in Consumers \ {c} : work'[b] = work[b]
      /\ \A b \in Consumers : held'[b] = IF Working(b)' THEN {work'[b].id} ELSE {}
  BY <1>3, <1>5, WorkEnds
<1>7. /\ DOMAIN inflight' \subseteq DOMAIN inflight
      /\ \A e \in DOMAIN inflight' : inflight'[e] = inflight[e]
  <2>1. CASE d \in DOMAIN inflight
    <3>1. inflight' = [e \in DOMAIN inflight \ {d} |-> inflight[e]]
      BY <1>3, <2>1 DEF Ack, Unleased, Restrict
    <3> QED BY <3>1
  <2>2. CASE d \notin DOMAIN inflight
    BY <1>3, <2>2 DEF Ack
  <2> QED BY <2>1, <2>2
<1>8. dedupe' \subseteq dedupe /\ \A k \in dedupe \ dedupe' : outcome[k] # "open"
  <2>1. CASE d \in DOMAIN inflight
    <3>1. inflight[d].key = work[c].key /\ ~work[c].old
      BY <1>0, <1>1, <2>1 DEF ConsumerIInv, LeaseIsCurrent
    <3>2. outcome[work[c].key] # "open"
      BY <1>3, <3>1 DEF ConsumerIInv, AckIsEarned
    <3>3. dedupe' = dedupe \ {inflight[d].key}
      BY <1>3, <2>1 DEF Ack
    <3> QED BY <3>1, <3>2, <3>3
  <2>2. CASE d \notin DOMAIN inflight
    BY <1>3, <2>2 DEF Ack
  <2> QED BY <2>1, <2>2
<1>9. faults' \in 0..MaxFaults
  BY <1>0, <1>3 DEF Typed
<1> QED BY <1>3, <1>4, <1>6, <1>7, <1>8, <1>9, CountsStay, ChannelMoves

LEMMA NackDeliveryStep == ASSUME ConsumerIInv, NEW c \in Consumers, NackDelivery(c) PROVE ConsumerIInv'
<1>0. Typed /\ Working(c)
  BY IInvTyped DEF NackDelivery, Working
<1>1. PICK d : d = work[c].id
  OBVIOUS
<1>2. held[c] = {d} /\ d \in held[c]
  BY <1>0, <1>1, AtWork
<1>3. /\ Nack(c, d) /\ work' = [work EXCEPT ![c] = Idle]
      /\ UNCHANGED <<attempts, outcome, failures, faults>>
  BY <1>1 DEF NackDelivery
<1>4. IInv'
  BY <1>2, <1>3, NackStep DEF ConsumerIInv
<1>5. held' = [held EXCEPT ![c] = {}] /\ dedupe' = dedupe
  BY <1>2, <1>3 DEF Nack, ConsumerIInv, IInv, TypeOK
<1>6. /\ work' \in [Consumers -> {Idle} \cup Work]
      /\ work'[c] = Idle /\ \A b \in Consumers \ {c} : work'[b] = work[b]
      /\ \A b \in Consumers : held'[b] = IF Working(b)' THEN {work'[b].id} ELSE {}
  BY <1>3, <1>5, WorkEnds
<1>7. /\ DOMAIN inflight' \subseteq DOMAIN inflight
      /\ \A e \in DOMAIN inflight' : inflight'[e] = inflight[e]
  <2>1. CASE d \in DOMAIN inflight
    <3>1. inflight' = [e \in DOMAIN inflight \ {d} |-> inflight[e]]
      BY <1>3, <2>1 DEF Nack, Unleased, Restrict
    <3> QED BY <3>1
  <2>2. CASE d \notin DOMAIN inflight
    BY <1>3, <2>2 DEF Nack
  <2> QED BY <2>1, <2>2
<1>8. faults' \in 0..MaxFaults
  BY <1>0, <1>3 DEF Typed
<1> QED BY <1>3, <1>4, <1>5, <1>6, <1>7, <1>8, CountsStay, ChannelMoves

LEMMA ReplicaStopsStep == ASSUME ConsumerIInv, NEW c \in Consumers, ReplicaStops(c) PROVE ConsumerIInv'
<1>0. Typed
  BY IInvTyped
<1>1. /\ work' = [work EXCEPT ![c] = Idle] /\ attempts' = [attempts EXCEPT ![c] = [k \in Keys |-> 0]]
      /\ UNCHANGED <<outcome, failures>>
  BY DEF ReplicaStops
<1>2. faults' \in 0..MaxFaults
  BY <1>0, FaultType DEF ReplicaStops
<1>3. UNCHANGED <<queue, inflight, dedupe>> /\ held' = [held EXCEPT ![c] = {}] /\ IInv'
  <2>1. CASE Crash(c)
    <3>1. IInv'
      BY <2>1, CrashStep DEF ConsumerIInv
    <3> QED BY <2>1, <3>1 DEF Crash
  <2>2. CASE ~Working(c) /\ UNCHANGED vars
    <3>1. UNCHANGED <<queue, inflight, dedupe, held>>
      BY <2>2 DEF vars
    <3>2. held[c] = {}
      BY <1>0, <2>2 DEF Typed
    <3>3. held' = [held EXCEPT ![c] = {}]
      BY <3>1, <3>2 DEF ConsumerIInv, IInv, TypeOK
    <3>4. IInv'
      BY <3>1 DEF ConsumerIInv, IInv, TypeOK, DedupeExact, SingleCopy,
                  HolderIsLessee
    <3> QED BY <3>1, <3>3, <3>4
  <2> QED BY <2>1, <2>2 DEF ReplicaStops
<1>4. /\ work' \in [Consumers -> {Idle} \cup Work]
      /\ work'[c] = Idle /\ \A b \in Consumers \ {c} : work'[b] = work[b]
      /\ \A b \in Consumers : held'[b] = IF Working(b)' THEN {work'[b].id} ELSE {}
  BY <1>1, <1>3, WorkEnds
<1>5. /\ attempts' \in [Consumers -> [Keys -> 0..(MaxAttempts - 1)]]
      /\ \A d \in Consumers, k \in Keys : attempts'[d][k] \in {0, attempts[d][k]}
  <2>1. [k \in Keys |-> 0] \in [Keys -> 0..(MaxAttempts - 1)]
    BY Numbers
  <2> QED BY <1>0, <1>1, <2>1 DEF Typed
<1> QED BY <1>1, <1>2, <1>3, <1>4, <1>5, ChannelMoves

LEMMA LeaseExpiresStep == ASSUME ConsumerIInv, NEW d \in DOMAIN inflight, LeaseExpires(d) PROVE ConsumerIInv'
<1>0. Typed
  BY IInvTyped
<1>1. /\ Expire(d) /\ inflight' = [inflight EXCEPT ![d].expired = TRUE]
      /\ UNCHANGED <<queue, dedupe, held, work, attempts, outcome, failures>>
  BY DEF LeaseExpires, Expire
<1>2. IInv'
  BY <1>1, ExpireStep DEF ConsumerIInv
<1>3. faults' \in 0..MaxFaults
  <2>1. CASE UNCHANGED faults
    BY <1>0, <2>1 DEF Typed
  <2> QED BY <1>0, <2>1, FaultType DEF LeaseExpires
<1>4. DOMAIN inflight' = DOMAIN inflight /\ \A e \in DOMAIN inflight : inflight'[e].key = inflight[e].key
  <2>1. inflight \in [DOMAIN inflight -> Lease] /\ inflight[d] \in Lease
    BY DEF ConsumerIInv, IInv, TypeOK
  <2>2. PICK l : l = [inflight[d] EXCEPT !.expired = TRUE]
    OBVIOUS
  <2>3. l.key = inflight[d].key
    BY <2>1, <2>2 DEF Lease
  <2>4. inflight' = [inflight EXCEPT ![d] = l]
    BY <1>1, <2>1, <2>2
  <2> QED BY <2>1, <2>3, <2>4
<1>5. /\ work' \in [Consumers -> {Idle} \cup Work]
      /\ \A b \in Consumers : held'[b] = IF Working(b)' THEN {work'[b].id} ELSE {}
  BY <1>0, <1>1 DEF Typed, Working
<1> QED BY <1>1, <1>2, <1>3, <1>4, <1>5, CountsStay, ChannelMoves

\* receive hands out one delivery or none; the other leases stay or go.
LEMMA Taken ==
    ASSUME Typed, NEW c \in Consumers, held[c] = {}, Receive(c)
    PROVE  \/ /\ held' = held
              /\ \A e \in DOMAIN inflight' : e \in DOMAIN inflight /\ inflight'[e] = inflight[e]
           \/ \E d : /\ held' = [held EXCEPT ![c] = {d}] /\ d \in DOMAIN inflight'
                     /\ \A e \in DOMAIN inflight' \ {d} :
                           e \in DOMAIN inflight /\ inflight'[e] = inflight[e]
<1> DEFINE gone == expired_ids(inflight)
           live == Unleased(inflight, gone)
<1>1. DOMAIN live \subseteq DOMAIN inflight /\ \A e \in DOMAIN live : live[e] = inflight[e]
  BY DEF Unleased, Restrict
<1>2. PICK q :
         \/ \E i \in DOMAIN q : /\ inflight' = Leased(live, q[i], c)
                                /\ held' = [held EXCEPT ![c] = held[c] \cup {q[i].id}]
         \/ inflight' = live /\ UNCHANGED held
  BY DEF Receive
<1> HIDE DEF live
<1>3. CASE inflight' = live /\ UNCHANGED held
  BY <1>1, <1>3
<1>4. ASSUME NEW x, inflight' = Leased(live, x, c), held' = [held EXCEPT ![c] = held[c] \cup {x.id}]
      PROVE  \E d : /\ held' = [held EXCEPT ![c] = {d}] /\ d \in DOMAIN inflight'
                    /\ \A e \in DOMAIN inflight' \ {d} :
                          e \in DOMAIN inflight /\ inflight'[e] = inflight[e]
  <2>1. PICK d : d = x.id
    OBVIOUS
  <2>2. held' = [held EXCEPT ![c] = {d}]
    BY <1>4, <2>1
  <2>3. DOMAIN inflight' = DOMAIN live \cup {d} /\ \A e \in DOMAIN live \ {d} : inflight'[e] = live[e]
    BY <1>4, <2>1 DEF Leased
  <2> QED BY <1>1, <2>2, <2>3
<1> QED BY <1>2, <1>3, <1>4

LEMMA TakeStep == ASSUME ConsumerIInv, NEW c \in Consumers, Take(c) PROVE ConsumerIInv'
<1>0. Typed
  BY IInvTyped
<1>1. /\ ~Working(c) /\ Receive(c)
      /\ work' = [work EXCEPT ![c] =
                    IF held'[c] = {} THEN work[c]
                    ELSE LET d == CHOOSE x \in held'[c] : TRUE
                         IN [phase |-> "received", id |-> d, key |-> inflight'[d].key, old |-> FALSE]]
      /\ UNCHANGED <<attempts, outcome, failures, faults>>
  BY DEF Take
<1>2. held[c] = {} /\ dedupe' = dedupe /\ IInv' /\ faults' \in 0..MaxFaults
  <2>1. IInv'
    BY <1>1, ReceiveStep DEF ConsumerIInv
  <2> QED BY <1>0, <1>1, <2>1 DEF Typed, Receive
<1>3. CASE /\ held' = held
           /\ \A e \in DOMAIN inflight' : e \in DOMAIN inflight /\ inflight'[e] = inflight[e]
  <2>1. work' = work
    BY <1>0, <1>1, <1>2, <1>3 DEF Typed
  <2>2. /\ work' \in [Consumers -> {Idle} \cup Work]
        /\ \A b \in Consumers : held'[b] = IF Working(b)' THEN {work'[b].id} ELSE {}
    BY <1>0, <1>3, <2>1 DEF Typed, Working
  <2> QED BY <1>1, <1>2, <1>3, <2>1, <2>2, CountsStay, ChannelMoves
<1>4. ASSUME NEW d, held' = [held EXCEPT ![c] = {d}], d \in DOMAIN inflight',
             \A e \in DOMAIN inflight' \ {d} : e \in DOMAIN inflight /\ inflight'[e] = inflight[e]
      PROVE  ConsumerIInv'
  <2>1. held \in [Consumers -> SUBSET Ids]
    BY DEF ConsumerIInv, IInv, TypeOK
  <2>2. held'[c] = {d} /\ \A b \in Consumers \ {c} : held'[b] = held[b]
    BY <1>4, <2>1
  <2>3. inflight'[d] \in Lease /\ inflight'[d].key \in Keys /\ d \in Ids
    <3>1. inflight' \in [DOMAIN inflight' -> Lease] /\ DOMAIN inflight' \subseteq Ids
      BY <1>2 DEF IInv, TypeOK
    <3> QED BY <1>4, <3>1 DEF Lease
  <2>4. PICK w : w = [phase |-> "received", id |-> d, key |-> inflight'[d].key, old |-> FALSE]
    OBVIOUS
  <2>5. w \in Work /\ w.phase = "received" /\ w.id = d /\ w.key = inflight'[d].key /\ ~w.old
    BY <2>3, <2>4 DEF Work
  <2>6. work' = [work EXCEPT ![c] = w]
    <3>1. (CHOOSE x \in held'[c] : TRUE) = d /\ held'[c] # {}
      BY <2>2
    <3> QED BY <1>1, <2>4, <3>1
  <2>7. /\ work' \in [Consumers -> {Idle} \cup Work]
        /\ work'[c] = w /\ \A b \in Consumers \ {c} : work'[b] = work[b]
    BY <1>0, <2>5, <2>6 DEF Typed
  <2>8. ASSUME NEW b \in Consumers PROVE held'[b] = IF Working(b)' THEN {work'[b].id} ELSE {}
    <3>1. CASE b = c
      BY <2>2, <2>5, <2>7, <3>1 DEF Working
    <3>2. CASE b # c
      <4>1. held[b] = IF Working(b) THEN {work[b].id} ELSE {}
        BY <1>0 DEF Typed
      <4> QED BY <2>2, <2>7, <3>2, <4>1 DEF Working
    <3> QED BY <3>1, <3>2
  \* the delivery is new to everybody else: its lessee is c
  <2>9. \A b \in Consumers \ {c} : d \notin held[b]
    <3>1. \A b \in Consumers : d \in held'[b] => inflight'[d].to = b
      BY <1>2, <1>4 DEF IInv, HolderIsLessee
    <3> QED BY <2>2, <3>1
  <2>10. ASSUME NEW b \in Consumers, Working(b), work'[b] = work[b], work[b].id \in DOMAIN inflight'
         PROVE  work[b].id \in DOMAIN inflight /\ inflight'[work[b].id].key = inflight[work[b].id].key
    <3>1. b # c /\ work[b].id \in held[b]
      BY <1>0, <1>1, <2>10, AtWork
    <3>2. work[b].id # d
      BY <2>9, <3>1
    <3> QED BY <1>4, <2>10, <3>2
  <2>11. \A b \in Consumers :
            \/ work'[b] = work[b] \/ work'[b] = Idle
            \/ /\ work'[b].phase = "received" /\ ~work'[b].old
               /\ work'[b].id \in DOMAIN inflight' /\ inflight'[work'[b].id].key = work'[b].key
    BY <1>4, <2>5, <2>7
  <2> QED BY <1>1, <1>2, <2>7, <2>8, <2>10, <2>11, CountsStay, ChannelMoves
<1> QED BY <1>0, <1>1, <1>2, <1>3, <1>4, Taken

\* A new message under k: whoever still works on k works on an old one.
LEMMA PublishMessageStep == ASSUME ConsumerIInv, NEW k \in Keys, PublishMessage(k) PROVE ConsumerIInv'
<1>0. Typed
  BY IInvTyped
<1>1. /\ k \in Republish \/ outcome[k] = "none"
      /\ Publish(k) /\ outcome' = [outcome EXCEPT ![k] = "open"]
      /\ failures' = [failures EXCEPT ![k] = 0]
      /\ work' = [c \in Consumers |-> IF Working(c) /\ work[c].key = k
                                        THEN [work[c] EXCEPT !.old = TRUE] ELSE work[c]]
      /\ UNCHANGED <<attempts, faults>>
  BY DEF PublishMessage
<1>2. k \notin dedupe /\ dedupe' = dedupe \cup {k} /\ UNCHANGED <<inflight, held>>
  BY <1>1 DEF Publish
<1>3. IInv'
  BY <1>1, PublishStep DEF ConsumerIInv
<1>4. /\ outcome' \in [Keys -> Outcomes] /\ outcome'[k] = "open"
      /\ \A l \in Keys \ {k} : outcome'[l] = outcome[l]
  BY <1>0, <1>1 DEF Typed, Outcomes
<1>5. /\ failures' \in [Keys -> 0..MaxAttempts] /\ failures'[k] = 0
      /\ \A l \in Keys \ {k} : failures'[l] = failures[l]
  <2>1. 0 \in 0..MaxAttempts
    BY Numbers
  <2> QED BY <1>0, <1>1, <2>1 DEF Typed
<1>6. ASSUME NEW c \in Consumers
      PROVE  /\ work'[c] \in {Idle} \cup Work
             /\ (Working(c)' <=> Working(c)) /\ work'[c].phase = work[c].phase
             /\ Working(c) => work'[c].id = work[c].id /\ work'[c].key = work[c].key
             /\ Working(c) /\ work[c].key = k => work'[c].old
             /\ ~(Working(c) /\ work[c].key = k) => work'[c] = work[c]
  <2>1. CASE Working(c) /\ work[c].key = k
    <3>1. work[c] \in Work
      BY <1>0, <2>1, AtWork
    <3>2. work'[c] = [work[c] EXCEPT !.old = TRUE]
      BY <1>1, <2>1
    <3>3. /\ work'[c] \in Work /\ work'[c].phase = work[c].phase /\ work'[c].id = work[c].id
          /\ work'[c].key = work[c].key /\ work'[c].old = TRUE
      BY <3>1, <3>2 DEF Work
    <3> QED BY <2>1, <3>3 DEF Working
  <2>2. CASE ~(Working(c) /\ work[c].key = k)
    <3>1. work'[c] = work[c]
      BY <1>1, <2>2
    <3> QED BY <1>0, <2>2, <3>1 DEF Working, Typed
  <2> QED BY <2>1, <2>2
<1>7. work' \in [Consumers -> {Idle} \cup Work]
  BY <1>1, <1>6
<1>8. Typed'
  <2>1. \A c \in Consumers : held[c] = IF Working(c) THEN {work[c].id} ELSE {}
    BY <1>0 DEF Typed
  <2>2. \A c \in Consumers : held'[c] = IF Working(c)' THEN {work'[c].id} ELSE {}
    BY <1>2, <1>6, <2>1 DEF Working
  <2> QED BY <1>0, <1>1, <1>4, <1>5, <1>7, <2>2 DEF Typed
<1>9. ConsumerTypeOK'
  BY <1>3, <1>8, TypesAgain, PTL
<1>10. \A c \in Consumers : Working(c) => work[c].key \in Keys
  BY <1>0, AtWork
<1>11. LeaseIsCurrent'
  <2> SUFFICES ASSUME NEW c \in Consumers, Working(c)', work'[c].id \in DOMAIN inflight'
               PROVE  inflight'[work'[c].id].key = work'[c].key /\ ~work'[c].old
    BY DEF LeaseIsCurrent
  <2>1. Working(c) /\ work[c].id \in DOMAIN inflight /\ work'[c].id = work[c].id
    BY <1>2, <1>6
  <2>2. inflight[work[c].id].key = work[c].key /\ ~work[c].old
    BY <2>1 DEF ConsumerIInv, LeaseIsCurrent
  <2>3. inflight[work[c].id].key \in dedupe
    BY <2>1 DEF ConsumerIInv, IInv, DedupeExact, LeasedKeys
  <2>4. work'[c] = work[c]
    BY <1>2, <1>6, <2>2, <2>3
  <2> QED BY <1>2, <2>2, <2>4
<1>12. AckIsEarned'
  <2> SUFFICES ASSUME NEW c \in Consumers, work'[c].phase = "acking", ~work'[c].old
               PROVE  outcome'[work'[c].key] # "open"
    BY DEF AckIsEarned
  <2>1. Working(c) /\ work[c].phase = "acking"
    BY <1>6 DEF Working
  <2>2. work[c].key # k /\ work'[c] = work[c] /\ work[c].key \in Keys
    BY <1>6, <1>10, <2>1
  <2> QED BY <1>4, <2>1, <2>2 DEF ConsumerIInv, AckIsEarned
<1>13. Published'
  <2>1. \A l \in dedupe : l \in Keys
    BY DEF ConsumerIInv, IInv, TypeOK
  <2>2. \A l \in dedupe' : outcome'[l] # "none"
    BY <1>2, <1>4, <2>1 DEF ConsumerIInv, Published
  <2>3. \A c \in Consumers : Working(c)' => outcome'[work'[c].key] # "none"
    BY <1>4, <1>6, <1>10 DEF ConsumerIInv, Published
  <2>4. \A l \in Keys : outcome'[l] = "none" => \A c \in Consumers : attempts'[c][l] = 0
    BY <1>1, <1>4 DEF ConsumerIInv, Published
  <2> QED BY <2>2, <2>3, <2>4 DEF Published
<1>14. CountIsOfTheMessage'
  <2> SUFFICES ASSUME NEW l \in Keys \ Republish, NEW c \in Consumers
               PROVE  /\ Working(c)' /\ work'[c].key = l => ~work'[c].old
                      /\ attempts'[c][l] <= failures'[l]
    BY DEF CountIsOfTheMessage
  <2>1. CASE l = k
    <3>1. outcome[k] = "none"
      BY <1>1, <2>1
    <3>2. ~(Working(c) /\ work[c].key = k)
      BY <3>1 DEF ConsumerIInv, Published
    <3>3. attempts'[c][l] = 0 /\ failures'[l] = 0
      BY <1>1, <1>5, <2>1, <3>1 DEF ConsumerIInv, Published
    <3> QED BY <1>6, <2>1, <3>2, <3>3
  <2>2. CASE l # k
    <3>1. failures'[l] = failures[l] /\ attempts'[c][l] = attempts[c][l]
      BY <1>1, <1>5, <2>2
    <3>2. attempts[c][l] <= failures[l] /\ (Working(c) /\ work[c].key = l => ~work[c].old)
      BY DEF ConsumerIInv, CountIsOfTheMessage
    <3> QED BY <1>6, <2>2, <3>1, <3>2
  <2> QED BY <2>1, <2>2
<1>15. AckedAfterOutcome'
  BY <1>2, <1>4 DEF ConsumerIInv, AckedAfterOutcome
<1>16. GiveUpIsEarned'
  BY <1>4, <1>5 DEF ConsumerIInv, GiveUpIsEarned
<1> QED BY <1>3, <1>9, <1>11, <1>12, <1>13, <1>14, <1>15, <1>16 DEF ConsumerIInv

-------------------------------------------------------------------------------
LEMMA ConsumerInitIInv == ConsumerInit => ConsumerIInv
<1> SUFFICES ASSUME ConsumerInit PROVE ConsumerIInv
  OBVIOUS
<1>1. IInv
  BY InitIInv DEF ConsumerInit
<1>2. \A c \in Consumers : ~Working(c) /\ held[c] = {} /\ work[c].phase = "idle"
  BY DEF ConsumerInit, Working, Idle, Init
<1>3. Typed
  <2>1. 0 \in 0..(MaxAttempts - 1) /\ 0 \in 0..MaxAttempts /\ 0 \in 0..MaxFaults
    BY AttemptsAssumption
  <2>2. attempts \in [Consumers -> [Keys -> 0..(MaxAttempts - 1)]]
    BY <2>1 DEF ConsumerInit
  <2>3. outcome \in [Keys -> Outcomes] /\ failures \in [Keys -> 0..MaxAttempts] /\ faults \in 0..MaxFaults
    BY <2>1 DEF ConsumerInit, Outcomes
  <2>4. work \in [Consumers -> {Idle} \cup Work]
    BY DEF ConsumerInit
  <2> QED BY <1>2, <2>2, <2>3, <2>4 DEF Typed
<1>4. ConsumerTypeOK
  BY <1>1, <1>3, TypesAgain
<1>5. dedupe = {}
  BY DEF ConsumerInit, Init
<1>6. LeaseIsCurrent /\ AckIsEarned
  BY <1>2 DEF LeaseIsCurrent, AckIsEarned
<1>7. Published
  BY <1>2, <1>5 DEF Published, ConsumerInit
<1>8. CountIsOfTheMessage
  BY <1>2 DEF CountIsOfTheMessage, ConsumerInit
<1>9. AckedAfterOutcome /\ GiveUpIsEarned
  BY DEF AckedAfterOutcome, GiveUpIsEarned, ConsumerInit
<1> QED BY <1>1, <1>4, <1>6, <1>7, <1>8, <1>9 DEF ConsumerIInv

LEMMA ConsumerStepIInv == ASSUME ConsumerIInv, [ConsumerNext]_consumerVars PROVE ConsumerIInv'
<1>1. ASSUME NEW k \in Keys, PublishMessage(k) PROVE ConsumerIInv'
  BY <1>1, PublishMessageStep
<1>2. ASSUME NEW c \in Consumers, Loop(c) \/ ReplicaStops(c) PROVE ConsumerIInv'
  BY <1>2, TakeStep, ApplyStep, ApplyFailsStep, DeadLetterStep, AckDeliveryStep, NackDeliveryStep, ReplicaStopsStep DEF Loop
<1>3. ASSUME NEW d \in DOMAIN inflight, LeaseExpires(d) PROVE ConsumerIInv'
  BY <1>3, LeaseExpiresStep
<1>4. CASE UNCHANGED consumerVars
  <2>1. UNCHANGED <<queue, inflight, dedupe, held, work, attempts, outcome, failures, faults>>
    BY <1>4 DEF consumerVars
  <2>2. IInv'
    BY <2>1 DEF ConsumerIInv, IInv, TypeOK, DedupeExact, SingleCopy,
                HolderIsLessee
  <2>3. /\ faults' \in 0..MaxFaults /\ work' \in [Consumers -> {Idle} \cup Work]
        /\ \A b \in Consumers : held'[b] = IF Working(b)' THEN {work'[b].id} ELSE {}
    BY <2>1, IInvTyped DEF Typed, Working
  <2> QED BY <2>1, <2>2, <2>3, CountsStay, ChannelMoves
<1> QED BY <1>1, <1>2, <1>3, <1>4 DEF ConsumerNext, Quiet

\* The inductive invariant holds in every reachable state.
THEOREM ConsumerInvariance == ConsumerSpec => []ConsumerIInv
<1>1. ConsumerInit => ConsumerIInv
  BY ConsumerInitIInv
<1>2. ConsumerIInv /\ [ConsumerNext]_consumerVars => ConsumerIInv'
  BY ConsumerStepIInv
<1> QED BY <1>1, <1>2, PTL DEF ConsumerSpec

\* A replica holds just the delivery it works on, and its count of a message stays
\* below the limit.
THEOREM ConsumerTypeCorrect == ConsumerSpec => []ConsumerTypeOK
<1>1. ConsumerIInv => ConsumerTypeOK
  BY DEF ConsumerIInv
<1> QED BY <1>1, ConsumerInvariance, PTL

\* However leases run out and replicas stop, a message leaves the channel only once it
\* was applied or given up: the late ack of a lost lease names no later delivery.
THEOREM NothingAckedUnhandled == ConsumerSpec => []AckedAfterOutcome
<1>1. ConsumerIInv => AckedAfterOutcome
  BY DEF ConsumerIInv
<1> QED BY <1>1, ConsumerInvariance, PTL

\* Counting failures per replica never gives a message up too early: a message under a
\* key of its own is given up only after MaxAttempts failed applications.
THEOREM DeadLettersEarned == ConsumerSpec => []GiveUpIsEarned
<1>1. ConsumerIInv => GiveUpIsEarned
  BY DEF ConsumerIInv
<1> QED BY <1>1, ConsumerInvariance, PTL

===============================================================================
