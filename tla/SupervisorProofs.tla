---------------------------- MODULE SupervisorProofs ----------------------------
(***************************************************************************)
(* Proofs about the supervisor, for any set of processes, any restart      *)
(* budget and any number of failures, commands and deaths.                 *)
(***************************************************************************)
EXTENDS Supervisor, FiniteSetTheorems, TLAPS

\* A process that was stopped is marked, and no restart of it is scheduled.
StopsMarked == \A n \in stopped : table[n].known => table[n].manual /\ ~table[n].armed

(***************************************************************************)
(* The budget.  h are the ages of the restarts that were scheduled, s those*)
(* of the restarts that were made, newest last; m is Len(h), or one less   *)
(* when the last one of h is still to be made.                             *)
(***************************************************************************)
Descending(ages) == \A i, j \in 1..Len(ages) : i <= j => ages[j] <= ages[i]

\* The restart s[i] was scheduled Delay rounds before it was made, or its counterpart
\* from the end is younger than that: one that is young enough has an entry of its own.
Backed(h, m, s) ==
    \A i \in 1..Len(s) :
        s[i] + Delay <= Window =>
            \E j \in 1..m : j + Len(s) = i + m /\ h[j] <= s[i] + Delay

\* A restart that is due in w rounds finds fewer than Limit restarts within the window.
Room(w, s) == Limit > 0 /\ \A i \in 1..Len(s) : i + Limit <= Len(s) + 1 => s[i] + w > Window
Scheduled(h, w, s) == Len(h) > 0 /\ h[Len(h)] + w <= Delay /\ Room(w, s)

MadeOf(h, armed) == IF armed THEN Len(h) - 1 ELSE Len(h)

Budgeted(p, n, s) ==
    /\ Descending(p.history)
    /\ p.known => Backed(p.history, MadeOf(p.history, p.armed), s)
    /\ p.armed => /\ p.known /\ p.child = "none" /\ n \notin Oneshot
                  /\ Scheduled(p.history, p.wait, s)

Made(s) == Descending(s) /\ Len(s) <= Limit /\ \A i \in 1..Len(s) : s[i] <= Window

\* What was due has been attempted when the loop goes to sleep.
NothingDue == sup.phase = "look" => \A n \in Names : table[n].armed => table[n].wait > 0

BudgetInv ==
    /\ \A n \in Names : Made(starts[n]) /\ Budgeted(table[n], n, starts[n])
    /\ NothingDue

IInv == TypeOK /\ NoStrays /\ StopsMarked /\ BudgetInv

\* What StopHolds says of one step.
StaysStopped == \A n \in stopped \cap stopped' : Live(n)' <= Live(n)

-------------------------------------------------------------------------------
(***************************************************************************)
(* What the operations on one entry do.                                    *)
(***************************************************************************)
\* The naturals are well-founded.
LEMMA Least ==
    ASSUME NEW S \in SUBSET Nat, S # {}
    PROVE  \E x \in S : \A y \in S : x <= y
<1>1. PICK x \in S : \A y \in S : ~(<<y, x>> \in OpToRel(<, Nat))
  BY NatLessThanWellFounded, WFMin
<1>2. \A y \in S : ~(y < x)
  BY <1>1 DEF OpToRel
<1> QED BY <1>2

\* A front of entries that are all too old goes; what is left begins with one that is not.
LEMMA RecentDrops ==
    ASSUME NEW h \in Seq(Nat)
    PROVE  \E k \in 0..Len(h) :
              /\ Recent(h) = SubSeq(h, k + 1, Len(h))
              /\ \A i \in 1..k : h[i] > Window
              /\ k < Len(h) => h[k + 1] <= Window
<1> DEFINE old == {i \in DOMAIN h : \A j \in 1..i : h[j] > Window}
           young == {i \in 1..Len(h) : ~(h[i] > Window)}
<1>0. Window \in Nat /\ Len(h) \in Nat /\ DOMAIN h = 1..Len(h) /\ \A i \in 1..Len(h) : h[i] \in Nat
  BY SupervisorBoundsAssumption
<1>1. \E k \in 0..Len(h) : /\ \A i \in 1..k : h[i] > Window
                           /\ k < Len(h) => h[k + 1] <= Window
  <2>1. CASE young = {}
    <3>1. \A i \in 1..Len(h) : h[i] > Window
      BY <2>1
    <3> QED BY <3>1, <1>0
  <2>2. CASE young # {}
    <3>1. young \in SUBSET Nat
      BY <1>0
    <3> HIDE DEF young
    <3>2. PICK m \in young : \A y \in young : m <= y
      BY <2>2, <3>1, Least
    <3> USE DEF young
    <3>3. m \in 1..Len(h) /\ h[m] <= Window
      BY <1>0
    <3>4. \A i \in 1..(m - 1) : h[i] > Window
      BY <1>0, <3>2, <3>3
    <3>5. m - 1 \in 0..Len(h) /\ (m - 1) + 1 = m
      BY <1>0, <3>3
    <3> QED BY <3>3, <3>4, <3>5
  <2> QED BY <2>1, <2>2
<1>2. PICK k \in 0..Len(h) : /\ \A i \in 1..k : h[i] > Window
                             /\ k < Len(h) => h[k + 1] <= Window
  BY <1>1
<1>3. old = 1..k
  <2>1. \A i \in 1..k : i \in old
    BY <1>0, <1>2
  <2>2. \A i \in old : i \in 1..k
    <3> SUFFICES ASSUME NEW i \in old, ~(i \in 1..k) PROVE FALSE
      OBVIOUS
    <3>1. i \in 1..Len(h) /\ k < i /\ k + 1 \in 1..i
      BY <1>0
    <3>2. h[k + 1] > Window
      BY <3>1
    <3> QED BY <1>0, <1>2, <3>1, <3>2
  <2> QED BY <2>1, <2>2
<1>4. Cardinality(1..k) = k
  BY <1>0, FS_Interval
<1>5. Recent(h) = SubSeq(h, k + 1, Len(h))
  BY <1>3, <1>4 DEF Recent
<1> QED BY <1>2, <1>5

LEMMA RecentIs ==
    ASSUME NEW h \in Seq(Nat)
    PROVE  \E k \in 0..Len(h) :
              /\ Recent(h) \in Seq(Nat) /\ Len(Recent(h)) = Len(h) - k
              /\ \A i \in 1..(Len(h) - k) : Recent(h)[i] = h[i + k]
              /\ \A i \in 1..k : h[i] > Window
              /\ k < Len(h) => h[k + 1] <= Window
<1>1. PICK k \in 0..Len(h) :
              /\ Recent(h) = SubSeq(h, k + 1, Len(h))
              /\ \A i \in 1..k : h[i] > Window
              /\ k < Len(h) => h[k + 1] <= Window
  BY RecentDrops
<1>2. Recent(h) \in Seq(Nat) /\ Len(Recent(h)) = Len(h) - k
  BY <1>1
<1>3. \A i \in 1..(Len(h) - k) : Recent(h)[i] = h[i + k]
  BY <1>1
<1> QED BY <1>1, <1>2, <1>3

LEMMA RecentType == ASSUME NEW h \in Seq(Nat) PROVE Recent(h) \in Seq(Nat)
  BY RecentIs

LEMMA RecentDescends ==
    ASSUME NEW h \in Seq(Nat), Descending(h)
    PROVE  Descending(Recent(h))
<1>1. PICK k \in 0..Len(h) : /\ Recent(h) \in Seq(Nat) /\ Len(Recent(h)) = Len(h) - k
                             /\ \A i \in 1..(Len(h) - k) : Recent(h)[i] = h[i + k]
  BY RecentIs
<1> SUFFICES ASSUME NEW i \in 1..Len(Recent(h)), NEW j \in 1..Len(Recent(h)), i <= j
             PROVE  Recent(h)[j] <= Recent(h)[i]
  BY DEF Descending
<1>2. i + k \in 1..Len(h) /\ j + k \in 1..Len(h) /\ i + k <= j + k
  BY <1>1
<1> QED BY <1>1, <1>2 DEF Descending

LEMMA OlderIs ==
    ASSUME NEW h \in Seq(Nat)
    PROVE  /\ Older(h) \in Seq(Nat) /\ Len(Older(h)) = Len(h)
           /\ \A i \in 1..Len(h) : Older(h)[i] = IF h[i] > Window THEN h[i] ELSE h[i] + 1
           /\ Descending(h) => Descending(Older(h))
<1>0. Window \in Nat
  BY SupervisorBoundsAssumption
<1>1. Older(h) \in Seq(Nat) /\ Len(Older(h)) = Len(h)
  BY <1>0 DEF Older
<1>2. \A i \in 1..Len(h) : Older(h)[i] = IF h[i] > Window THEN h[i] ELSE h[i] + 1
  BY <1>0 DEF Older
<1>3. ASSUME Descending(h), NEW i \in 1..Len(h), NEW j \in 1..Len(h), i <= j
      PROVE  Older(h)[j] <= Older(h)[i]
  <2>1. h[i] \in Nat /\ h[j] \in Nat /\ h[j] <= h[i]
    BY <1>3 DEF Descending
  <2> QED BY <1>0, <1>2, <2>1
<1> QED BY <1>1, <1>2, <1>3 DEF Descending

-------------------------------------------------------------------------------
(***************************************************************************)
(* The budget, step by step: entries leave the history, a scheduled restart*)
(* is canceled, a restart is scheduled, it is made, a round passes.        *)
(***************************************************************************)
LEMMA BeforeLast ==
    ASSUME NEW n \in Nat, NEW i \in 1..(n + 1), NEW j \in 1..(n + 1), i <= j, j # n + 1
    PROVE  i \in 1..n /\ j \in 1..n
  OBVIOUS

LEMMA Within ==
    \A u, v, w \in Nat : ~(u + v > w) \/ (u + 1) + v <= w => u + v <= w
  OBVIOUS

LEMMA Element == ASSUME NEW h \in Seq(Nat), NEW i \in 1..Len(h) PROVE h[i] \in Nat
  OBVIOUS

LEMMA AtMost ==
    \A u, v, w \in Nat :  /\ u <= v + Delay /\ v + Delay <= Window => ~(u > Window)
                          /\ w <= u /\ u <= v + Delay => w <= v + Delay
  BY SupervisorBoundsAssumption

LEMMA RecentBacks ==
    ASSUME NEW h \in Seq(Nat), NEW s \in Seq(Nat), Backed(h, Len(h), s)
    PROVE  Backed(Recent(h), Len(Recent(h)), s)
<1>0. Window \in Nat /\ Delay \in Nat
  BY SupervisorBoundsAssumption
<1>1. PICK k \in 0..Len(h) : /\ Recent(h) \in Seq(Nat) /\ Len(Recent(h)) = Len(h) - k
                             /\ \A i \in 1..(Len(h) - k) : Recent(h)[i] = h[i + k]
                             /\ \A i \in 1..k : h[i] > Window
  BY RecentIs
<1> SUFFICES ASSUME NEW i \in 1..Len(s), s[i] + Delay <= Window
             PROVE  \E j \in 1..Len(Recent(h)) :
                       j + Len(s) = i + Len(Recent(h)) /\ Recent(h)[j] <= s[i] + Delay
  BY DEF Backed
<1>2. PICK j \in 1..Len(h) : j + Len(s) = i + Len(h) /\ h[j] <= s[i] + Delay
  BY DEF Backed
<1>3. h[j] \in Nat /\ s[i] \in Nat
  OBVIOUS
<1>4. ~(h[j] > Window)
  BY <1>0, <1>2, <1>3, AtMost
<1>5. ~(j \in 1..k)
  BY <1>1, <1>4
<1>6. /\ j - k \in 1..(Len(h) - k) /\ (j - k) + k = j
      /\ (j - k) + Len(s) = i + (Len(h) - k)
  BY <1>2, <1>5
<1>7. Recent(h)[j - k] = h[j]
  BY <1>1, <1>6
<1>8. Recent(h)[j - k] <= s[i] + Delay
  BY <1>2, <1>7
<1> QED BY <1>1, <1>6, <1>8

LEMMA CanceledBacks ==
    ASSUME NEW h \in Seq(Nat), NEW s \in Seq(Nat), Descending(h), Backed(h, Len(h) - 1, s)
    PROVE  Backed(h, Len(h), s)
<1>0. Window \in Nat /\ Delay \in Nat
  BY SupervisorBoundsAssumption
<1> SUFFICES ASSUME NEW i \in 1..Len(s), s[i] + Delay <= Window
             PROVE  \E j \in 1..Len(h) : j + Len(s) = i + Len(h) /\ h[j] <= s[i] + Delay
  BY DEF Backed
<1>1. PICK j \in 1..(Len(h) - 1) : j + Len(s) = i + (Len(h) - 1) /\ h[j] <= s[i] + Delay
  BY DEF Backed
<1>2. j \in 1..Len(h) /\ j + 1 \in 1..Len(h) /\ j <= j + 1 /\ (j + 1) + Len(s) = i + Len(h)
  BY <1>1
<1>3. h[j + 1] \in Nat /\ h[j] \in Nat /\ s[i] \in Nat
  BY <1>2, Element
<1>a. h[j + 1] <= h[j]
  BY <1>2 DEF Descending
<1>4. h[j + 1] <= s[i] + Delay
  BY <1>0, <1>1, <1>3, <1>a, AtMost
<1> QED BY <1>2, <1>4

LEMMA ScheduleBacks ==
    ASSUME NEW h \in Seq(Nat), NEW s \in Seq(Nat), Descending(h), Descending(s),
           Backed(h, Len(h), s), Len(Recent(h)) < Limit
    PROVE  /\ Append(Recent(h), 0) \in Seq(Nat)
           /\ Descending(Append(Recent(h), 0))
           /\ Backed(Append(Recent(h), 0), Len(Append(Recent(h), 0)) - 1, s)
           /\ Scheduled(Append(Recent(h), 0), Delay, s)
<1>0. Window \in Nat /\ Delay \in Nat /\ Limit \in Nat
  BY SupervisorBoundsAssumption
<1>1. PICK r \in Seq(Nat) : r = Recent(h)
  BY RecentType
<1>2. Descending(r) /\ Backed(r, Len(r), s)
  BY <1>1, RecentDescends, RecentBacks
<1>3. Append(r, 0) \in Seq(Nat)
  OBVIOUS
<1>4. PICK q \in Seq(Nat) : q = Append(r, 0)
  BY <1>3
<1>5. Len(q) = Len(r) + 1 /\ q[Len(q)] = 0 /\ \A i \in 1..Len(r) : q[i] = r[i]
  BY <1>4
<1>6. Descending(q)
  <2> SUFFICES ASSUME NEW i \in 1..Len(q), NEW j \in 1..Len(q), i <= j PROVE q[j] <= q[i]
    BY DEF Descending
  <2>1. q[i] \in Nat /\ q[j] \in Nat
    OBVIOUS
  <2>2. CASE j = Len(q)
    <3>1. q[j] = 0
      BY <2>2, <1>5
    <3> QED BY <2>1, <3>1
  <2>3. CASE j # Len(q)
    <3>1. i \in 1..Len(r) /\ j \in 1..Len(r)
      <4>1. Len(r) \in Nat /\ Len(q) = Len(r) + 1
        BY <1>5
      <4> QED BY <2>3, <4>1, BeforeLast
    <3> QED BY <3>1, <1>2, <1>5 DEF Descending
  <2> QED BY <2>2, <2>3
<1>7. Backed(q, Len(q) - 1, s)
  <2>1. Len(q) - 1 = Len(r)
    BY <1>5
  <2> SUFFICES ASSUME NEW i \in 1..Len(s), s[i] + Delay <= Window
               PROVE  \E j \in 1..Len(r) : j + Len(s) = i + Len(r) /\ q[j] <= s[i] + Delay
    BY <2>1 DEF Backed
  <2>2. PICK j \in 1..Len(r) : j + Len(s) = i + Len(r) /\ r[j] <= s[i] + Delay
    BY <1>2 DEF Backed
  <2>3. q[j] = r[j]
    BY <1>5
  <2> QED BY <2>2, <2>3
<1>8. Room(Delay, s)
  <2>1. Limit > 0
    BY <1>0, <1>1
  <2> SUFFICES ASSUME NEW i \in 1..Len(s), i + Limit <= Len(s) + 1, ~(s[i] + Delay > Window)
               PROVE  FALSE
    BY <2>1 DEF Room
  <2>2. s[i] + Delay <= Window
    <3>1. s[i] \in Nat
      BY Element
    <3> QED BY <1>0, <3>1, Within
  <2>3. PICK j \in 1..Len(r) : j + Len(s) = i + Len(r)
    BY <1>2, <2>2 DEF Backed
  <2>4. Len(r) < Limit
    BY <1>1
  <2> QED BY <2>3, <2>4, <1>0
<1>9. Scheduled(q, Delay, s)
  BY <1>0, <1>5, <1>8 DEF Scheduled
<1> QED BY <1>1, <1>4, <1>6, <1>7, <1>9

LEMMA MakeBacks ==
    ASSUME NEW h \in Seq(Nat), NEW s \in Seq(Nat), Made(s),
           Backed(h, Len(h) - 1, s), Scheduled(h, 0, s)
    PROVE  Append(s, 0) \in Seq(Nat) /\ Made(Append(s, 0)) /\ Backed(h, Len(h), Append(s, 0))
<1>0. Window \in Nat /\ Delay \in Nat /\ Limit \in Nat
  BY SupervisorBoundsAssumption
<1>1. Len(s) < Limit
  <2> SUFFICES ASSUME Len(s) >= Limit PROVE FALSE
    BY <1>0
  <2>1. Limit > 0 /\ \A i \in 1..Len(s) : i + Limit <= Len(s) + 1 => s[i] + 0 > Window
    BY DEF Scheduled, Room
  <2>2. 1 \in 1..Len(s) /\ 1 + Limit <= Len(s) + 1
    BY <1>0, <2>1
  <2>3. s[1] + 0 > Window /\ s[1] <= Window /\ s[1] \in Nat
    BY <2>1, <2>2 DEF Made
  <2> QED BY <1>0, <2>3
<1>2. Append(s, 0) \in Seq(Nat)
  OBVIOUS
<1>3. PICK t \in Seq(Nat) : t = Append(s, 0)
  BY <1>2
<1>4. Len(t) = Len(s) + 1 /\ t[Len(t)] = 0 /\ \A i \in 1..Len(s) : t[i] = s[i]
  BY <1>3
<1>5. Made(t)
  <2>1. ASSUME NEW i \in 1..Len(t) PROVE t[i] <= Window
    <3>1. CASE i = Len(t)
      BY <3>1, <1>0, <1>4
    <3>2. CASE i # Len(t)
      <4>1. i \in 1..Len(s)
        BY <3>2, <1>4
      <4> QED BY <4>1, <1>4 DEF Made
    <3> QED BY <3>1, <3>2
  <2>2. ASSUME NEW i \in 1..Len(t), NEW j \in 1..Len(t), i <= j PROVE t[j] <= t[i]
    <3>1. t[i] \in Nat /\ t[j] \in Nat
      OBVIOUS
    <3>2. CASE j = Len(t)
      BY <3>1, <3>2, <1>4
    <3>3. CASE j # Len(t)
      <4>0. Len(s) \in Nat /\ Len(t) = Len(s) + 1
        BY <1>4
      <4>1. i \in 1..Len(s) /\ j \in 1..Len(s)
        BY <3>3, <2>2, <4>0, BeforeLast
      <4>2. t[i] = s[i] /\ t[j] = s[j]
        BY <4>1, <1>4
      <4> QED BY <4>1, <4>2, <2>2 DEF Made, Descending
    <3> QED BY <3>2, <3>3
  <2> QED BY <1>0, <1>1, <1>4, <2>1, <2>2 DEF Made, Descending
<1>6. Backed(h, Len(h), t)
  <2> SUFFICES ASSUME NEW i \in 1..Len(t), t[i] + Delay <= Window
               PROVE  \E j \in 1..Len(h) : j + Len(t) = i + Len(h) /\ h[j] <= t[i] + Delay
    BY DEF Backed
  <2>1. CASE i = Len(t)
    <3>1. Len(h) \in 1..Len(h) /\ Len(h) + Len(t) = i + Len(h)
      BY <2>1 DEF Scheduled
    <3>2. h[Len(h)] \in Nat /\ h[Len(h)] + 0 <= Delay /\ t[i] = 0
      BY <2>1, <3>1, <1>4 DEF Scheduled
    <3>3. h[Len(h)] <= t[i] + Delay
      BY <3>2, <1>0
    <3> QED BY <3>1, <3>3
  <2>2. CASE i # Len(t)
    <3>1. i \in 1..Len(s)
      BY <2>2, <1>4
    <3>2. t[i] = s[i]
      BY <3>1, <1>4
    <3>3. PICK j \in 1..(Len(h) - 1) : j + Len(s) = i + (Len(h) - 1) /\ h[j] <= s[i] + Delay
      BY <3>1, <3>2 DEF Backed
    <3>4. j \in 1..Len(h) /\ j + Len(t) = i + Len(h)
      BY <3>1, <3>3, <1>4
    <3> QED BY <3>2, <3>3, <3>4
  <2> QED BY <2>1, <2>2
<1> QED BY <1>3, <1>5, <1>6

\* A round passes: the restarts made are those of before, one round older, without
\* the ones that leave the window.
LEMMA RoundOf ==
    ASSUME NEW s \in Seq(Nat), Made(s), NEW t, t = Recent(Older(s))
    PROVE  /\ t \in Seq(Nat) /\ Made(t)
           /\ \E k \in 0..Len(s) : /\ Len(t) = Len(s) - k
                                   /\ \A i \in 1..Len(t) : i + k \in 1..Len(s) /\ t[i] = s[i + k] + 1
<1>0. Window \in Nat /\ Limit \in Nat
  BY SupervisorBoundsAssumption
<1>1. PICK o \in Seq(Nat) :
         /\ o = Older(s) /\ Len(o) = Len(s) /\ Descending(o)
         /\ \A i \in 1..Len(s) : o[i] = IF s[i] > Window THEN s[i] ELSE s[i] + 1
  BY OlderIs DEF Made
<1>2. PICK k \in 0..Len(o) : /\ t \in Seq(Nat) /\ Len(t) = Len(o) - k
                             /\ \A i \in 1..(Len(o) - k) : t[i] = o[i + k]
                             /\ k < Len(o) => o[k + 1] <= Window
  BY <1>1, RecentIs
<1>3. Descending(t)
  BY <1>1, RecentDescends
<1>4. ASSUME NEW i \in 1..Len(t) PROVE i + k \in 1..Len(s) /\ t[i] = s[i + k] + 1
  <2>1. i + k \in 1..Len(s)
    BY <1>1, <1>2
  <2>2. s[i + k] <= Window /\ s[i + k] \in Nat
    BY <2>1 DEF Made
  <2>3. o[i + k] = s[i + k] + 1
    BY <1>0, <1>1, <2>1, <2>2
  <2>4. i \in 1..(Len(o) - k)
    BY <1>2
  <2> QED BY <1>2, <2>1, <2>3, <2>4
<1>5. ASSUME NEW i \in 1..Len(t) PROVE t[i] <= Window
  <2>1. 1 \in 1..Len(t) /\ 1 <= i /\ 1 \in 1..(Len(o) - k) /\ k < Len(o)
    BY <1>1, <1>2
  <2>2. t[i] <= t[1] /\ t[1] = o[1 + k]
    BY <1>2, <1>3, <2>1 DEF Descending
  <2>3. t[1] <= Window
    BY <1>2, <2>1, <2>2
  <2>4. t[i] \in Nat /\ t[1] \in Nat
    BY <1>2, <2>1, Element
  <2> QED BY <1>0, <2>2, <2>3, <2>4
<1>6. Len(t) <= Limit
  <2>1. Len(s) <= Limit
    BY DEF Made
  <2> QED BY <1>0, <1>1, <1>2, <2>1
<1>7. Made(t)
  BY <1>3, <1>5, <1>6 DEF Made
<1> QED BY <1>1, <1>2, <1>4, <1>7

LEMMA RoundBacks ==
    ASSUME NEW h \in Seq(Nat), NEW s \in Seq(Nat), Made(s), NEW t, t = Recent(Older(s)),
           NEW m \in Int, m <= Len(h), Backed(h, m, s)
    PROVE  Backed(Older(h), m, t)
<1>0. Window \in Nat /\ Delay \in Nat
  BY SupervisorBoundsAssumption
<1>1. PICK k \in 0..Len(s) :
         /\ t \in Seq(Nat) /\ Len(t) = Len(s) - k
         /\ \A i \in 1..Len(t) : i + k \in 1..Len(s) /\ t[i] = s[i + k] + 1
  BY RoundOf
<1>2. PICK o \in Seq(Nat) :
         /\ o = Older(h) /\ Len(o) = Len(h)
         /\ \A j \in 1..Len(h) : o[j] = IF h[j] > Window THEN h[j] ELSE h[j] + 1
  BY OlderIs
<1> SUFFICES ASSUME NEW i \in 1..Len(t), t[i] + Delay <= Window
             PROVE  \E j \in 1..m : j + Len(t) = i + m /\ o[j] <= t[i] + Delay
  BY <1>2 DEF Backed
<1>3. PICK x \in 1..Len(s) : x = i + k
  BY <1>1
<1>4. t[i] = s[x] + 1 /\ s[x] \in Nat
  BY <1>1, <1>3, Element
<1>5. s[x] + Delay <= Window
  <2>1. (s[x] + 1) + Delay <= Window
    BY <1>4
  <2> QED BY <1>0, <1>4, <2>1, Within
<1>6. PICK j \in 1..m : j + Len(s) = x + m /\ h[j] <= s[x] + Delay
  BY <1>5 DEF Backed
<1>7. j \in 1..Len(h) /\ h[j] \in Nat
  <2>1. j \in 1..Len(h)
    OBVIOUS
  <2> QED BY <2>1, Element
<1>8. o[j] = IF h[j] > Window THEN h[j] ELSE h[j] + 1
  BY <1>2, <1>7
<1>9. o[j] <= t[i] + Delay
  <2>1. PICK u \in Nat, v \in Nat : u = h[j] /\ v = s[x]
    BY <1>4, <1>7
  <2>2. u <= v + Delay /\ t[i] = v + 1 /\ (o[j] = u \/ o[j] = u + 1)
    BY <1>4, <1>6, <1>8, <2>1
  <2>3. u <= (v + 1) + Delay /\ u + 1 <= (v + 1) + Delay
    BY <1>0, <2>2
  <2> QED BY <2>2, <2>3
<1>10. j + Len(t) = i + m
  BY <1>1, <1>3, <1>6
<1> QED BY <1>9, <1>10

LEMMA RoundScheduled ==
    ASSUME NEW h \in Seq(Nat), NEW s \in Seq(Nat), Made(s), NEW t, t = Recent(Older(s)),
           NEW w \in Nat, w > 0, Scheduled(h, w, s)
    PROVE  Scheduled(Older(h), w - 1, t)
<1>0. Window \in Nat /\ Delay \in Nat /\ Limit \in Nat
  BY SupervisorBoundsAssumption
<1>1. PICK k \in 0..Len(s) :
         /\ t \in Seq(Nat) /\ Len(t) = Len(s) - k
         /\ \A i \in 1..Len(t) : i + k \in 1..Len(s) /\ t[i] = s[i + k] + 1
  BY RoundOf
<1>2. PICK o \in Seq(Nat) :
         /\ o = Older(h) /\ Len(o) = Len(h)
         /\ \A j \in 1..Len(h) : o[j] = IF h[j] > Window THEN h[j] ELSE h[j] + 1
  BY OlderIs
<1>3. Len(h) > 0 /\ Len(h) \in 1..Len(h) /\ h[Len(h)] \in Nat /\ h[Len(h)] + w <= Delay
  BY Element DEF Scheduled
<1>4. o[Len(h)] + (w - 1) <= Delay
  <2>1. o[Len(h)] = h[Len(h)] \/ o[Len(h)] = h[Len(h)] + 1
    BY <1>2, <1>3
  <2> QED BY <1>0, <1>3, <2>1
<1>5. Limit > 0
  BY DEF Scheduled, Room
<1>6. ASSUME NEW i \in 1..Len(t), i + Limit <= Len(t) + 1 PROVE t[i] + (w - 1) > Window
  <2>1. PICK x \in 1..Len(s) : x = i + k
    BY <1>1
  <2>2. t[i] = s[x] + 1 /\ s[x] \in Nat
    <3>1. s[x] \in Nat
      BY Element
    <3>2. t[i] = s[i + k] + 1
      BY <1>1
    <3> QED BY <2>1, <3>1, <3>2
  <2>3. x + Limit <= Len(s) + 1
    BY <1>0, <1>1, <1>6, <2>1
  <2>4. s[x] + w > Window
    BY <2>3 DEF Scheduled, Room
  <2> QED BY <1>0, <2>2, <2>4
<1> QED BY <1>2, <1>3, <1>4, <1>5, <1>6 DEF Scheduled, Room

LEMMA ScheduleRestart ==
    ASSUME NEW p \in Entry, NEW n
    PROVE  /\ schedule_restart(p, n) \in Entry
           /\ schedule_restart(p, n).known = p.known
           /\ schedule_restart(p, n).child = p.child
           /\ schedule_restart(p, n).manual = p.manual
<1>1. p.history \in Seq(Nat)
  BY DEF Entry
<1>2. PICK h \in Seq(Nat) : h = Recent(p.history)
  BY <1>1, RecentType
<1>3. Append(h, 0) \in Seq(Nat)
  OBVIOUS
<1> QED BY <1>2, <1>3, SupervisorBoundsAssumption DEF schedule_restart, Entry

LEMMA AttemptStart ==
    ASSUME NEW p \in Entry, NEW n, NEW spawned \in BOOLEAN
    PROVE  /\ attempt_start(p, n, spawned) \in Entry
           /\ attempt_start(p, n, spawned).known = p.known
<1> DEFINE q == [p EXCEPT !.manual = FALSE]
<1>1. q \in Entry /\ q.known = p.known
  BY DEF Entry
<1>2. CASE spawned
  BY <1>2 DEF attempt_start, Entry
<1>3. CASE ~spawned
  <2>1. attempt_start(p, n, spawned) = schedule_restart(q, n)
    BY <1>3 DEF attempt_start
  <2> HIDE DEF q
  <2> QED BY <2>1, <1>1, ScheduleRestart
<1> QED BY <1>2, <1>3

LEMMA HandleExit ==
    ASSUME NEW p \in Entry, NEW n
    PROVE  /\ handle_exit(p, n) \in Entry
           /\ handle_exit(p, n).known = p.known
           /\ handle_exit(p, n).child = "none"
           /\ handle_exit(p, n).manual = p.manual
           /\ p.manual => ~handle_exit(p, n).armed
<1> DEFINE q == [p EXCEPT !.child = "none"]
<1>1. q \in Entry /\ q.known = p.known /\ q.manual = p.manual /\ q.child = "none"
  BY DEF Entry
<1>2. CASE p.manual \/ p.child = "ok"
  BY <1>2 DEF handle_exit, Entry
<1>3. CASE ~(p.manual \/ p.child = "ok")
  <2>1. handle_exit(p, n) = schedule_restart(q, n) /\ ~p.manual
    BY <1>3 DEF handle_exit
  <2> HIDE DEF q
  <2> QED BY <2>1, <1>1, ScheduleRestart
<1> QED BY <1>2, <1>3

LEMMA StopOne ==
    ASSUME NEW p \in Entry, NEW prompt \in BOOLEAN
    PROVE  /\ stop_one(p, prompt) \in Entry
           /\ stop_one(p, prompt).manual /\ ~stop_one(p, prompt).armed
           /\ Alive(stop_one(p, prompt)) => Alive(p)
  BY DEF stop_one, Entry, Alive

\* A poll leaves a stopped process as it is, or reaps it.
LEMMA PollProcess ==
    ASSUME NEW p \in Entry, NEW n, NEW spawned \in BOOLEAN
    PROVE  /\ poll_process(p, n, spawned) \in Entry
           /\ poll_process(p, n, spawned).known = p.known
           /\ p.manual /\ ~p.armed =>
                /\ poll_process(p, n, spawned).manual
                /\ ~poll_process(p, n, spawned).armed
                /\ Alive(poll_process(p, n, spawned)) => Alive(p)
<1>1. /\ Reaped(p, n) \in Entry
      /\ Reaped(p, n).known = p.known
      /\ p.manual /\ ~p.armed => Reaped(p, n).manual /\ ~Reaped(p, n).armed
      /\ Reaped(p, n) = p \/ Reaped(p, n).child = "none"
  BY HandleExit DEF Reaped
<1>2. PICK q \in Entry : q = Reaped(p, n)
  BY <1>1
<1>3. CASE RestartDue(p, n)
  <2>1. poll_process(p, n, spawned) = attempt_start(q, n, spawned) /\ q.armed
    BY <1>2, <1>3 DEF poll_process, RestartDue
  <2> QED BY <2>1, <1>1, <1>2, AttemptStart
<1>4. CASE ~RestartDue(p, n)
  <2>1. poll_process(p, n, spawned) = q
    BY <1>2, <1>4 DEF poll_process
  <2> QED BY <2>1, <1>1, <1>2 DEF Alive
<1> QED BY <1>3, <1>4

-------------------------------------------------------------------------------
(***************************************************************************)
(* What they do to the budget of the entry.                                *)
(***************************************************************************)
LEMMA Disarmed ==
    ASSUME NEW p \in Entry, NEW n, NEW s \in Seq(Nat), Budgeted(p, n, s), p.known
    PROVE  /\ p.history \in Seq(Nat) /\ Descending(p.history)
           /\ Backed(p.history, Len(p.history), s)
<1>1. p.history \in Seq(Nat) /\ p.armed \in BOOLEAN
  BY DEF Entry
<1>2. Descending(p.history)
  BY DEF Budgeted
<1>3. CASE p.armed
  <2>1. Backed(p.history, Len(p.history) - 1, s)
    BY <1>3 DEF Budgeted, MadeOf
  <2> QED BY <1>1, <1>2, <2>1, CanceledBacks
<1>4. CASE ~p.armed
  BY <1>1, <1>2, <1>4 DEF Budgeted, MadeOf
<1> QED BY <1>1, <1>3, <1>4

\* An entry without a pending restart, whatever else has become of it.
LEMMA Unarmed ==
    ASSUME NEW p \in Entry, NEW q \in Entry, NEW n, NEW s \in Seq(Nat), Budgeted(p, n, s),
           q.known = p.known, q.history = p.history, ~q.armed
    PROVE  Budgeted(q, n, s)
<1>1. Descending(q.history)
  BY DEF Budgeted
<1>2. q.known => Backed(q.history, MadeOf(q.history, q.armed), s)
  BY Disarmed DEF MadeOf
<1> QED BY <1>1, <1>2 DEF Budgeted

LEMMA ScheduleBudget ==
    ASSUME NEW p \in Entry, NEW n, NEW s \in Seq(Nat), Made(s), p.known, p.child = "none",
           n \in Oneshot => ~p.armed,
           Descending(p.history), Backed(p.history, Len(p.history), s)
    PROVE  /\ Budgeted(schedule_restart(p, n), n, s)
           /\ schedule_restart(p, n).armed => schedule_restart(p, n).wait > 0
<1>0. p.history \in Seq(Nat) /\ Delay \in Nat /\ Delay > 0 /\ Limit \in Nat
  BY SupervisorBoundsAssumption DEF Entry
<1>1. PICK r \in Seq(Nat) : r = Recent(p.history)
  BY <1>0, RecentType
<1>2. Descending(r) /\ Backed(r, Len(r), s)
  BY <1>0, <1>1, RecentDescends, RecentBacks
<1>3. CASE n \in Oneshot
  <2>1. schedule_restart(p, n) = p
    BY <1>3 DEF schedule_restart
  <2> QED BY <1>3, <2>1 DEF Budgeted, MadeOf
<1>4. CASE n \notin Oneshot /\ Len(r) >= Limit
  <2>1. PICK q \in Entry : /\ q = schedule_restart(p, n)
                           /\ q.history = r /\ ~q.armed
    <3>1. schedule_restart(p, n) = [p EXCEPT !.history = r, !.armed = FALSE, !.wait = 0]
      BY <1>1, <1>4 DEF schedule_restart
    <3>2. schedule_restart(p, n).history = r /\ ~schedule_restart(p, n).armed
      BY <3>1 DEF Entry
    <3> QED BY <3>2, ScheduleRestart
  <2> QED BY <1>2, <2>1 DEF Budgeted, MadeOf
<1>5. CASE n \notin Oneshot /\ ~(Len(r) >= Limit)
  <2>1. Len(r) < Limit
    BY <1>0, <1>5
  <2>2. PICK h \in Seq(Nat) : /\ h = Append(r, 0) /\ Descending(h)
                              /\ Backed(h, Len(h) - 1, s) /\ Scheduled(h, Delay, s)
    <3>1. Descending(s)
      BY DEF Made
    <3> QED BY <1>0, <1>1, <2>1, <3>1, ScheduleBacks
  <2>3. PICK q \in Entry : /\ q = schedule_restart(p, n)
                           /\ q.known /\ q.child = "none"
                           /\ q.history = h /\ q.armed /\ q.wait = Delay
    <3>1. schedule_restart(p, n) = [p EXCEPT !.history = h, !.armed = TRUE, !.wait = Delay]
      BY <1>1, <1>5, <2>2 DEF schedule_restart
    <3>2. /\ schedule_restart(p, n).history = h /\ schedule_restart(p, n).armed
          /\ schedule_restart(p, n).wait = Delay
      BY <3>1 DEF Entry
    <3> QED BY <3>2, ScheduleRestart
  <2> QED BY <1>0, <1>5, <2>2, <2>3 DEF Budgeted, MadeOf
<1> QED BY <1>3, <1>4, <1>5

LEMMA StartBudget ==
    ASSUME NEW p \in Entry, NEW n, NEW s \in Seq(Nat), Made(s), p.known, p.child = "none",
           n \in Oneshot => ~p.armed, NEW spawned \in BOOLEAN,
           Descending(p.history), Backed(p.history, Len(p.history), s)
    PROVE  /\ Budgeted(attempt_start(p, n, spawned), n, s)
           /\ attempt_start(p, n, spawned).armed => attempt_start(p, n, spawned).wait > 0
<1>1. PICK q \in Entry : /\ q = [p EXCEPT !.manual = FALSE]
                         /\ q.known /\ q.child = "none" /\ q.armed = p.armed /\ q.history = p.history
  <2>1. [p EXCEPT !.manual = FALSE] \in Entry
    BY DEF Entry
  <2> QED BY <2>1 DEF Entry
<1>2. CASE spawned
  <2>1. PICK r \in Entry : /\ r = attempt_start(p, n, spawned)
                           /\ ~r.armed /\ r.known /\ r.history = p.history
    <3>1. attempt_start(p, n, spawned) = [q EXCEPT !.child = "alive", !.armed = FALSE, !.wait = 0]
      BY <1>1, <1>2 DEF attempt_start
    <3>2. /\ ~attempt_start(p, n, spawned).armed
          /\ attempt_start(p, n, spawned).known = q.known
          /\ attempt_start(p, n, spawned).history = q.history
      BY <3>1 DEF Entry
    <3> QED BY <1>1, <3>2, AttemptStart
  <2> QED BY <2>1 DEF Budgeted, MadeOf
<1>3. CASE ~spawned
  <2>1. attempt_start(p, n, spawned) = schedule_restart(q, n)
    BY <1>1, <1>3 DEF attempt_start
  <2> QED BY <1>1, <2>1, ScheduleBudget
<1> QED BY <1>2, <1>3

LEMMA ExitBudget ==
    ASSUME NEW p \in Entry, NEW n, NEW s \in Seq(Nat), Made(s), p.known, p.child # "none",
           Budgeted(p, n, s)
    PROVE  /\ Budgeted(handle_exit(p, n), n, s)
           /\ handle_exit(p, n).armed => handle_exit(p, n).wait > 0
<1>1. PICK q \in Entry : /\ q = [p EXCEPT !.child = "none"]
                         /\ q.known /\ q.child = "none" /\ q.armed = p.armed /\ q.history = p.history
  <2>1. [p EXCEPT !.child = "none"] \in Entry
    BY DEF Entry
  <2> QED BY <2>1 DEF Entry
<1>2. ~p.armed
  BY DEF Budgeted
<1>3. CASE p.manual \/ p.child = "ok"
  <2>1. PICK r \in Entry : /\ r = handle_exit(p, n)
                           /\ ~r.armed /\ r.known = p.known /\ r.history = p.history
    <3>1. handle_exit(p, n) = [q EXCEPT !.armed = FALSE, !.wait = 0]
      BY <1>1, <1>3 DEF handle_exit
    <3>2. ~handle_exit(p, n).armed /\ handle_exit(p, n).history = q.history
      BY <3>1 DEF Entry
    <3> QED BY <1>1, <3>2, HandleExit
  <2> QED BY <2>1, Unarmed
<1>4. CASE ~(p.manual \/ p.child = "ok")
  <2>1. handle_exit(p, n) = schedule_restart(q, n)
    BY <1>1, <1>4 DEF handle_exit
  <2>2. Descending(q.history) /\ Backed(q.history, Len(q.history), s)
    BY <1>1, Disarmed
  <2> QED BY <1>1, <1>2, <2>1, <2>2, ScheduleBudget
<1> QED BY <1>3, <1>4

LEMMA StopBudget ==
    ASSUME NEW p \in Entry, NEW n, NEW s \in Seq(Nat), NEW prompt \in BOOLEAN, Budgeted(p, n, s)
    PROVE  Budgeted(stop_one(p, prompt), n, s)
<1>1. PICK q \in Entry : /\ q = stop_one(p, prompt) /\ ~q.armed
                         /\ q.known = p.known /\ q.history = p.history
  <2>1. stop_one(p, prompt) \in Entry /\ ~stop_one(p, prompt).armed
    BY StopOne
  <2>2. stop_one(p, prompt).known = p.known /\ stop_one(p, prompt).history = p.history
    BY DEF stop_one, Entry
  <2> QED BY <2>1, <2>2
<1> QED BY <1>1, Unarmed

\* The restarts of a process after a poll.
Polled(p, n, s) == IF RestartDue(p, n) THEN Append(s, 0) ELSE s

LEMMA PollBudget ==
    ASSUME NEW p \in Entry, NEW n, NEW s \in Seq(Nat), Made(s), p.known, Budgeted(p, n, s),
           NEW spawned \in BOOLEAN
    PROVE  /\ Polled(p, n, s) \in Seq(Nat) /\ Made(Polled(p, n, s))
           /\ Budgeted(poll_process(p, n, spawned), n, Polled(p, n, s))
           /\ poll_process(p, n, spawned).armed => poll_process(p, n, spawned).wait > 0
<1>1. PICK q \in Entry : /\ q = Reaped(p, n) /\ q.known /\ Budgeted(q, n, s)
  <2>1. CASE p.child \in {"ok", "bad"}
    <3>1. Reaped(p, n) = handle_exit(p, n)
      BY <2>1 DEF Reaped
    <3> QED BY <2>1, <3>1, HandleExit, ExitBudget
  <2>2. CASE p.child \notin {"ok", "bad"}
    BY <2>2 DEF Reaped
  <2> QED BY <2>1, <2>2
<1>2. q.history \in Seq(Nat) /\ q.wait \in Nat /\ q.armed \in BOOLEAN
  BY DEF Entry
<1>3. CASE RestartDue(p, n)
  <2>1. q.child = "none" /\ q.armed /\ q.wait = 0
    BY <1>1, <1>3 DEF RestartDue
  <2>2. PICK t \in Seq(Nat) : /\ t = Append(s, 0) /\ Made(t)
                              /\ Backed(q.history, Len(q.history), t)
    <3>1. Scheduled(q.history, 0, s) /\ Backed(q.history, Len(q.history) - 1, s)
      BY <1>1, <2>1 DEF Budgeted, MadeOf
    <3> QED BY <1>2, <3>1, MakeBacks
  <2>3. Descending(q.history) /\ n \notin Oneshot
    BY <1>1, <2>1 DEF Budgeted
  <2>4. poll_process(p, n, spawned) = attempt_start(q, n, spawned) /\ Polled(p, n, s) = t
    BY <1>1, <1>3, <2>2 DEF poll_process, Polled
  <2> QED BY <1>1, <2>1, <2>2, <2>3, <2>4, StartBudget
<1>4. CASE ~RestartDue(p, n)
  <2>1. poll_process(p, n, spawned) = q /\ Polled(p, n, s) = s
    BY <1>1, <1>4 DEF poll_process, Polled
  <2>2. q.armed => q.wait > 0
    BY <1>1, <1>2, <1>4 DEF RestartDue, Budgeted
  <2> QED BY <1>1, <2>1, <2>2
<1> QED BY <1>3, <1>4

\* The entry after a round.
Slept(p) == [p EXCEPT !.wait = IF p.wait > 0 THEN p.wait - 1 ELSE 0, !.history = Older(p.history)]

LEMMA SleepBudget ==
    ASSUME NEW p \in Entry, NEW n, NEW s \in Seq(Nat), Made(s), Budgeted(p, n, s),
           p.armed => p.wait > 0
    PROVE  /\ Slept(p) \in Entry /\ Slept(p).known = p.known /\ Slept(p).child = p.child
           /\ Slept(p).manual = p.manual /\ Slept(p).armed = p.armed
           /\ Recent(Older(s)) \in Seq(Nat) /\ Made(Recent(Older(s)))
           /\ Budgeted(Slept(p), n, Recent(Older(s)))
<1>0. p.history \in Seq(Nat) /\ p.wait \in Nat /\ p.armed \in BOOLEAN
  BY DEF Entry
<1>1. PICK t : t = Recent(Older(s)) /\ t \in Seq(Nat) /\ Made(t)
  BY RoundOf
<1>2. PICK o \in Seq(Nat) : /\ o = Older(p.history) /\ Len(o) = Len(p.history)
                            /\ Descending(p.history) => Descending(o)
  BY <1>0, OlderIs
<1>3. PICK w \in Nat : w = IF p.wait > 0 THEN p.wait - 1 ELSE 0
  BY <1>0
<1>4. PICK q : q = Slept(p)
  OBVIOUS
<1>5. /\ q \in Entry /\ q.known = p.known /\ q.child = p.child /\ q.manual = p.manual
      /\ q.armed = p.armed /\ q.history = o /\ q.wait = w
  <2>1. q = [p EXCEPT !.wait = w, !.history = o]
    BY <1>2, <1>3, <1>4 DEF Slept
  <2> QED BY <2>1 DEF Entry
<1>6. Descending(o)
  BY <1>2 DEF Budgeted
<1>7. q.known => Backed(q.history, MadeOf(q.history, q.armed), t)
  <2> SUFFICES ASSUME p.known PROVE Backed(o, MadeOf(o, p.armed), t)
    BY <1>5
  <2>1. PICK m \in Int : m = MadeOf(p.history, p.armed) /\ m <= Len(p.history)
    <3>1. /\ Len(p.history) - 1 \in Int /\ Len(p.history) - 1 <= Len(p.history)
          /\ Len(p.history) \in Int /\ Len(p.history) <= Len(p.history)
      BY <1>0
    <3>2. CASE p.armed
      <4>1. MadeOf(p.history, p.armed) = Len(p.history) - 1
        BY <3>2 DEF MadeOf
      <4> QED BY <3>1, <4>1
    <3>3. CASE ~p.armed
      <4>1. MadeOf(p.history, p.armed) = Len(p.history)
        BY <3>3 DEF MadeOf
      <4> QED BY <3>1, <4>1
    <3> QED BY <1>0, <3>2, <3>3
  <2>2. m = MadeOf(o, p.armed)
    BY <1>2, <2>1 DEF MadeOf
  <2>3. Backed(p.history, m, s)
    BY <2>1 DEF Budgeted
  <2> QED BY <1>0, <1>1, <1>2, <2>1, <2>2, <2>3, RoundBacks
<1>8. q.armed => q.known /\ q.child = "none" /\ n \notin Oneshot /\ Scheduled(q.history, q.wait, t)
  <2> SUFFICES ASSUME p.armed
               PROVE p.known /\ p.child = "none" /\ n \notin Oneshot /\ Scheduled(o, w, t)
    BY <1>5
  <2>1. p.known /\ p.child = "none" /\ n \notin Oneshot /\ Scheduled(p.history, p.wait, s)
    BY DEF Budgeted
  <2>2. w = p.wait - 1
    BY <1>3
  <2> QED BY <1>0, <1>1, <1>2, <2>1, <2>2, RoundScheduled
<1>9. Budgeted(q, n, t)
  BY <1>5, <1>6, <1>7, <1>8 DEF Budgeted
<1> QED BY <1>1, <1>4, <1>5, <1>9

LEMMA NewEntry ==
    /\ build_one_process \in Entry /\ build_one_process.known /\ build_one_process.child = "none"
    /\ ~build_one_process.armed /\ build_one_process.history = <<>>
    /\ NoEntry \in Entry /\ ~NoEntry.known /\ ~NoEntry.armed /\ NoEntry.history = <<>>
    /\ ~Alive(NoEntry)
<1>1. build_one_process \in Entry
  BY DEF build_one_process, Entry
<1> QED BY <1>1 DEF build_one_process, NoEntry, Entry, Alive

LEMMA NoneMade == <<>> \in Seq(Nat) /\ Made(<<>>) /\ Descending(<<>>) /\ Backed(<<>>, 0, <<>>)
<1>1. Len(<<>>) = 0 /\ <<>> \in Seq(Nat)
  OBVIOUS
<1>2. 1..0 = {}
  OBVIOUS
<1> QED BY <1>1, <1>2, SupervisorBoundsAssumption DEF Made, Descending, Backed

LEMMA NewBudget ==
    ASSUME NEW n, NEW s, NEW spawned \in BOOLEAN
    PROVE  /\ Budgeted(NoEntry, n, s) /\ Budgeted(build_one_process, n, <<>>)
           /\ attempt_start(build_one_process, n, spawned) \in Entry
           /\ attempt_start(build_one_process, n, spawned).known
           /\ Budgeted(attempt_start(build_one_process, n, spawned), n, <<>>)
<1>1. PICK p \in Entry : /\ p = build_one_process /\ p.known /\ p.child = "none"
                         /\ ~p.armed /\ p.history = <<>>
  BY NewEntry
<1>2. Descending(p.history) /\ Backed(p.history, Len(p.history), <<>>)
  <2>1. Len(<<>>) = 0
    OBVIOUS
  <2> QED BY <1>1, <2>1, NoneMade
<1>3. Budgeted(NoEntry, n, s)
  BY NewEntry, NoneMade DEF Budgeted
<1>4. Budgeted(p, n, <<>>)
  BY <1>1, <1>2 DEF Budgeted, MadeOf
<1>5. Budgeted(attempt_start(p, n, spawned), n, <<>>)
  BY <1>1, <1>2, NoneMade, StartBudget
<1> QED BY <1>1, <1>3, <1>4, <1>5, AttemptStart

-------------------------------------------------------------------------------
(***************************************************************************)
(* Steps.                                                                  *)
(***************************************************************************)
\* Types of what goes to the supervisor.
Queues ==
    /\ sup \in [phase : {"down", "boot", "drain", "apply", "look", "stopping"}, todo : Seq(Command)]
    /\ control \in Seq(Command) /\ web.todo \in Seq(Command)
    /\ DOMAIN web = {"todo", "desired", "sure"}
    /\ snapshot \subseteq Names

LEMMA CommandIs ==
    ASSUME NEW c \in Command
    PROVE  /\ c.op \in {"add", "start", "stop", "remove"} /\ c.name \in Names /\ c.auto \in BOOLEAN
  BY DEF Command

LEMMA InitIInv == Init => IInv
<1> SUFFICES ASSUME Init PROVE IInv
  OBVIOUS
<1> USE DEF Init
<1>1. TypeOK
  <2>1. <<>> \in Seq(Command) /\ <<>> \in Seq(Nat)
    OBVIOUS
  <2> QED BY <2>1, NewEntry DEF TypeOK
<1>2. NoStrays
  BY NewEntry DEF NoStrays, Live
<1>3. StopsMarked
  BY DEF StopsMarked
<1>4. BudgetInv
  BY NoneMade, NewBudget DEF BudgetInv, NothingDue
<1> QED BY <1>1, <1>2, <1>3, <1>4 DEF IInv

\* What has to be shown of a step, name by name.
LEMMA NameByName ==
    ASSUME IInv, Queues',
           table' \in [Names -> Entry], stray' \in [Names -> Nat], starts' \in [Names -> Seq(Nat)],
           stopped' \subseteq Names, outlived' \subseteq Names,
           \A n \in Names :
              /\ stray'[n] > 0 => n \in outlived'
              /\ n \in stopped' /\ table'[n].known => table'[n].manual /\ ~table'[n].armed
              /\ Made(starts'[n]) /\ Budgeted(table'[n], n, starts'[n])
              /\ sup'.phase = "look" /\ table'[n].armed => table'[n].wait > 0
              /\ n \in stopped /\ n \in stopped' =>
                    \/ stray'[n] <= stray[n] /\ (Alive(table'[n]) => Alive(table[n]))
                    \/ stray'[n] <= stray[n] + 1 /\ Alive(table[n]) /\ ~Alive(table'[n])
    PROVE  IInv' /\ StaysStopped
<1>1. TypeOK'
  BY DEF TypeOK, Queues
<1>2. NoStrays'
  BY DEF NoStrays, Live
<1>3. StopsMarked'
  BY DEF StopsMarked
<1>4. BudgetInv'
  BY DEF BudgetInv, NothingDue
<1>5. StaysStopped
  BY DEF StaysStopped, Live, IInv, TypeOK
<1> QED BY <1>1, <1>2, <1>3, <1>4, <1>5 DEF IInv

\* The table and its history stay as they are.
LEMMA Untouched ==
    ASSUME IInv, Queues', UNCHANGED <<table, stray, starts, stopped, outlived>>,
           sup'.phase = "look" => sup.phase = "look"
    PROVE  IInv' /\ StaysStopped
<1>1. /\ table \in [Names -> Entry] /\ stray \in [Names -> Nat] /\ starts \in [Names -> Seq(Nat)]
      /\ stopped \subseteq Names /\ outlived \subseteq Names
  BY DEF IInv, TypeOK
<1>2. ASSUME NEW n \in Names
      PROVE  /\ stray[n] > 0 => n \in outlived
             /\ n \in stopped /\ table[n].known => table[n].manual /\ ~table[n].armed
             /\ Made(starts[n]) /\ Budgeted(table[n], n, starts[n])
             /\ sup.phase = "look" /\ table[n].armed => table[n].wait > 0
             /\ stray[n] <= stray[n]
  BY <1>1 DEF IInv, NoStrays, StopsMarked, BudgetInv, NothingDue
<1> QED BY <1>1, <1>2, NameByName

\* One entry becomes q, its restarts s; k processes of that name have no entry.
LEMMA OneEntry ==
    ASSUME IInv, Queues', sup'.phase # "look",
           NEW n \in Names, NEW q \in Entry, NEW s \in Seq(Nat), NEW k \in Nat,
           table' = [table EXCEPT ![n] = q], starts' = [starts EXCEPT ![n] = s],
           stray' = [stray EXCEPT ![n] = k],
           stopped' \subseteq Names, \A m \in Names \ {n} : m \in stopped' => m \in stopped,
           outlived' \subseteq Names, outlived \subseteq outlived', k > 0 => n \in outlived',
           n \in stopped' /\ q.known => q.manual /\ ~q.armed,
           Made(s), Budgeted(q, n, s),
           n \in stopped /\ n \in stopped' =>
              \/ k <= stray[n] /\ (Alive(q) => Alive(table[n]))
              \/ k <= stray[n] + 1 /\ Alive(table[n]) /\ ~Alive(q)
    PROVE  IInv' /\ StaysStopped
<1>1. /\ table \in [Names -> Entry] /\ stray \in [Names -> Nat] /\ starts \in [Names -> Seq(Nat)]
      /\ stopped \subseteq Names /\ outlived \subseteq Names
  BY DEF IInv, TypeOK
<1>2. /\ table' \in [Names -> Entry] /\ table'[n] = q
      /\ stray' \in [Names -> Nat] /\ stray'[n] = k
      /\ starts' \in [Names -> Seq(Nat)] /\ starts'[n] = s
      /\ \A m \in Names \ {n} : table'[m] = table[m] /\ stray'[m] = stray[m] /\ starts'[m] = starts[m]
  BY <1>1
<1>3. ASSUME NEW m \in Names \ {n}
      PROVE  /\ stray[m] > 0 => m \in outlived
             /\ m \in stopped /\ table[m].known => table[m].manual /\ ~table[m].armed
             /\ Made(starts[m]) /\ Budgeted(table[m], m, starts[m])
             /\ stray[m] <= stray[m]
  BY <1>1 DEF IInv, NoStrays, StopsMarked, BudgetInv
<1> QED BY <1>1, <1>2, <1>3, NameByName

-------------------------------------------------------------------------------
LEMMA AddStep ==
    ASSUME IInv, Queues', sup'.phase # "look", NEW c \in Command,
           NEW prompt \in BOOLEAN, NEW spawned \in BOOLEAN, AddProcess(c, prompt, spawned)
    PROVE  IInv' /\ StaysStopped
<1>1. PICK n \in Names : n = c.name
  BY CommandIs
<1>2. /\ table \in [Names -> Entry] /\ stray \in [Names -> Nat] /\ starts \in [Names -> Seq(Nat)]
      /\ stopped \subseteq Names /\ outlived \subseteq Names /\ (stray[n] > 0 => n \in outlived)
  BY DEF IInv, TypeOK, NoStrays
<1>3. PICK q \in Entry : Budgeted(q, n, <<>>) /\ table' = [table EXCEPT ![n] = q]
  <2>1. CASE c.auto
    BY <1>1, <2>1, NewBudget DEF AddProcess
  <2>2. CASE ~c.auto
    BY <1>1, <2>2, NewBudget, NewEntry DEF AddProcess
  <2> QED BY <2>1, <2>2, CommandIs
<1>4. PICK k \in Nat : /\ stray' = [stray EXCEPT ![n] = k] /\ (k > 0 => n \in outlived')
                       /\ outlived' \subseteq Names /\ outlived \subseteq outlived'
  <2>1. CASE Alive(table[n]) /\ ~prompt
    <3>1. stray[n] + 1 \in Nat /\ stray' = [stray EXCEPT ![n] = stray[n] + 1] /\ outlived' = outlived \cup {n}
      BY <1>1, <1>2, <2>1 DEF AddProcess, Dropped
    <3> QED BY <1>2, <3>1
  <2>2. CASE ~(Alive(table[n]) /\ ~prompt)
    <3>1. stray' = [stray EXCEPT ![n] = stray[n]] /\ outlived' = outlived
      BY <1>1, <1>2, <2>2 DEF AddProcess, Dropped
    <3> QED BY <1>2, <3>1
  <2> QED BY <2>1, <2>2
<1>5. starts' = [starts EXCEPT ![n] = <<>>] /\ stopped' = stopped \ {n}
  BY <1>1 DEF AddProcess
<1> QED BY <1>2, <1>3, <1>4, <1>5, NoneMade, OneEntry

LEMMA RemoveStep ==
    ASSUME IInv, Queues', sup'.phase # "look", NEW c \in Command,
           NEW prompt \in BOOLEAN, RemoveProcess(c, prompt)
    PROVE  IInv' /\ StaysStopped
<1>1. PICK n \in Names : n = c.name
  BY CommandIs
<1>2. /\ table \in [Names -> Entry] /\ stray \in [Names -> Nat] /\ starts \in [Names -> Seq(Nat)]
      /\ stopped \subseteq Names /\ outlived \subseteq Names /\ (stray[n] > 0 => n \in outlived)
      /\ starts[n] \in Seq(Nat) /\ Made(starts[n])
  BY DEF IInv, TypeOK, NoStrays, BudgetInv
<1>3. PICK q \in Entry : /\ Budgeted(q, n, starts[n]) /\ table' = [table EXCEPT ![n] = q]
                         /\ ~q.known /\ ~Alive(q)
  BY <1>1, NewBudget, NewEntry DEF RemoveProcess
<1>4. PICK k \in Nat : /\ stray' = [stray EXCEPT ![n] = k] /\ (k > 0 => n \in outlived')
                       /\ outlived' \subseteq Names /\ outlived \subseteq outlived'
                       /\ (k <= stray[n] \/ (k <= stray[n] + 1 /\ Alive(table[n])))
  <2>1. CASE Alive(table[n]) /\ ~prompt
    <3>1. /\ stray[n] + 1 \in Nat /\ stray' = [stray EXCEPT ![n] = stray[n] + 1]
          /\ outlived' = outlived \cup {n} /\ stray[n] + 1 <= stray[n] + 1
      BY <1>1, <1>2, <2>1 DEF RemoveProcess, Dropped
    <3> QED BY <1>2, <2>1, <3>1
  <2>2. CASE ~(Alive(table[n]) /\ ~prompt)
    <3>1. stray' = [stray EXCEPT ![n] = stray[n]] /\ outlived' = outlived
      BY <1>1, <1>2, <2>2 DEF RemoveProcess, Dropped
    <3>2. stray[n] \in Nat /\ stray[n] <= stray[n]
      BY <1>2
    <3> QED BY <1>2, <3>1, <3>2
  <2> QED BY <2>1, <2>2
<1>5. starts' = [starts EXCEPT ![n] = starts[n]] /\ stopped' = stopped \cup {n}
  BY <1>1, <1>2 DEF RemoveProcess
<1> QED BY <1>2, <1>3, <1>4, <1>5, OneEntry

LEMMA StopStep ==
    ASSUME IInv, Queues', sup'.phase # "look", NEW c \in Command,
           NEW prompt \in BOOLEAN, StopProcess(c, prompt)
    PROVE  IInv' /\ StaysStopped
<1>1. PICK n \in Names : n = c.name
  BY CommandIs
<1>2. /\ table \in [Names -> Entry] /\ stray \in [Names -> Nat] /\ starts \in [Names -> Seq(Nat)]
      /\ stopped \subseteq Names /\ outlived \subseteq Names /\ (stray[n] > 0 => n \in outlived)
      /\ starts[n] \in Seq(Nat) /\ Made(starts[n]) /\ Budgeted(table[n], n, starts[n])
  BY DEF IInv, TypeOK, NoStrays, BudgetInv
<1>3. PICK q \in Entry : /\ Budgeted(q, n, starts[n]) /\ table' = [table EXCEPT ![n] = q]
                         /\ (q.known => q.manual /\ ~q.armed) /\ (Alive(q) => Alive(table[n]))
  <2>1. CASE table[n].known
    <3>1. table' = [table EXCEPT ![n] = stop_one(table[n], prompt)]
      BY <1>1, <2>1 DEF StopProcess
    <3> QED BY <1>2, <3>1, StopOne, StopBudget
  <2>2. CASE ~table[n].known
    <3>1. table' = [table EXCEPT ![n] = table[n]] /\ table[n] \in Entry
      BY <1>1, <1>2, <2>2 DEF StopProcess
    <3> QED BY <1>2, <2>2, <3>1
  <2> QED BY <2>1, <2>2
<1>4. /\ stray' = [stray EXCEPT ![n] = stray[n]] /\ outlived' = outlived
      /\ stray[n] \in Nat /\ stray[n] <= stray[n]
      /\ starts' = [starts EXCEPT ![n] = starts[n]] /\ stopped' = stopped \cup {n}
  BY <1>1, <1>2 DEF StopProcess
<1> QED BY <1>2, <1>3, <1>4, OneEntry

LEMMA StartStep ==
    ASSUME IInv, Queues', sup'.phase # "look", NEW c \in Command,
           NEW spawned \in BOOLEAN, StartProcess(c, spawned)
    PROVE  IInv' /\ StaysStopped
<1>1. PICK n \in Names : n = c.name
  BY CommandIs
<1>2. /\ table \in [Names -> Entry] /\ stray \in [Names -> Nat] /\ starts \in [Names -> Seq(Nat)]
      /\ stopped \subseteq Names /\ outlived \subseteq Names /\ (stray[n] > 0 => n \in outlived)
      /\ table[n] \in Entry
      /\ starts[n] \in Seq(Nat) /\ Made(starts[n]) /\ Budgeted(table[n], n, starts[n])
  BY DEF IInv, TypeOK, NoStrays, BudgetInv
<1>3. CASE table[n].known /\ table[n].child = "none"
  <2>1. /\ table' = [table EXCEPT ![n] = attempt_start(table[n], n, spawned)]
        /\ stopped' = stopped \ {n} /\ outlived' = outlived
        /\ stray' = [stray EXCEPT ![n] = stray[n]] /\ stray[n] \in Nat
        /\ starts' = [starts EXCEPT ![n] = starts[n]]
    BY <1>1, <1>2, <1>3 DEF StartProcess
  <2>2. PICK q \in Entry : Budgeted(q, n, starts[n]) /\ q = attempt_start(table[n], n, spawned)
    <3>1. n \in Oneshot => ~table[n].armed
      BY <1>2 DEF Budgeted
    <3>2. Descending(table[n].history) /\ Backed(table[n].history, Len(table[n].history), starts[n])
      BY <1>2, <1>3, Disarmed
    <3> QED BY <1>2, <1>3, <3>1, <3>2, StartBudget, AttemptStart
  <2> QED BY <1>2, <2>1, <2>2, OneEntry
<1>4. CASE ~(table[n].known /\ table[n].child = "none")
  <2>1. UNCHANGED <<table, stray, starts, stopped, outlived>>
    BY <1>1, <1>4 DEF StartProcess
  <2> QED BY <2>1, Untouched
<1> QED BY <1>3, <1>4

LEMMA ApplyStep == ASSUME IInv, apply_control PROVE IInv' /\ StaysStopped
<1>1. /\ sup \in [phase : {"down", "boot", "drain", "apply", "look", "stopping"}, todo : Seq(Command)]
      /\ sup.phase = "apply" /\ sup.todo \in Seq(Command) /\ sup.todo # <<>>
  BY DEF apply_control, IInv, TypeOK
<1>2. PICK c \in Command : c = Head(sup.todo)
  BY <1>1
<1>3. Tail(sup.todo) \in Seq(Command)
  BY <1>1
<1>4. sup' = [sup EXCEPT !.todo = Tail(sup.todo)] /\ UNCHANGED <<control, snapshot, web>>
  BY DEF apply_control
<1>5. Queues' /\ sup'.phase # "look"
  BY <1>1, <1>3, <1>4 DEF Queues, IInv, TypeOK
<1>6. PICK prompt \in BOOLEAN, spawned \in BOOLEAN :
         CASE c.op = "add" -> AddProcess(c, prompt, spawned)
           [] c.op = "start" -> prompt /\ StartProcess(c, spawned)
           [] c.op = "stop" -> spawned /\ StopProcess(c, prompt)
           [] c.op = "remove" -> spawned /\ RemoveProcess(c, prompt)
  BY <1>2 DEF apply_control
<1>7. \/ AddProcess(c, prompt, spawned) \/ StartProcess(c, spawned)
      \/ StopProcess(c, prompt) \/ RemoveProcess(c, prompt)
  BY <1>6, CommandIs
<1> QED BY <1>5, <1>7, AddStep, StartStep, StopStep, RemoveStep

-------------------------------------------------------------------------------
LEMMA PollStep == ASSUME IInv, poll_processes PROVE IInv' /\ StaysStopped
<1>1. /\ table \in [Names -> Entry] /\ stray \in [Names -> Nat] /\ starts \in [Names -> Seq(Nat)]
      /\ stopped \subseteq Names /\ outlived \subseteq Names
      /\ sup \in [phase : {"down", "boot", "drain", "apply", "look", "stopping"}, todo : Seq(Command)]
  BY DEF IInv, TypeOK
<1>2. PICK fails : table' = [n \in Names |-> IF table[n].known
                                             THEN poll_process(table[n], n, n \notin fails) ELSE table[n]]
  BY DEF poll_processes
<1>3. /\ starts' = [n \in Names |-> IF table[n].known /\ RestartDue(table[n], n)
                                    THEN Append(starts[n], 0) ELSE starts[n]]
      /\ snapshot' = Known /\ sup' = [sup EXCEPT !.phase = "look"]
      /\ UNCHANGED <<stray, control, web, stopped, outlived>>
  BY DEF poll_processes
<1>4. Queues'
  BY <1>1, <1>3 DEF Queues, IInv, TypeOK, Known
<1>5. ASSUME NEW n \in Names
      PROVE  /\ stray[n] > 0 => n \in outlived
             /\ table[n] \in Entry /\ starts[n] \in Seq(Nat) /\ stray[n] <= stray[n]
             /\ n \in stopped /\ table[n].known => table[n].manual /\ ~table[n].armed
             /\ Made(starts[n]) /\ Budgeted(table[n], n, starts[n])
  BY <1>1 DEF IInv, NoStrays, StopsMarked, BudgetInv
<1>6. ASSUME NEW n \in Names, table[n].known
      PROVE  /\ table'[n] \in Entry /\ table'[n].known
             /\ n \in stopped => /\ table'[n].manual /\ ~table'[n].armed
                                 /\ Alive(table'[n]) => Alive(table[n])
             /\ starts'[n] \in Seq(Nat) /\ Made(starts'[n]) /\ Budgeted(table'[n], n, starts'[n])
             /\ table'[n].armed => table'[n].wait > 0
  <2>1. PICK spawned \in BOOLEAN : table'[n] = poll_process(table[n], n, spawned)
    BY <1>2, <1>6
  <2>2. starts'[n] = Polled(table[n], n, starts[n])
    BY <1>3, <1>6 DEF Polled
  <2> QED BY <1>5, <1>6, <2>1, <2>2, PollProcess, PollBudget, SMTT(30)
<1>7. ASSUME NEW n \in Names, ~table[n].known
      PROVE  table'[n] = table[n] /\ starts'[n] = starts[n] /\ ~table[n].armed
  BY <1>2, <1>3, <1>5, <1>7 DEF Budgeted
<1>8. table' \in [Names -> Entry] /\ starts' \in [Names -> Seq(Nat)]
  BY <1>2, <1>3, <1>5, <1>6, <1>7
<1> QED BY <1>1, <1>3, <1>4, <1>5, <1>6, <1>7, <1>8, NameByName

LEMMA SleepStep == ASSUME IInv, Sleep PROVE IInv' /\ StaysStopped
<1>1. /\ table \in [Names -> Entry] /\ stray \in [Names -> Nat] /\ starts \in [Names -> Seq(Nat)]
      /\ stopped \subseteq Names /\ outlived \subseteq Names
      /\ sup \in [phase : {"down", "boot", "drain", "apply", "look", "stopping"}, todo : Seq(Command)]
  BY DEF IInv, TypeOK
<1>2. /\ table' = [n \in Names |-> Slept(table[n])]
      /\ starts' = [n \in Names |-> Recent(Older(starts[n]))]
      /\ sup.phase = "look" /\ sup' = [sup EXCEPT !.phase = "drain"]
      /\ UNCHANGED <<stray, control, snapshot, web, stopped, outlived>>
  BY DEF Sleep, Slept
<1>3. Queues' /\ sup'.phase # "look"
  BY <1>1, <1>2 DEF Queues, IInv, TypeOK
<1>4. ASSUME NEW n \in Names
      PROVE  /\ stray[n] > 0 => n \in outlived
             /\ table[n] \in Entry /\ starts[n] \in Seq(Nat) /\ stray[n] <= stray[n]
             /\ n \in stopped /\ table[n].known => table[n].manual /\ ~table[n].armed
             /\ Made(starts[n]) /\ Budgeted(table[n], n, starts[n])
             /\ table[n].armed => table[n].wait > 0
  BY <1>1, <1>2 DEF IInv, NoStrays, StopsMarked, BudgetInv, NothingDue
<1>5. ASSUME NEW n \in Names
      PROVE  /\ table'[n] \in Entry /\ table'[n].known = table[n].known
             /\ table'[n].child = table[n].child
             /\ table'[n].manual = table[n].manual /\ table'[n].armed = table[n].armed
             /\ starts'[n] \in Seq(Nat) /\ Made(starts'[n]) /\ Budgeted(table'[n], n, starts'[n])
  BY <1>2, <1>4, SleepBudget
<1>6. table' \in [Names -> Entry] /\ starts' \in [Names -> Seq(Nat)]
  BY <1>2, <1>5
<1>7. \A n \in Names : Alive(table'[n]) => Alive(table[n])
  BY <1>5 DEF Alive
<1> QED BY <1>1, <1>2, <1>3, <1>4, <1>5, <1>6, <1>7, NameByName

\* The configured processes are started afresh.
LEMMA BootStep == ASSUME IInv, run_supervisor PROVE IInv' /\ StaysStopped
<1>1. /\ table \in [Names -> Entry] /\ stray \in [Names -> Nat] /\ starts \in [Names -> Seq(Nat)]
      /\ stopped \subseteq Names /\ outlived \subseteq Names
      /\ sup \in [phase : {"down", "boot", "drain", "apply", "look", "stopping"}, todo : Seq(Command)]
  BY DEF IInv, TypeOK
<1>2. PICK spawned \in BOOLEAN :
         table' = [n \in Names |->
                      IF n \in Autostart THEN attempt_start(build_one_process, n, spawned)
                      ELSE IF n \in Configured THEN build_one_process ELSE NoEntry]
  BY DEF run_supervisor
<1>3. /\ starts' = [n \in Names |-> <<>>] /\ stopped' = {} /\ control' = <<>>
      /\ sup' = [phase |-> "drain", todo |-> <<>>]
      /\ UNCHANGED <<stray, snapshot, web, outlived>>
  BY DEF run_supervisor
<1>4. Queues' /\ sup'.phase # "look"
  <2>1. <<>> \in Seq(Command)
    OBVIOUS
  <2> QED BY <1>1, <1>3, <2>1 DEF Queues, IInv, TypeOK
<1>5. ASSUME NEW n \in Names
      PROVE  /\ stray[n] > 0 => n \in outlived
             /\ table'[n] \in Entry /\ starts'[n] = <<>>
             /\ Budgeted(table'[n], n, starts'[n])
  BY <1>2, <1>3, NewEntry, NewBudget DEF IInv, NoStrays
<1>6. table' \in [Names -> Entry] /\ starts' \in [Names -> Seq(Nat)]
  BY <1>2, <1>3, <1>5, NoneMade
<1> QED BY <1>1, <1>3, <1>4, <1>5, <1>6, NoneMade, NameByName

\* Nobody is in the table any more.
LEMMA Emptied ==
    ASSUME IInv, Queues', sup'.phase # "look",
           table' = [n \in Names |-> NoEntry], UNCHANGED <<starts, stopped>>,
           stray' \in [Names -> Nat], outlived' \subseteq Names,
           \A n \in Names :
              /\ stray'[n] > 0 => n \in outlived'
              /\ stray'[n] <= stray[n] \/ (stray'[n] <= stray[n] + 1 /\ Alive(table[n]))
    PROVE  IInv' /\ StaysStopped
<1>1. /\ table \in [Names -> Entry] /\ stray \in [Names -> Nat] /\ starts \in [Names -> Seq(Nat)]
      /\ stopped \subseteq Names /\ outlived \subseteq Names
      /\ sup \in [phase : {"down", "boot", "drain", "apply", "look", "stopping"}, todo : Seq(Command)]
  BY DEF IInv, TypeOK
<1>2. ASSUME NEW n \in Names
      PROVE  /\ table'[n] \in Entry /\ ~table'[n].known /\ ~table'[n].armed /\ ~Alive(table'[n])
             /\ starts'[n] = starts[n] /\ Made(starts[n]) /\ Budgeted(table'[n], n, starts[n])
  BY NewEntry, NewBudget DEF IInv, BudgetInv
<1>3. table' \in [Names -> Entry]
  BY <1>2
<1> QED BY <1>1, <1>2, <1>3, NameByName

LEMMA ReturnStep == ASSUME IInv, run_supervisor_returns PROVE IInv' /\ StaysStopped
<1>1. /\ table \in [Names -> Entry] /\ stray \in [Names -> Nat] /\ starts \in [Names -> Seq(Nat)]
      /\ stopped \subseteq Names /\ outlived \subseteq Names
      /\ sup \in [phase : {"down", "boot", "drain", "apply", "look", "stopping"}, todo : Seq(Command)]
  BY DEF IInv, TypeOK
<1>2. /\ table' = [n \in Names |-> NoEntry] /\ UNCHANGED <<stray, starts, stopped, outlived, control>>
      /\ snapshot' = Known /\ sup' = [phase |-> "down", todo |-> <<>>]
      /\ web' = [web EXCEPT !.sure = FALSE]
  BY DEF run_supervisor_returns, stop_children
<1>3. Queues' /\ sup'.phase # "look"
  <2>1. <<>> \in Seq(Command)
    OBVIOUS
  <2> QED BY <1>1, <1>2, <2>1 DEF Queues, IInv, TypeOK, Known
<1>4. ASSUME NEW n \in Names PROVE (stray[n] > 0 => n \in outlived) /\ stray[n] <= stray[n]
  BY <1>1 DEF IInv, NoStrays
<1> QED BY <1>1, <1>2, <1>3, <1>4, Emptied

LEMMA DeathStep == ASSUME IInv, SupervisorDies PROVE IInv' /\ StaysStopped
<1>1. /\ table \in [Names -> Entry] /\ stray \in [Names -> Nat] /\ starts \in [Names -> Seq(Nat)]
      /\ stopped \subseteq Names /\ outlived \subseteq Names
      /\ sup \in [phase : {"down", "boot", "drain", "apply", "look", "stopping"}, todo : Seq(Command)]
  BY DEF IInv, TypeOK
<1>2. /\ table' = [n \in Names |-> NoEntry] /\ UNCHANGED <<starts, stopped, control, snapshot>>
      /\ stray' = [n \in Names |-> stray[n] + IF Alive(table[n]) THEN 1 ELSE 0]
      /\ outlived' = outlived \cup {n \in Names : Alive(table[n])}
      /\ sup' = [phase |-> "down", todo |-> <<>>]
      /\ web' = [web EXCEPT !.sure = FALSE]
  BY DEF SupervisorDies, Live
<1>3. Queues' /\ sup'.phase # "look"
  <2>1. <<>> \in Seq(Command)
    OBVIOUS
  <2> QED BY <1>1, <1>2, <2>1 DEF Queues, IInv, TypeOK
<1>4. ASSUME NEW n \in Names
      PROVE  /\ stray'[n] \in Nat /\ (stray'[n] > 0 => n \in outlived')
             /\ stray'[n] <= stray[n] \/ (stray'[n] <= stray[n] + 1 /\ Alive(table[n]))
  <2>1. stray[n] \in Nat /\ (stray[n] > 0 => n \in outlived)
    BY <1>1 DEF IInv, NoStrays
  <2>2. CASE Alive(table[n])
    BY <1>2, <2>1, <2>2
  <2>3. CASE ~Alive(table[n])
    BY <1>2, <2>1, <2>3
  <2> QED BY <2>2, <2>3
<1>5. stray' \in [Names -> Nat] /\ outlived' \subseteq Names
  BY <1>1, <1>2, <1>4
<1> QED BY <1>2, <1>3, <1>4, <1>5, Emptied

LEMMA TerminateStep == ASSUME IInv, terminate_children PROVE IInv' /\ StaysStopped
<1>1. /\ table \in [Names -> Entry] /\ stray \in [Names -> Nat] /\ starts \in [Names -> Seq(Nat)]
      /\ stopped \subseteq Names /\ outlived \subseteq Names
      /\ sup \in [phase : {"down", "boot", "drain", "apply", "look", "stopping"}, todo : Seq(Command)]
  BY DEF IInv, TypeOK
<1>2. /\ table' = [n \in Names |-> IF Alive(table[n]) THEN [table[n] EXCEPT !.child = "told"] ELSE table[n]]
      /\ sup' = [sup EXCEPT !.phase = "stopping"]
      /\ UNCHANGED <<stray, control, snapshot, web, starts, stopped, outlived>>
  BY DEF terminate_children
<1>3. Queues' /\ sup'.phase # "look"
  BY <1>1, <1>2 DEF Queues, IInv, TypeOK
<1>4. ASSUME NEW n \in Names
      PROVE  /\ stray[n] > 0 => n \in outlived
             /\ table[n] \in Entry /\ starts[n] \in Seq(Nat) /\ stray[n] \in Nat /\ stray[n] <= stray[n]
             /\ n \in stopped /\ table[n].known => table[n].manual /\ ~table[n].armed
             /\ Made(starts[n]) /\ Budgeted(table[n], n, starts[n])
  BY <1>1 DEF IInv, NoStrays, StopsMarked, BudgetInv
<1>5. ASSUME NEW n \in Names
      PROVE  /\ table'[n] \in Entry /\ table'[n].known = table[n].known
             /\ table'[n].manual = table[n].manual /\ table'[n].armed = table[n].armed
             /\ Alive(table'[n]) => Alive(table[n])
             /\ Budgeted(table'[n], n, starts[n])
  <2>1. CASE Alive(table[n])
    <3>1. /\ table'[n] \in Entry /\ table'[n].known = table[n].known
          /\ table'[n].manual = table[n].manual /\ table'[n].armed = table[n].armed
          /\ table'[n].history = table[n].history
      BY <1>2, <1>4, <2>1 DEF Entry
    <3>2. ~table[n].armed
      BY <1>4, <2>1 DEF Budgeted, Alive
    <3> QED BY <1>4, <2>1, <3>1, <3>2, Unarmed
  <2>2. CASE ~Alive(table[n])
    BY <1>2, <1>4, <2>2
  <2> QED BY <2>1, <2>2
<1>6. table' \in [Names -> Entry]
  BY <1>2, <1>5
<1> QED BY <1>1, <1>2, <1>3, <1>4, <1>5, <1>6, NameByName

LEMMA EndStep ==
    ASSUME IInv, NEW m \in Names, NEW how \in {"ok", "bad"}, ProcessEnds(m, how)
    PROVE  IInv' /\ StaysStopped
<1>1. /\ table \in [Names -> Entry] /\ stray \in [Names -> Nat] /\ starts \in [Names -> Seq(Nat)]
      /\ stopped \subseteq Names /\ outlived \subseteq Names
      /\ sup \in [phase : {"down", "boot", "drain", "apply", "look", "stopping"}, todo : Seq(Command)]
  BY DEF IInv, TypeOK
<1>2. /\ Alive(table[m]) /\ table' = [table EXCEPT ![m].child = how]
      /\ UNCHANGED <<stray, sup, control, snapshot, web, starts, stopped, outlived>>
  BY DEF ProcessEnds
<1>3. Queues'
  BY <1>1, <1>2 DEF Queues, IInv, TypeOK
<1>4. ASSUME NEW n \in Names
      PROVE  /\ stray[n] > 0 => n \in outlived
             /\ table[n] \in Entry /\ starts[n] \in Seq(Nat) /\ stray[n] \in Nat /\ stray[n] <= stray[n]
             /\ n \in stopped /\ table[n].known => table[n].manual /\ ~table[n].armed
             /\ Made(starts[n]) /\ Budgeted(table[n], n, starts[n])
             /\ sup.phase = "look" /\ table[n].armed => table[n].wait > 0
  BY <1>1 DEF IInv, NoStrays, StopsMarked, BudgetInv, NothingDue
<1>5. PICK q : q = [table[m] EXCEPT !.child = how]
  OBVIOUS
<1>6. /\ q \in Entry /\ q.known = table[m].known /\ q.manual = table[m].manual
      /\ q.armed = table[m].armed /\ q.history = table[m].history /\ ~Alive(q)
  BY <1>4, <1>5 DEF Entry, Alive
<1>7. table' = [table EXCEPT ![m] = q]
  BY <1>1, <1>2, <1>5
<1>8. ~table[m].armed
  BY <1>2, <1>4 DEF Budgeted, Alive
<1>9. Budgeted(q, m, starts[m])
  BY <1>4, <1>6, <1>8, Unarmed
<1>10. table' \in [Names -> Entry] /\ table'[m] = q /\ \A n \in Names \ {m} : table'[n] = table[n]
  BY <1>1, <1>6, <1>7
<1> QED BY <1>1, <1>2, <1>3, <1>4, <1>6, <1>8, <1>9, <1>10, NameByName

LEMMA StrayStep == ASSUME IInv, NEW m \in Names, StrayEnds(m) PROVE IInv' /\ StaysStopped
<1>1. /\ table \in [Names -> Entry] /\ stray \in [Names -> Nat] /\ starts \in [Names -> Seq(Nat)]
      /\ stopped \subseteq Names /\ outlived \subseteq Names
      /\ sup \in [phase : {"down", "boot", "drain", "apply", "look", "stopping"}, todo : Seq(Command)]
  BY DEF IInv, TypeOK
<1>2. /\ stray[m] > 0 /\ stray' = [stray EXCEPT ![m] = stray[m] - 1]
      /\ UNCHANGED <<table, sup, control, snapshot, web, starts, stopped, outlived>>
  BY DEF StrayEnds
<1>3. Queues'
  BY <1>1, <1>2 DEF Queues, IInv, TypeOK
<1>4. ASSUME NEW n \in Names
      PROVE  /\ stray[n] > 0 => n \in outlived
             /\ table[n] \in Entry /\ starts[n] \in Seq(Nat) /\ stray[n] \in Nat /\ stray[n] <= stray[n]
             /\ n \in stopped /\ table[n].known => table[n].manual /\ ~table[n].armed
             /\ Made(starts[n]) /\ Budgeted(table[n], n, starts[n])
             /\ sup.phase = "look" /\ table[n].armed => table[n].wait > 0
  BY <1>1 DEF IInv, NoStrays, StopsMarked, BudgetInv, NothingDue
<1>5. stray[m] - 1 \in Nat /\ stray[m] - 1 <= stray[m] /\ m \in outlived
  BY <1>2, <1>4
<1>6. stray' \in [Names -> Nat] /\ stray'[m] <= stray[m] /\ \A n \in Names \ {m} : stray'[n] = stray[n]
  BY <1>1, <1>2, <1>5
<1> QED BY <1>1, <1>2, <1>3, <1>4, <1>5, <1>6, NameByName

-------------------------------------------------------------------------------
(***************************************************************************)
(* What the provisioner enqueues are commands.                             *)
(***************************************************************************)
LEMMA SetToSeqType == ASSUME NEW S, IsFiniteSet(S) PROVE SetToSeq(S) \in Seq(S)
<1>1. Cardinality(S) \in Nat /\ ExistsBijection(1..Cardinality(S), S)
  BY FS_CardinalityType
<1>2. \E f \in [1..Cardinality(S) -> S] : IsInjective(f)
  BY <1>1 DEF ExistsBijection, Bijection, Injection
<1>3. SetToSeq(S) \in [1..Cardinality(S) -> S]
  BY <1>2 DEF SetToSeq
<1> QED BY <1>1, <1>3

LEMMA CommandsFor ==
    ASSUME NEW N \in SUBSET Nodes, NEW op \in {"add", "remove"}, NEW auto \in BOOLEAN,
           auto => op = "add"
    PROVE  SetToSeq({Cmd(op, n, auto) : n \in N}) \in Seq(Command)
<1> DEFINE S == {Cmd(op, n, auto) : n \in N}
           f == [n \in N |-> Cmd(op, n, auto)]
<1>1. IsFiniteSet(N)
  <2>1. N \in SUBSET (Configured \cup Nodes)
    OBVIOUS
  <2> QED BY <2>1, NamesAssumption, FS_Subset
<1>2. f \in Surjection(N, S)
  BY DEF Surjection
<1>3. IsFiniteSet(S)
  <2> HIDE DEF S, f
  <2> QED BY <1>1, <1>2, FS_Surjection
<1>4. S \subseteq Command
  BY DEF Command, Cmd, Names
<1>5. SetToSeq(S) \in Seq(S)
  <2> HIDE DEF S
  <2> QED BY <1>3, SetToSeqType
<1>6. PICK q \in Seq(S) : q = SetToSeq(S)
  BY <1>5
<1>7. q \in Seq(Command)
  <2> HIDE DEF S
  <2> QED BY <1>4
<1> QED BY <1>6, <1>7

LEMMA ScaleStep ==
    ASSUME IInv, NEW desired, scale(desired)
    PROVE  IInv' /\ StaysStopped
<1>1. UNCHANGED <<table, stray, sup, control, snapshot, starts, stopped, outlived>>
  BY DEF scale
<1>2. web'.todo \in Seq(Command) /\ DOMAIN web' = {"todo", "desired", "sure"}
  <2> DEFINE current == snapshot \cap Nodes
             fresh == {n \in Nodes : stray[n] = 0} \ (current \cup Known \cup {c.name : c \in ToSet(control \o sup.todo)})
  <2>1. CASE desired > Cardinality(current)
    <3>1. PICK new \in SUBSET fresh : web' = [todo |-> SetToSeq({Cmd("add", n, TRUE) : n \in new}),
                                              desired |-> desired, sure |-> Truthful]
      BY <2>1 DEF scale
    <3>2. new \in SUBSET Nodes
      OBVIOUS
    <3>3. SetToSeq({Cmd("add", n, TRUE) : n \in new}) \in Seq(Command)
      BY <3>2, CommandsFor
    <3> QED BY <3>1, <3>3
  <2>2. CASE ~(desired > Cardinality(current))
    <3>1. PICK old \in SUBSET current : web' = [todo |-> SetToSeq({Cmd("remove", n, FALSE) : n \in old}),
                                                desired |-> desired, sure |-> Truthful]
      BY <2>2 DEF scale
    <3>2. old \in SUBSET Nodes
      OBVIOUS
    <3>3. SetToSeq({Cmd("remove", n, FALSE) : n \in old}) \in Seq(Command)
      BY <3>2, CommandsFor
    <3> QED BY <3>1, <3>3
  <2> QED BY <2>1, <2>2
<1>3. Queues'
  BY <1>1, <1>2 DEF Queues, IInv, TypeOK
<1> QED BY <1>1, <1>3, Untouched

LEMMA EnqueueStep == ASSUME IInv, enqueue PROVE IInv' /\ StaysStopped
<1>1. /\ UNCHANGED <<table, stray, sup, snapshot, starts, stopped, outlived>>
      /\ web.todo # <<>> /\ control' = Append(control, Head(web.todo))
      /\ web' = [web EXCEPT !.todo = Tail(web.todo)]
  BY DEF enqueue
<1>2. control \in Seq(Command) /\ web.todo \in Seq(Command) /\ DOMAIN web = {"todo", "desired", "sure"}
  BY DEF IInv, TypeOK
<1>3. Head(web.todo) \in Command /\ Tail(web.todo) \in Seq(Command)
  BY <1>1, <1>2
<1>4. control' \in Seq(Command)
  BY <1>1, <1>2, <1>3
<1>5. web'.todo \in Seq(Command) /\ DOMAIN web' = {"todo", "desired", "sure"}
  BY <1>1, <1>2, <1>3
<1>6. Queues'
  BY <1>1, <1>4, <1>5 DEF Queues, IInv, TypeOK
<1> QED BY <1>1, <1>6, Untouched

LEMMA CommandStep ==
    ASSUME IInv, NEW c \in Command, run_process_command(c)
    PROVE  IInv' /\ StaysStopped
<1>1. /\ UNCHANGED <<table, stray, sup, snapshot, starts, stopped, outlived>>
      /\ control' = Append(control, c)
      /\ web' = web \/ web' = [web EXCEPT !.sure = FALSE]
  BY DEF run_process_command
<1>2. control \in Seq(Command) /\ web.todo \in Seq(Command) /\ DOMAIN web = {"todo", "desired", "sure"}
  BY DEF IInv, TypeOK
<1>3. control' \in Seq(Command) /\ web'.todo \in Seq(Command) /\ DOMAIN web' = {"todo", "desired", "sure"}
  BY <1>1, <1>2
<1>4. Queues'
  BY <1>1, <1>3 DEF Queues, IInv, TypeOK
<1> QED BY <1>1, <1>4, Untouched

LEMMA DrainStep == ASSUME IInv, drain PROVE IInv' /\ StaysStopped
<1>1. /\ UNCHANGED <<table, stray, snapshot, starts, stopped, outlived, web>>
      /\ control' = <<>> /\ sup' = [phase |-> "apply", todo |-> control]
  BY DEF drain
<1>2. Queues' /\ sup'.phase # "look"
  BY <1>1 DEF Queues, IInv, TypeOK
<1> QED BY <1>1, <1>2, Untouched

\* The command line starts and stops the supervisor.
LEMMA ClientStep ==
    ASSUME IInv, \/ start_daemon \/ start_daemon_returns
                 \/ stop_supervisor \/ stop_supervisor_returns
    PROVE  IInv' /\ StaysStopped
<1>1. /\ UNCHANGED <<table, stray, control, snapshot, starts, stopped, outlived>>
      /\ web' = web \/ web' = [web EXCEPT !.sure = FALSE]
      /\ sup' = sup \/ sup' = [phase |-> "boot", todo |-> <<>>]
  BY DEF start_daemon, start_daemon_returns, stop_supervisor, stop_supervisor_returns
<1>2. web.todo \in Seq(Command) /\ DOMAIN web = {"todo", "desired", "sure"}
  BY DEF IInv, TypeOK
<1>3. web'.todo \in Seq(Command) /\ DOMAIN web' = {"todo", "desired", "sure"}
  BY <1>1, <1>2
<1>4. <<>> \in Seq(Command)
  OBVIOUS
<1>5. /\ sup' \in [phase : {"down", "boot", "drain", "apply", "look", "stopping"}, todo : Seq(Command)]
      /\ sup'.phase = "look" => sup.phase = "look"
  <2>1. CASE sup' = sup
    BY <2>1 DEF IInv, TypeOK
  <2>2. CASE sup' = [phase |-> "boot", todo |-> <<>>]
    BY <1>4, <2>2
  <2> QED BY <1>1, <2>1, <2>2
<1>6. Queues'
  BY <1>1, <1>3, <1>5 DEF Queues, IInv, TypeOK
<1> QED BY <1>1, <1>5, <1>6, Untouched

LEMMA StepIInv == IInv /\ [Next]_vars => IInv' /\ StaysStopped
<1> SUFFICES ASSUME IInv, [Next]_vars PROVE IInv' /\ StaysStopped
  OBVIOUS
<1>1. CASE UNCHANGED vars
  <2>1. UNCHANGED <<table, stray, sup, control, snapshot, web, starts, stopped, outlived>>
    BY <1>1 DEF vars
  <2>2. Queues'
    BY <2>1 DEF Queues, IInv, TypeOK
  <2> QED BY <2>1, <2>2, Untouched
<1>2. CASE Loop
  BY <1>2, BootStep, DrainStep, ApplyStep, PollStep, SleepStep, TerminateStep, ReturnStep DEF Loop
<1>3. CASE start_daemon \/ start_daemon_returns \/ stop_supervisor \/ stop_supervisor_returns
  BY <1>3, ClientStep
<1>4. CASE \E n \in Names, how \in {"ok", "bad"} : ProcessEnds(n, how)
  BY <1>4, EndStep
<1>5. CASE \E n \in Names : StrayEnds(n)
  BY <1>5, StrayStep
<1>6. CASE \E c \in Command : run_process_command(c)
  BY <1>6, CommandStep
<1>7. CASE \E desired \in 0..Cardinality(Nodes) : scale(desired)
  BY <1>7, ScaleStep
<1> QED BY <1>1, <1>2, <1>3, <1>4, <1>5, <1>6, <1>7, DeathStep, EnqueueStep DEF Next

LEMMA Invariance == Spec => []IInv
<1>1. IInv /\ [Next]_vars => IInv'
  BY StepIInv
<1> QED BY <1>1, InitIInv, PTL DEF Spec

-------------------------------------------------------------------------------
(***************************************************************************)
(* The theorems.                                                           *)
(***************************************************************************)
\* The supervisor's table, its queues and what is remembered of them have their types.
THEOREM TypeCorrect == Spec => []TypeOK
<1>1. IInv => TypeOK
  BY DEF IInv
<1> QED BY <1>1, Invariance, PTL

\* A name has one process, and a process an entry of a running supervisor, unless it
\* outlived a removal, a replacement or the supervisor (apply_control, stop_one).
THEOREM OneProcessPerName == Spec => []NoStrays
<1>1. IInv => NoStrays
  BY DEF IInv
<1> QED BY <1>1, Invariance, PTL

\* No process is restarted automatically more than max_restarts_per_minute times in the
\* window, whatever the budget, the window and the delay (schedule_restart, poll_process).
THEOREM WithinBudget == Spec => []RestartBudget
<1>1. IInv => RestartBudget
  BY DEF IInv, BudgetInv, Made, RestartBudget
<1> QED BY <1>1, Invariance, PTL

\* Between a command that stopped a process and one that starts it, no process appears
\* under its name: no poll restarts it, however it ends (handle_exit, poll_process).
THEOREM StoppedStaysStopped == Spec => StopHolds
<1>1. IInv /\ [Next]_vars => [StaysStopped]_vars
  BY StepIInv
<1> QED BY <1>1, Invariance, PTL DEF Spec, StopHolds, StaysStopped

===============================================================================
