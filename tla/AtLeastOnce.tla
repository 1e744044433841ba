------------------------------ MODULE AtLeastOnce ------------------------------
(***************************************************************************)
(* What a deduplicating broker channel promises to its clients, without    *)
(* queues, delivery ids or clocks: a message stays outstanding from the    *)
(* publish that accepted it until the consumer it is leased to settles it; *)
(* at any time it is leased to one consumer at most; a lease may be given  *)
(* back or taken away at any time.                                         *)
(***************************************************************************)
CONSTANTS Keys, Consumers, Eligible

VARIABLES
    outstanding,    \* messages accepted and not settled
    lessee          \* lessee[k]: the set (empty or one) of consumers k is leased to

avars == <<outstanding, lessee>>

Init ==
    /\ outstanding = {}
    /\ lessee = [k \in Keys |-> {}]

\* A new message enters; one that is outstanding cannot enter again.
Accept(k) ==
    /\ k \in Keys \ outstanding
    /\ outstanding' = outstanding \cup {k}
    /\ UNCHANGED lessee

\* Some leases lapse, and then one message nobody holds may be leased to an
\* eligible consumer.
Reassign(lapsed, grant) ==
    /\ lessee' = [k \in Keys |->
                    IF \E g \in grant : g.key = k THEN {g.to : g \in grant}
                    ELSE IF k \in lapsed THEN {} ELSE lessee[k]]
    /\ \A g \in grant : /\ g.key \in outstanding
                        /\ g.to \in Eligible[g.key]
                        /\ lessee[g.key] = {} \/ g.key \in lapsed
    /\ UNCHANGED outstanding

\* The consumer that holds a message settles it.
Settle(k) ==
    /\ k \in outstanding
    /\ lessee[k] # {}
    /\ outstanding' = outstanding \ {k}
    /\ lessee' = [lessee EXCEPT ![k] = {}]

Grants == {{}} \cup {{[key |-> k, to |-> c]} : k \in Keys, c \in Consumers}

Next ==
    \/ \E k \in Keys : Accept(k) \/ Settle(k)
    \/ \E lapsed \in SUBSET Keys, grant \in Grants : Reassign(lapsed, grant)

Spec == Init /\ [][Next]_avars
===============================================================================
