-------------------------------- MODULE MCReducer --------------------------------
(* Instances of Reducer: every kind, with and without a timeout, alone where its *)
(* runs do not meet, two or three runs where they do, two items for a map.       *)
EXTENDS Reducer

S(kind, timed, parties) ==
    [kind |-> kind, timed |-> timed, attempts |-> 1, body |-> "none",
     parties |-> parties, items |-> 2, width |-> 2, trouble |-> 1]

Parks == {S(k, t, 1) : k \in {"wait", "debounce", "signal", "approval", "input", "gate",
                              "await_run", "event_source", "collect"},
                       t \in BOOLEAN}
Retried == {[S(k, TRUE, 1) EXCEPT !.attempts = 2] : k \in {"signal", "gate", "debounce"}}
Meets == {S("barrier", FALSE, 2), S("barrier", TRUE, 2), S("cooldown", FALSE, 2),
          S("throttle", TRUE, 2), [S("throttle", FALSE, 3) EXCEPT !.trouble = 0]}
Parent(kind, timed, body) == [S(kind, timed, 1) EXCEPT !.body = body]
Parents == {Parent("map", FALSE, "plain"),
            [Parent("map", FALSE, "plain") EXCEPT !.width = 1, !.trouble = 0],
            [Parent("map", FALSE, "plain") EXCEPT !.items = 1],
            Parent("subflow", TRUE, "plain"), Parent("subflow", FALSE, "detached"),
            Parent("subflow", FALSE, "reused"), Parent("subflow", FALSE, "parks")}
All == Parks \cup Retried \cup Meets \cup Parents
Parking == {[Parent("map", FALSE, "parks") EXCEPT !.trouble = 0]}
===============================================================================
