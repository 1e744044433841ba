-------------------------------- MODULE Programs --------------------------------
(***************************************************************************)
(* The structured statements of the workflow language, the graph the       *)
(* compiler lowers them to (runinator-wdl/src/lower: blocks.rs, mod.rs),   *)
(* and what the statements mean, independently of any graph.  ControlFlow  *)
(* executes the graphs.                                                    *)
(*                                                                         *)
(* A statement carries its node id; conditions and data are left out.      *)
(***************************************************************************)
EXTENDS Naturals, Sequences, TLC

None == "none"

-------------------------------------------------------------------------------
(* Statements.                                                             *)

\* An action: `fail -> fail` (or no arrow), and whether it declares `compensate`.
Act(id, arrow, comp) == [op |-> "action", id |-> id, arrow |-> arrow, comp |-> comp]
\* A node that settles inline: output, transform, audit, checkpoint, config; an assert may fail.
Data(id) == [op |-> "data", id |-> id]
Check(id) == [op |-> "assert", id |-> id]
Fail(id) == [op |-> "fail", id |-> id]
If(id, then, else) == [op |-> "if", id |-> id, then |-> then, else |-> else]
Match(id, arms, default) == [op |-> "match", id |-> id, arms |-> arms, default |-> default]
For(id, items, limit, body) ==
    [op |-> "for", id |-> id, items |-> items, limit |-> limit, body |-> body]
While(id, limit, body) == [op |-> "while", id |-> id, limit |-> limit, body |-> body]
Parallel(id, join, mode, branches) ==
    [op |-> "parallel", id |-> id, join |-> join, mode |-> mode, branches |-> branches]
\* `back`: the parts return to the controller, as a graph written by hand has them;
\* the compiler lets them go on to what follows the statement.
Race(id, back, mode, branches) ==
    [op |-> "race", id |-> id, back |-> back, mode |-> mode, branches |-> branches]
Try(id, back, body, catch, finally) ==
    [op |-> "try", id |-> id, back |-> back, body |-> body, catch |-> catch,
     finally |-> finally]

-------------------------------------------------------------------------------
(* The graph.                                                              *)

Node(kind) ==
    [kind |-> kind, next |-> None, on_success |-> None, on_failure |-> None,
     targets |-> <<>>, mode |-> "all", items |-> 0, cap |-> 0,
     catch |-> None, finally |-> None, comp |-> FALSE]

Entry(block, cont) == IF block = <<>> THEN cont ELSE block[1].id
EntryOrNone(block) == Entry(block, None)

\* leaf_transitions: on success to what follows, on failure along the arrow.
Leaf(s, kind, cont, failed) ==
    s.id :> [Node(kind) EXCEPT !.on_success = cont, !.on_failure = failed]

Merge(graphs) ==
    LET merged[i \in 0..Len(graphs)] == IF i = 0 THEN <<>> ELSE merged[i - 1] @@ graphs[i]
    IN merged[Len(graphs)]

Entries(blocks, cont) == [i \in DOMAIN blocks |-> Entry(blocks[i], cont)]

RECURSIVE lower_stmt(_, _, _)

\* Each statement flows into the next one, the last one into cont; `failed` is where a
\* leaf without an arrow goes on failure: nowhere, or back to the controller of the part.
lower_block(block, cont, failed) ==
    Merge([i \in DOMAIN block |->
             lower_stmt(block[i],
                        IF i < Len(block) THEN block[i + 1].id ELSE cont, failed)])

lower_blocks(blocks, cont, failed) ==
    Merge([i \in DOMAIN blocks |-> lower_block(blocks[i], cont, failed)])

lower_action(s, cont, failed) ==
    s.id :> [Node("action") EXCEPT !.on_success = cont, !.comp = s.comp,
                                   !.on_failure = IF s.arrow = None THEN failed ELSE s.arrow]

lower_fail(s) == s.id :> Node("fail")

lower_if(s, cont, failed) ==
    s.id :> [Node("condition") EXCEPT !.targets = <<Entry(s.then, cont)>>,
                                      !.next = Entry(s.else, cont)]
      @@ lower_blocks(<<s.then, s.else>>, cont, failed)

lower_switch_cases(s, cont, failed) ==
    s.id :> [Node("switch") EXCEPT !.targets = Append(Entries(s.arms, cont),
                                                      Entry(s.default, cont))]
      @@ lower_blocks(Append(s.arms, s.default), cont, failed)

\* The body returns to the loop node, which leaves by on_success.
lower_for(s, cont, failed) ==
    s.id :> [Node("loop") EXCEPT !.next = Entry(s.body, s.id), !.on_success = cont,
                                 !.items = s.items, !.cap = s.limit]
      @@ lower_block(s.body, s.id, failed)

\* A condition that its body comes back to, at most `limit` times.
lower_while(s, cont, failed) ==
    s.id :> [Node("condition") EXCEPT !.targets = <<Entry(s.body, s.id)>>, !.next = cont,
                                      !.cap = s.limit]
      @@ lower_block(s.body, s.id, failed)

lower_parallel(s, cont, failed) ==
    s.id :> [Node("parallel") EXCEPT !.targets = Entries(s.branches, s.join)]
      @@ s.join :> [Node("join") EXCEPT !.targets = Entries(s.branches, s.join),
                                        !.mode = s.mode, !.next = cont]
      @@ lower_blocks(s.branches, s.join, failed)

\* Where the parts of a race or try go on to, and where they fail to.
PartCont(s, cont) == IF s.back THEN s.id ELSE cont
PartFailed(s, failed) == IF s.back THEN s.id ELSE failed

lower_race(s, cont, failed) ==
    s.id :> [Node("race") EXCEPT !.targets = Entries(s.branches, cont), !.mode = s.mode,
                                 !.next = cont, !.on_failure = failed]
      @@ lower_blocks(s.branches, PartCont(s, cont), PartFailed(s, failed))

lower_try(s, cont, failed) ==
    s.id :> [Node("try") EXCEPT !.targets = <<Entry(s.body, cont)>>,
                                !.catch = EntryOrNone(s.catch),
                                !.finally = EntryOrNone(s.finally),
                                !.next = cont, !.on_failure = failed]
      @@ lower_blocks(<<s.body, s.catch, s.finally>>, PartCont(s, cont), PartFailed(s, failed))

lower_stmt(s, cont, failed) ==
    CASE s.op = "action" -> lower_action(s, cont, failed)
      [] s.op \in {"data", "assert"} -> Leaf(s, s.op, cont, failed)
      [] s.op = "fail" -> lower_fail(s)
      [] s.op = "if" -> lower_if(s, cont, failed)
      [] s.op = "match" -> lower_switch_cases(s, cont, failed)
      [] s.op = "for" -> lower_for(s, cont, failed)
      [] s.op = "while" -> lower_while(s, cont, failed)
      [] s.op = "parallel" -> lower_parallel(s, cont, failed)
      [] s.op = "race" -> lower_race(s, cont, failed)
      [] s.op = "try" -> lower_try(s, cont, failed)

lower_workflow(body) ==
    "start" :> [Node("start") EXCEPT !.next = Entry(body, "end")]
      @@ "end" :> Node("end")
      @@ "fail" :> Node("fail")
      @@ lower_block(body, "end", None)

-------------------------------------------------------------------------------
(* What the statements mean: the executions they allow, each the sequence  *)
(* of actions executed, with their outcomes, and how it ends: "ok" goes on,*)
(* "no" is a failure that an enclosing race or try handles, "stop" is the  *)
(* fail statement.                                                         *)

Execution(work, end) == [work |-> work, end |-> end]
Nothing == {Execution(<<>>, "ok")}

\* First one of A, then, if it is ok, one of B.
Then(A, B) ==
    {a \in A : a.end # "ok"}
      \cup {Execution(a.work \o b.work, b.end) : a \in {x \in A : x.end = "ok"}, b \in B}

RECURSIVE Meaning(_)

\* One of A, then, if it failed, one of B.
Else(A, B) ==
    {a \in A : a.end # "no"}
      \cup {Execution(a.work \o b.work, b.end) : a \in {x \in A : x.end = "no"}, b \in B}

\* A, then B however A ended, with A's end.
Finally(A, B) ==
    {a \in A : a.end = "stop"}
      \cup {Execution(a.work \o b.work, IF b.end = "stop" THEN "stop" ELSE a.end) :
              a \in {x \in A : x.end # "stop"}, b \in B}

Times(n, A) == LET t[i \in 0..n] == IF i = 0 THEN Nothing ELSE Then(t[i - 1], A) IN t[n]

InTurn(Sets) == LET t[i \in 0..Len(Sets)] == IF i = 0 THEN Nothing ELSE Then(t[i - 1], Sets[i])
                IN t[Len(Sets)]

FirstOf(Sets) ==
    LET t[i \in 0..Len(Sets)] ==
          IF i = 0 THEN {Execution(<<>>, "no")} ELSE Else(t[i - 1], Sets[i])
    IN t[Len(Sets)]

Statement(s) ==
    CASE s.op = "action" ->
           {Execution(<<<<s.id, "succeeded">>>>, "ok"),
            Execution(<<<<s.id, "failed">>>>, IF s.arrow = None THEN "no" ELSE "stop")}
      [] s.op = "data" -> Nothing
      [] s.op = "assert" -> Nothing \cup {Execution(<<>>, "no")}
      [] s.op = "fail" -> {Execution(<<>>, "stop")}
      [] s.op = "if" -> Meaning(s.then) \cup Meaning(s.else)
      [] s.op = "match" -> UNION {Meaning(Append(s.arms, s.default)[i]) :
                                    i \in 1..(Len(s.arms) + 1)}
      [] s.op = "for" -> Times(IF s.limit < s.items THEN s.limit ELSE s.items, Meaning(s.body))
      [] s.op = "while" -> UNION {Times(n, Meaning(s.body)) : n \in 0..s.limit}
      [] s.op = "parallel" -> InTurn([i \in 1..(IF s.mode = "all" THEN Len(s.branches) ELSE 1)
                                        |-> Meaning(s.branches[i])])
      [] s.op = "race" -> FirstOf([i \in DOMAIN s.branches |-> Meaning(s.branches[i])])
      [] s.op = "try" -> Finally(IF s.catch = <<>> THEN Meaning(s.body)
                                 ELSE Else(Meaning(s.body), Meaning(s.catch)),
                                 Meaning(s.finally))

Meaning(block) == InTurn([i \in DOMAIN block |-> Statement(block[i])])
===============================================================================
