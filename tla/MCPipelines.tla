------------------------------ MODULE MCPipelines ------------------------------
(* Instances of Pipelines for TLC: two entry members, one of them chained on. *)
EXTENDS Pipelines

CONSTANTS a, b, c

MCMembers == {a, b, c}
MCLinks == {[from |-> a, to |-> c, on |-> "success"]}
MCDownstream == {[source |-> ThePipeline, on |-> "complete"]}
===============================================================================
