----------------------------- MODULE MCReadyQueue -----------------------------
(* Instances of ReadyQueue: up to two rows of one node.                      *)
EXTENDS ReadyQueue, TLC

CONSTANTS r1, r2, e1, e2

SameNode == r1 :> "node" @@ r2 :> "node"
OneRun == r1 :> "run" @@ r2 :> "run"
===============================================================================
