--------------------------- MODULE MCActionLifecycle ---------------------------
(* Small instances of ActionLifecycle.  Workers are interchangeable.          *)
EXTENDS ActionLifecycle, TLC

WorkerSymmetry == Permutations(Workers)
===============================================================================
