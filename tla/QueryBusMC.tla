------------------------------ MODULE QueryBusMC ------------------------------
(* QueryBus for TLC.  Calls of PublishQuery are interchangeable, and so are *)
(* workers and values: no action and no property tells one from another.   *)
EXTENDS QueryBusInv, TLC

Symmetry == Permutations(Query) \cup Permutations(Worker) \cup Permutations(Value)
===============================================================================
