------------------------------ MODULE MCTaskPool ------------------------------
(***************************************************************************)
(* Small instances of TaskPool.  "a1", "a2" and "a3" come from user "a",   *)
(* "b1" from user "b"; each cfg picks which of them arrive.                *)
(***************************************************************************)
EXTENDS TaskPool, TLC

MCUserOf == [r \in Requests |-> IF r = "b1" THEN "b" ELSE "a"]
KindLists == [r \in Requests |-> CASE r = "a1" -> "heavy" [] r = "a2" -> "gaussian" [] OTHER -> "vce"]
KindVceGauss == [r \in Requests |-> IF r = "a1" THEN "gaussian" ELSE "vce"]

\* Pool threads differ in nothing but their names.
WorkerSymmetry == Permutations(Workers)
=============================================================================
