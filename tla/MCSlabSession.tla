---------------------------- MODULE MCSlabSession ----------------------------
(***************************************************************************)
(* Small instances of SlabSession: runs "ra1", "ra2" and calc "ca1" come   *)
(* from user "a", run "rb1" from user "b".                                 *)
(***************************************************************************)
EXTENDS SlabSession

MCUserOf == [p \in Requests |-> IF p = "rb1" THEN "b" ELSE "a"]
=============================================================================
