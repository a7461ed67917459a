----------------------------- MODULE FileTransfer -----------------------------
(***************************************************************************)
(* What netty-file promises ("传递文件", README.md:9): each upload's copy on   *)
(* the server is at any time a prefix of the client's file, it only grows, *)
(* and the client reports the end of the transfer only when the copy is    *)
(* the file.  A broken connection may end the transfer at any time; bytes  *)
(* already sent may still arrive afterwards.                               *)
(***************************************************************************)
EXTENDS Integers

CONSTANTS
  Uploads,
  fileLen,       \* fileLen[u]: the length of the client's file
  Source(_, _)   \* Source(u, n): the first n bytes of the file of u

VARIABLES
  copy,   \* copy[u]: the bytes of u that are on the server
  status  \* "running", "complete" or "broken"

Init ==
  /\ copy = [u \in Uploads |-> Source(u, 0)]
  /\ status = [u \in Uploads |-> "running"]

\* The first of two uploads never touches the copy of the second.
Extend(u) ==
  /\ status[u] # "complete"
  /\ \E n \in 0..fileLen[u] :
       /\ copy[u] = Source(u, n)
       /\ \E m \in (n + 1)..fileLen[u] : copy' = [copy EXCEPT ![u] = Source(u, m)]
  /\ UNCHANGED status

Complete(u) ==
  /\ status[u] = "running"
  /\ copy[u] = Source(u, fileLen[u])
  /\ status' = [status EXCEPT ![u] = "complete"]
  /\ UNCHANGED copy

Break(u) ==
  /\ status[u] = "running"
  /\ status' = [status EXCEPT ![u] = "broken"]
  /\ UNCHANGED copy

Next == \E u \in Uploads : Extend(u) \/ Complete(u) \/ Break(u)

Spec == Init /\ [][Next]_<<copy, status>>
=============================================================================
