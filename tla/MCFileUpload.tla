---------------------------- MODULE MCFileUpload ----------------------------
(***************************************************************************)
(* Small instances of FileUpload: files of a few bytes, chunks of two.     *)
(***************************************************************************)
EXTENDS FileUpload, TLC

LongNames == [u \in Uploads |-> "n" \o u]
\* Against IntLimit = 3: the remaining length reaches 2^32 (0 as an int); a chunk
\* and a rest, and one chunk, which an int can index.
LongLengths == ("u1" :> 8) @@ ("u2" :> 3) @@ ("u3" :> 2)
AtStart == [u \in Uploads |-> 0]
NoOld == [n \in Names |-> 0]
=============================================================================
