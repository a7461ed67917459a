------------------------------ MODULE FileUpload ------------------------------
(***************************************************************************)
(* netty-file: FileUploadClientHandler and FileUploadServerHandler over    *)
(* one TCP connection per upload.  The client sends a chunk, the server    *)
(* writes it at its own field start, adds the chunk's byteRead to start    *)
(* and replies with the sum, from where the client reads the next chunk.   *)
(*                                                                         *)
(* Byte i of the file of upload u is the value <<u, i>>, so a copy shows   *)
(* which bytes went where.  A message is the byte array and endPos; the    *)
(* pipeline's Java serialization (ObjectEncoder, ObjectDecoder) and TCP    *)
(* are external: one FIFO channel per direction.  Each handler runs on its *)
(* channel's event loop, so a handler call is one step.  start is an int:  *)
(* IntLimit is 2^31 in the code, and 1024 * 10 is Chunk.                   *)
(***************************************************************************)
EXTENDS Integers, Sequences

CONSTANTS
  Uploads,   \* the calls of FileUploadClient.connect
  Names,     \* the values of file_md5, the file name on the server
  nameOf,    \* nameOf[u]: under which name u is stored
  fileLen,   \* fileLen[u]: length of u's file; 0 also for a missing file
  starPos,   \* starPos[u]: the position the caller asks to start from
  oldLen,    \* oldLen[n]: length of what the server has under n beforehand
  Chunk, IntLimit

ASSUME ConstantsTyped ==
  /\ nameOf \in [Uploads -> Names]
  /\ fileLen \in [Uploads -> Nat]
  /\ starPos \in [Uploads -> Nat]
  /\ oldLen \in [Names -> Nat]
  /\ Chunk \in Nat \ {0}
  /\ IntLimit \in Nat
  /\ Chunk < IntLimit

VARIABLES
  cli,        \* the client's side of the connection
  lastLength, \* field of the client handler: size of the next chunk
  srv,        \* the server's side
  start,      \* field of the server handler
  toServer,   \* chunks under way
  toClient,   \* replies under way
  stored      \* the files in file_dir

vars == <<cli, lastLength, srv, start, toServer, toClient, stored>>

Zero == <<"zero">>
Old == <<"old">>
Source(u, n) == [i \in 1..n |-> <<u, i>>]

\* The bytes array of u's next message: n bytes of the file from offset off,
\* the rest of the array as Java allocated it.
Bytes(u, off, n, size) ==
  [i \in 1..size |-> IF i <= n THEN <<u, off + i>> ELSE Zero]

\* (int) of a long, and int addition.
Wrap(n) == IF n \in -IntLimit..(IntLimit - 1) THEN n
           ELSE ((n + IntLimit) % (2 * IntLimit)) - IntLimit

\* seek(pos) and write(bytes): a gap is filled with zeros, a tail is kept.
WriteAt(file, pos, bytes) ==
  LET end == pos + Len(bytes)
  IN  [i \in 1..(IF Len(file) > end THEN Len(file) ELSE end) |->
         IF i \in (pos + 1)..end THEN bytes[i - pos]
         ELSE IF i <= Len(file) THEN file[i] ELSE Zero]

Lower(a, b) == IF a < b THEN a ELSE b

Init ==
  /\ cli = [u \in Uploads |-> "connecting"]
  /\ lastLength = [u \in Uploads |-> 0]
  /\ srv = [u \in Uploads |-> "open"]
  /\ start = [u \in Uploads |-> 0]
  /\ toServer = [u \in Uploads |-> <<>>]
  /\ toClient = [u \in Uploads |-> <<>>]
  /\ stored = [n \in Names |-> [i \in 1..oldLen[n] |-> Old]]

Send(u, bytes, endPos) ==
  toServer' = [toServer EXCEPT ![u] = Append(@, [bytes |-> bytes, endPos |-> endPos])]
-----------------------------------------------------------------------------
(***************************************************************************)
(* The client handler.                                                     *)
(***************************************************************************)
\* Mutant: the chunk is as long as the file.
ChannelActiveWhole(u) ==
  /\ cli[u] = "connecting"
  /\ cli' = [cli EXCEPT ![u] = "open"]
  /\ lastLength' = [lastLength EXCEPT ![u] = fileLen[u]]
  /\ Send(u, Bytes(u, starPos[u], fileLen[u], fileLen[u]), fileLen[u])
  /\ UNCHANGED <<srv, start, toClient, stored>>

\* The first chunk is an array of Chunk bytes whatever was read into it; when
\* nothing was read nothing is sent, and the connection stays open.
ChannelActive(u) ==
  /\ cli[u] = "connecting"
  /\ cli' = [cli EXCEPT ![u] = "open"]
  /\ lastLength' = [lastLength EXCEPT ![u] = Chunk]
  /\ LET byteRead == Lower(Chunk, fileLen[u] - starPos[u])
     IN  IF byteRead > 0
         THEN Send(u, Bytes(u, starPos[u], byteRead, Chunk), byteRead)
         ELSE UNCHANGED toServer
  /\ UNCHANGED <<srv, start, toClient, stored>>

\* The remaining length, an int, bounds the next chunk.  RandomAccessFile.read
\* gives 0 for an empty array and -1 at the end of the file.
Remaining(u) == fileLen[u] - Head(toClient[u])
NextLength(u) == Lower(lastLength[u], Wrap(Remaining(u)))
ByteRead(u) ==
  IF NextLength(u) = 0 THEN 0
  ELSE IF Remaining(u) <= 0 THEN -1 ELSE Lower(NextLength(u), Remaining(u))

\* No reply is -1 (ReplyIsPosition), which channelRead would ignore.
Receive(u) ==
  /\ cli[u] = "open"
  /\ toClient[u] # <<>>
  /\ toClient' = [toClient EXCEPT ![u] = Tail(@)]
  /\ UNCHANGED <<srv, start, stored>>

\* Mutant: a negative position is taken for a valid one.
SeekNeverFails(u) == NextLength(u) < 0

\* seek of a negative position and an array of negative size throw, and
\* exceptionCaught closes the connection.
SeekFails(u) == Head(toClient[u]) < 0 \/ NextLength(u) < 0

SendNext(u) ==
  /\ Receive(u)
  /\ ~SeekFails(u)
  /\ ByteRead(u) # -1
  /\ Remaining(u) > 0
  /\ lastLength' = [lastLength EXCEPT ![u] = NextLength(u)]
  /\ Send(u, Bytes(u, Head(toClient[u]), ByteRead(u), NextLength(u)), ByteRead(u))
  /\ UNCHANGED cli

\* Mutant: ctx.close() is missing.
StayAtEnd(u) ==
  /\ Receive(u)
  /\ ~SeekFails(u)
  /\ ByteRead(u) = -1 \/ Remaining(u) <= 0
  /\ lastLength' = [lastLength EXCEPT ![u] = NextLength(u)]
  /\ UNCHANGED <<cli, toServer>>

CloseAtEnd(u) ==
  /\ Receive(u)
  /\ ~SeekFails(u)
  /\ ByteRead(u) = -1 \/ Remaining(u) <= 0
  /\ lastLength' = [lastLength EXCEPT ![u] = NextLength(u)]
  /\ cli' = [cli EXCEPT ![u] = "complete"]
  /\ UNCHANGED toServer

ClientError(u) ==
  /\ Receive(u)
  /\ SeekFails(u)
  /\ cli' = [cli EXCEPT ![u] = "broken"]
  /\ UNCHANGED <<lastLength, toServer>>

\* The peer has closed and nothing more will come.
ClientInactive(u) ==
  /\ cli[u] = "open"
  /\ srv[u] = "closed"
  /\ toClient[u] = <<>>
  /\ cli' = [cli EXCEPT ![u] = "broken"]
  /\ UNCHANGED <<lastLength, srv, start, toServer, toClient, stored>>
-----------------------------------------------------------------------------
(***************************************************************************)
(* The server handler.                                                     *)
(***************************************************************************)
Take(u) ==
  /\ srv[u] = "open"
  /\ toServer[u] # <<>>
  /\ toServer' = [toServer EXCEPT ![u] = Tail(@)]
  /\ UNCHANGED <<cli, lastLength>>

\* Mutant: the position is acknowledged before and after the write.
StoreRepliesTwice(u) ==
  LET m == Head(toServer[u])
      next == Wrap(start[u] + m.endPos)
  IN  /\ Take(u)
      /\ stored' = [stored EXCEPT ![nameOf[u]] = WriteAt(@, start[u], m.bytes)]
      /\ start' = [start EXCEPT ![u] = next]
      /\ toClient' = [toClient EXCEPT ![u] = @ \o <<start[u], next>>]
      /\ UNCHANGED srv

\* Mutant: no seek before the write.
StoreAtFront(u) ==
  LET m == Head(toServer[u])
      next == Wrap(start[u] + m.endPos)
  IN  /\ Take(u)
      /\ stored' = [stored EXCEPT ![nameOf[u]] = WriteAt(@, 0, m.bytes)]
      /\ start' = [start EXCEPT ![u] = next]
      /\ toClient' = [toClient EXCEPT ![u] = Append(@, next)]
      /\ UNCHANGED srv

\* A chunk of another size than Chunk is taken for the last one: the handler
\* sleeps a second and then closes.  seek gets no negative start
\* (ReplyIsPosition): a client that is told a negative position gives up.
Store(u) ==
  LET m == Head(toServer[u])
  IN  /\ Take(u)
      /\ stored' = [stored EXCEPT ![nameOf[u]] = WriteAt(@, start[u], m.bytes)]
      /\ start' = [start EXCEPT ![u] = Wrap(@ + m.endPos)]
      /\ IF m.endPos > 0
         THEN /\ toClient' = [toClient EXCEPT ![u] = Append(@, Wrap(start[u] + m.endPos))]
              /\ srv' = [srv EXCEPT ![u] = IF m.endPos # Chunk THEN "sleeping" ELSE @]
         ELSE /\ srv' = [srv EXCEPT ![u] = "closed"]
              /\ UNCHANGED toClient

Wake(u) ==
  /\ srv[u] = "sleeping"
  /\ srv' = [srv EXCEPT ![u] = "closed"]
  /\ UNCHANGED <<cli, lastLength, start, toServer, toClient, stored>>

ServerInactive(u) ==
  /\ srv[u] = "open"
  /\ cli[u] \in {"complete", "broken"}
  /\ toServer[u] = <<>>
  /\ srv' = [srv EXCEPT ![u] = "closed"]
  /\ UNCHANGED <<cli, lastLength, start, toServer, toClient, stored>>
-----------------------------------------------------------------------------
(***************************************************************************)
(* The connection may break: each side notices on its own, and what was    *)
(* under way towards it is lost; a chunk under way may still be delivered. *)
(***************************************************************************)
ClientCut(u) ==
  /\ cli[u] = "open"
  /\ cli' = [cli EXCEPT ![u] = "broken"]
  /\ toClient' = [toClient EXCEPT ![u] = <<>>]
  /\ UNCHANGED <<lastLength, srv, start, toServer, stored>>

ServerCut(u) ==
  /\ srv[u] = "open"
  /\ srv' = [srv EXCEPT ![u] = "closed"]
  /\ toServer' = [toServer EXCEPT ![u] = <<>>]
  /\ UNCHANGED <<cli, lastLength, start, toClient, stored>>

Handler(u) ==
  \/ ChannelActive(u) \/ SendNext(u) \/ CloseAtEnd(u)
  \/ ClientError(u) \/ ClientInactive(u)
  \/ Store(u) \/ Wake(u) \/ ServerInactive(u)

Next == \E u \in Uploads : Handler(u) \/ ClientCut(u) \/ ServerCut(u)

Spec == Init /\ [][Next]_vars

\* The event loops run what they are given; nothing makes a connection break.
FairSpec == Spec /\ \A u \in Uploads : WF_vars(Handler(u))
-----------------------------------------------------------------------------
Bytes0 == (Uploads \X Nat) \union {Zero, Old}

\* Every variable holds a value of the kind the code gives it.
TypeOK ==
  /\ cli \in [Uploads -> {"connecting", "open", "complete", "broken"}]
  /\ lastLength \in [Uploads -> 0..Chunk]
  /\ srv \in [Uploads -> {"open", "sleeping", "closed"}]
  /\ start \in [Uploads -> -IntLimit..(IntLimit - 1)]
  /\ \A u \in Uploads :
       /\ \A i \in DOMAIN toServer[u] : toServer[u][i].endPos \in 0..Chunk
       /\ \A i \in DOMAIN toClient[u] : toClient[u][i] \in -IntLimit..(IntLimit - 1)
  /\ \A n \in Names : \A i \in DOMAIN stored[n] : stored[n][i] \in Bytes0

\* Uploads the protocol is made for: each has a name of its own that the
\* server does not have yet, at least one full chunk, and starts at the beginning.
Clean ==
  /\ \A u \in Uploads : /\ starPos[u] = 0
                        /\ Chunk <= fileLen[u]
                        /\ oldLen[nameOf[u]] = 0
  /\ \A u, v \in Uploads : nameOf[u] = nameOf[v] => u = v

\* Stop and wait: one chunk or one reply is under way, never two messages, so
\* the handlers' single start and lastLength fields suffice.
OneMessage ==
  \A u \in Uploads : Len(toServer[u]) + Len(toClient[u]) <= 1

\* The int start overflows once the file is longer than IntLimit, yet never to
\* the -1 the client ignores, and no chunk comes after it: the server never
\* seeks a position before the file.
ReplyIsPosition ==
  \A u \in Uploads :
    /\ toServer[u] # <<>> => start[u] >= 0
    /\ \A i \in DOMAIN toClient[u] : toClient[u][i] # -1

\* The handlers implement the transfer of FileTransfer.
Transfer == INSTANCE FileTransfer WITH
  copy <- [u \in Uploads |-> stored[nameOf[u]]],
  status <- [u \in Uploads |->
               IF cli[u] \in {"complete", "broken"} THEN cli[u] ELSE "running"]

TransferSpec == Transfer!Spec

\* An upload that is under way ends, for the client and for the server.
UploadsEnd ==
  \A u \in Uploads :
    cli[u] = "open" ~> cli[u] \in {"complete", "broken"} /\ srv[u] = "closed"

=============================================================================
