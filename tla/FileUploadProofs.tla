---------------------------- MODULE FileUploadProofs ----------------------------
(***************************************************************************)
(* Proofs about FileUpload for every set of uploads, every length and      *)
(* every width of int.                                                     *)
(*                                                                         *)
(* The key is Turn: the protocol is stop and wait, a reply under way is    *)
(* the server's start, and a chunk goes out only after a reply that was no *)
(* negative position.                                                      *)
(***************************************************************************)
EXTENDS FileUpload, SequenceTheorems, TLAPS

Int32 == -IntLimit..(IntLimit - 1)
Message == [bytes : Seq(Bytes0), endPos : 0..Chunk]

\* Every field has its type; the server's position is never the reply -1.
Shape ==
  /\ cli \in [Uploads -> {"connecting", "open", "complete", "broken"}]
  /\ lastLength \in [Uploads -> 0..Chunk]
  /\ srv \in [Uploads -> {"open", "sleeping", "closed"}]
  /\ start \in [Uploads -> Int32 \ {-1}]
  /\ toServer \in [Uploads -> Seq(Message)]
  /\ toClient \in [Uploads -> Seq(Int32)]
  /\ stored \in [Names -> Seq(Bytes0)]

\* What is under way for u, and what it says of the server's position.
Turn(u) ==
  /\ Len(toServer[u]) + Len(toClient[u]) <= 1
  /\ toServer[u] # <<>> => start[u] >= 0
  /\ toClient[u] # <<>> => Head(toClient[u]) = start[u]
  /\ cli[u] = "connecting" =>
       toServer[u] = <<>> /\ toClient[u] = <<>> /\ start[u] = 0

UploadInv == Shape /\ \A u \in Uploads : Turn(u)
-----------------------------------------------------------------------------
(***************************************************************************)
(* The int arithmetic and the byte arrays.                                 *)
(***************************************************************************)
LEMMA WrapType == \A n \in Int : Wrap(n) \in Int32
<1> SUFFICES ASSUME NEW n \in Int PROVE Wrap(n) \in Int32
  OBVIOUS
<1> DEFINE d == 2 * IntLimit
<1>1. d \in Nat \ {0}
  BY ConstantsTyped
<1>2. (n + IntLimit) % d \in 0..(d - 1)
  BY <1>1, ConstantsTyped
<1> QED BY <1>2, ConstantsTyped DEF Wrap, Int32

\* A sum of a position and a chunk that leaves the range of int becomes a
\* position below -1.
LEMMA WrapSum ==
  ASSUME NEW n \in 0..(2 * IntLimit - 2)
  PROVE  Wrap(n) = IF n < IntLimit THEN n ELSE n - 2 * IntLimit
<1> DEFINE d == 2 * IntLimit
           k == n - IntLimit
<1>1. CASE n < IntLimit
  BY <1>1, ConstantsTyped DEF Wrap
<1>2. CASE n >= IntLimit
  <2>1. /\ d \in Nat \ {0}
        /\ k \in 0..(d - 1)
        /\ n + IntLimit = d + k
    BY <1>2, ConstantsTyped
  <2>2. (d + k) % d = k
    <3> HIDE DEF d, k
    <3> QED BY <2>1
  <2>3. (n + IntLimit) % (2 * IntLimit) = n - IntLimit
    BY <2>1, <2>2
  <2> QED BY <1>2, <2>3, ConstantsTyped DEF Wrap
<1> QED BY <1>1, <1>2, ConstantsTyped

LEMMA LowerType ==
  ASSUME NEW a \in Int, NEW b \in Int
  PROVE  /\ Lower(a, b) \in Int
         /\ Lower(a, b) <= a /\ Lower(a, b) <= b
         /\ Lower(a, b) = a \/ Lower(a, b) = b
  BY DEF Lower

LEMMA BytesType ==
  ASSUME NEW u \in Uploads, NEW off \in Nat, NEW n \in Nat, NEW size \in Nat
  PROVE  Bytes(u, off, n, size) \in Seq(Bytes0)
<1>1. \A i \in 1..size : (IF i <= n THEN <<u, off + i>> ELSE Zero) \in Bytes0
  BY DEF Bytes0
<1>2. Bytes(u, off, n, size) \in [1..size -> Bytes0]
  BY <1>1 DEF Bytes
<1> QED BY <1>2

LEMMA WriteType ==
  ASSUME NEW file \in Seq(Bytes0), NEW pos \in Nat, NEW bytes \in Seq(Bytes0)
  PROVE  WriteAt(file, pos, bytes) \in Seq(Bytes0)
<1> DEFINE end == pos + Len(bytes)
           len == IF Len(file) > end THEN Len(file) ELSE end
           byte(i) == IF i \in (pos + 1)..end THEN bytes[i - pos]
                      ELSE IF i <= Len(file) THEN file[i] ELSE Zero
<1>1. end \in Nat /\ len \in Nat
  OBVIOUS
<1>2. \A i \in 1..len : byte(i) \in Bytes0
  <2> SUFFICES ASSUME NEW i \in 1..len PROVE byte(i) \in Bytes0
    OBVIOUS
  <2>1. CASE i \in (pos + 1)..end
    BY <2>1
  <2>2. CASE i \notin (pos + 1)..end /\ i <= Len(file)
    BY <2>2
  <2>3. CASE i \notin (pos + 1)..end /\ ~(i <= Len(file))
    BY <2>3 DEF Bytes0
  <2> QED BY <2>1, <2>2, <2>3
<1>3. WriteAt(file, pos, bytes) = [i \in 1..len |-> byte(i)]
  BY DEF WriteAt
<1> HIDE DEF len, byte
<1> QED BY <1>1, <1>2, <1>3
-----------------------------------------------------------------------------
(***************************************************************************)
(* The invariant.                                                          *)
(***************************************************************************)
LEMMA ShortSeq ==
  /\ Len(<<>>) = 0
  /\ \A S : <<>> \in Seq(S)
  /\ \A S : \A x \in S : <<x>> \in Seq(S) /\ Len(<<x>>) = 1
  OBVIOUS

\* The channels of the stop-and-wait protocol hold at most one message.
LEMMA OneOfTwo ==
  ASSUME NEW a \in Nat, NEW b \in Nat, a + b <= 1
  PROVE  a # 0 => a = 1 /\ b = 0
  OBVIOUS

LEMMA DropOne ==
  ASSUME NEW a \in Nat, NEW b \in Nat, a + b <= 1
  PROVE  0 + b <= 1 /\ a + 0 <= 1 /\ b + a <= 1
  OBVIOUS

LEMMA AtMostOne ==
  ASSUME NEW S, NEW T, NEW s \in Seq(S), NEW t \in Seq(T),
         Len(s) + Len(t) <= 1, s # <<>>
  PROVE  Head(s) \in S /\ Tail(s) = <<>> /\ t = <<>>
<1>1. Len(s) \in Nat \ {0} /\ Len(t) \in Nat
  BY EmptySeq, LenProperties
<1>2. Len(s) = 1 /\ Len(t) = 0
  BY <1>1, OneOfTwo
<1>3. Head(s) \in S /\ Tail(s) \in Seq(S) /\ Len(Tail(s)) = 0
  BY <1>2, HeadTailProperties
<1> QED BY <1>2, <1>3, EmptySeq

LEMMA InitUpload == Init => UploadInv
<1> SUFFICES ASSUME Init PROVE UploadInv
  OBVIOUS
<1>1. \A n \in Names : [i \in 1..oldLen[n] |-> Old] \in Seq(Bytes0)
  BY ConstantsTyped DEF Bytes0
<1>2. Shape
  BY <1>1, ConstantsTyped DEF Init, Shape, Int32
<1>3. ASSUME NEW u \in Uploads PROVE Turn(u)
  <2>1. toServer[u] = <<>> /\ toClient[u] = <<>> /\ start[u] = 0
    BY DEF Init
  <2>2. Len(toServer[u]) + Len(toClient[u]) = 0
    BY <2>1, ShortSeq
  <2> QED BY <2>1, <2>2 DEF Turn
<1> QED BY <1>2, <1>3 DEF UploadInv

\* A step of u leaves the other uploads' connections alone.
Others(u) ==
  \A v \in Uploads \ {u} : /\ cli'[v] = cli[v]
                           /\ start'[v] = start[v]
                           /\ toServer'[v] = toServer[v]
                           /\ toClient'[v] = toClient[v]

LEMMA StepFrame ==
  ASSUME UploadInv, NEW u \in Uploads, Others(u), Shape', Turn(u)'
  PROVE  UploadInv'
<1>1. ASSUME NEW v \in Uploads \ {u} PROVE Turn(v)'
  BY <1>1 DEF UploadInv, Turn, Others
<1> QED BY <1>1 DEF UploadInv

LEMMA ChannelActiveInv ==
  ASSUME UploadInv, NEW u \in Uploads, ChannelActive(u)
  PROVE  UploadInv'
<1> DEFINE byteRead == Lower(Chunk, fileLen[u] - starPos[u])
           m == [bytes |-> Bytes(u, starPos[u], byteRead, Chunk), endPos |-> byteRead]
           sent == IF byteRead > 0 THEN <<m>> ELSE <<>>
<1>1. toServer[u] = <<>> /\ toClient[u] = <<>> /\ start[u] = 0
  BY DEF UploadInv, Turn, ChannelActive
<1>2. sent \in Seq(Message) /\ Len(sent) <= 1
  <2>1. byteRead \in Int /\ byteRead <= Chunk
    BY ConstantsTyped DEF Lower
  <2> HIDE DEF byteRead
  <2>2. byteRead > 0 => Bytes(u, starPos[u], byteRead, Chunk) \in Seq(Bytes0)
    BY <2>1, BytesType, ConstantsTyped
  <2>3. byteRead > 0 => m \in Message
    BY <2>1, <2>2, ConstantsTyped DEF Message
  <2> HIDE DEF m
  <2> QED BY <2>3, ShortSeq
<1>3. toServer' = [toServer EXCEPT ![u] = sent]
  BY <1>1 DEF ChannelActive, Send, UploadInv, Shape
<1> HIDE DEF sent
<1>4. Shape'
  BY <1>2, <1>3, ConstantsTyped DEF ChannelActive, UploadInv, Shape
<1>5. Turn(u)'
  BY <1>1, <1>2, <1>3 DEF ChannelActive, UploadInv, Shape, Turn
<1>6. Others(u)
  BY <1>3 DEF Others, ChannelActive, UploadInv, Shape
<1> QED BY <1>4, <1>5, <1>6, StepFrame

\* The client's part of a reply: it reads the server's position.
LEMMA ReplyRead ==
  ASSUME UploadInv, NEW u \in Uploads, Receive(u)
  PROVE  /\ Head(toClient[u]) = start[u]
         /\ toServer[u] = <<>>
         /\ Tail(toClient[u]) = <<>>
         /\ NextLength(u) \in Int
         /\ NextLength(u) <= Chunk
<1>1. /\ toServer[u] \in Seq(Message) /\ toClient[u] \in Seq(Int32)
      /\ start[u] \in Int /\ lastLength[u] \in 0..Chunk
      /\ toClient[u] # <<>>
      /\ Len(toServer[u]) + Len(toClient[u]) <= 1
  BY DEF UploadInv, Shape, Turn, Receive, Int32
<1>3. toServer[u] = <<>> /\ Tail(toClient[u]) = <<>>
  <2>1. /\ toServer[u] \in Seq(Message) /\ toClient[u] \in Seq(Int32)
        /\ Len(toServer[u]) + Len(toClient[u]) <= 1
        /\ toClient[u] # <<>>
    BY <1>1
  <2>2. Len(toClient[u]) + Len(toServer[u]) <= 1
    BY <2>1, LenProperties, DropOne
  <2> QED BY <2>1, <2>2, AtMostOne
<1>4. Head(toClient[u]) = start[u]
  BY <1>1 DEF UploadInv, Turn
<1>5. Remaining(u) \in Int
  BY <1>1, <1>4, ConstantsTyped DEF Remaining
<1>6. Wrap(Remaining(u)) \in Int
  BY <1>5, WrapType, ConstantsTyped DEF Int32
<1> QED BY <1>1, <1>3, <1>4, <1>6, ConstantsTyped DEF NextLength, Lower

LEMMA SendNextInv ==
  ASSUME UploadInv, NEW u \in Uploads, SendNext(u)
  PROVE  UploadInv'
<1> DEFINE m == [bytes |-> Bytes(u, Head(toClient[u]), ByteRead(u), NextLength(u)),
                 endPos |-> ByteRead(u)]
<1>1. /\ Head(toClient[u]) = start[u] /\ start[u] \in Nat
      /\ toServer[u] = <<>> /\ Tail(toClient[u]) = <<>>
      /\ NextLength(u) \in 0..Chunk
  <2>1. start[u] \in Int
    BY DEF UploadInv, Shape, Int32
  <2> QED BY <2>1, ReplyRead, ConstantsTyped DEF SendNext, SeekFails
<1>2. ByteRead(u) \in 0..Chunk
  BY <1>1, ConstantsTyped DEF SendNext, ByteRead, Remaining, Lower
<1>3. m \in Message
  <2>1. Bytes(u, Head(toClient[u]), ByteRead(u), NextLength(u)) \in Seq(Bytes0)
    <3>1. Head(toClient[u]) \in Nat /\ ByteRead(u) \in Nat /\ NextLength(u) \in Nat
      BY <1>1, <1>2, ConstantsTyped
    <3> QED BY <3>1, BytesType, Zenon
  <2> QED BY <1>2, <2>1 DEF Message
<1>4. toServer' = [toServer EXCEPT ![u] = <<m>>]
  BY <1>1 DEF SendNext, Send, UploadInv, Shape
<1> HIDE DEF m
<1>5. toClient' = [toClient EXCEPT ![u] = <<>>]
  BY <1>1 DEF SendNext, Receive, UploadInv, Shape
<1>6. Shape'
  BY <1>1, <1>3, <1>4, <1>5, ShortSeq DEF SendNext, Receive, UploadInv, Shape
<1>7. Turn(u)'
  <2>1. toServer'[u] = <<m>> /\ toClient'[u] = <<>> /\ start'[u] = start[u]
        /\ cli'[u] # "connecting"
    BY <1>4, <1>5 DEF SendNext, Receive, UploadInv, Shape
  <2>2. Len(toServer'[u]) + Len(toClient'[u]) = 1
    BY <2>1, <1>3, ShortSeq
  <2> QED BY <1>1, <2>1, <2>2 DEF Turn
<1>8. Others(u)
  BY <1>4, <1>5 DEF Others, SendNext, Receive, UploadInv, Shape
<1> QED BY <1>6, <1>7, <1>8, StepFrame

\* The client's last steps take a reply and send nothing.
LEMMA CloseInv ==
  ASSUME UploadInv, NEW u \in Uploads, CloseAtEnd(u) \/ ClientError(u)
  PROVE  UploadInv'
<1>1. toServer[u] = <<>> /\ Tail(toClient[u]) = <<>>
  BY ReplyRead DEF CloseAtEnd, ClientError
<1>2. toServer' = toServer /\ toClient' = [toClient EXCEPT ![u] = <<>>]
  BY <1>1 DEF CloseAtEnd, ClientError, Receive, UploadInv, Shape
<1>3. lastLength' \in [Uploads -> 0..Chunk]
  <2>1. CASE ClientError(u)
    BY <2>1 DEF ClientError, UploadInv, Shape
  <2>2. CASE CloseAtEnd(u)
    <3>1. NextLength(u) \in 0..Chunk
      BY <2>2, ReplyRead, ConstantsTyped DEF CloseAtEnd, SeekFails
    <3> QED BY <2>2, <3>1 DEF CloseAtEnd, UploadInv, Shape
  <2> QED BY <2>1, <2>2
<1>4. Shape'
  BY <1>2, <1>3, ShortSeq DEF CloseAtEnd, ClientError, Receive, UploadInv, Shape
<1>5. Turn(u)'
  <2>1. toServer'[u] = <<>> /\ toClient'[u] = <<>> /\ cli'[u] # "connecting"
    BY <1>1, <1>2 DEF CloseAtEnd, ClientError, Receive, UploadInv, Shape
  <2>2. Len(toServer'[u]) + Len(toClient'[u]) = 0
    BY <2>1, ShortSeq
  <2> QED BY <2>1, <2>2 DEF Turn
<1>6. Others(u)
  BY <1>2 DEF Others, CloseAtEnd, ClientError, Receive, UploadInv, Shape
<1> QED BY <1>4, <1>5, <1>6, StepFrame

\* Steps that neither take nor send a message.
LEMMA StateInv ==
  ASSUME UploadInv, NEW u \in Uploads,
         ClientInactive(u) \/ Wake(u) \/ ServerInactive(u)
  PROVE  UploadInv'
<1>1. Shape'
  BY DEF ClientInactive, Wake, ServerInactive, UploadInv, Shape
<1>2. Turn(u)' /\ Others(u)
  BY DEF ClientInactive, Wake, ServerInactive, UploadInv, Shape, Turn, Others
<1> QED BY <1>1, <1>2, StepFrame

LEMMA CutInv ==
  ASSUME UploadInv, NEW u \in Uploads, ClientCut(u) \/ ServerCut(u)
  PROVE  UploadInv'
<1>1. /\ toServer[u] \in Seq(Message) /\ toClient[u] \in Seq(Int32)
      /\ toServer' = [toServer EXCEPT ![u] = toServer'[u]]
      /\ toClient' = [toClient EXCEPT ![u] = toClient'[u]]
      /\ \/ toServer'[u] = toServer[u] /\ toClient'[u] = <<>>
         \/ toServer'[u] = <<>> /\ toClient'[u] = toClient[u]
      /\ cli[u] # "connecting" \/ toServer[u] = <<>>
  BY DEF ClientCut, ServerCut, UploadInv, Shape, Turn
<1>2. Shape'
  <2>1. toServer'[u] \in Seq(Message) /\ toClient'[u] \in Seq(Int32)
    BY <1>1, ShortSeq
  <2>2. toServer' \in [Uploads -> Seq(Message)] /\ toClient' \in [Uploads -> Seq(Int32)]
    BY <1>1, <2>1 DEF UploadInv, Shape
  <2> QED BY <2>2 DEF ClientCut, ServerCut, UploadInv, Shape
<1>3. Turn(u)'
  <2>1. Len(toServer'[u]) + Len(toClient'[u]) <= 1
    <3>1. Len(toServer[u]) \in Nat /\ Len(toClient[u]) \in Nat
      BY <1>1, LenProperties
    <3>2. Len(toServer[u]) + Len(toClient[u]) <= 1
      BY DEF UploadInv, Turn
    <3>3. CASE toServer'[u] = toServer[u] /\ toClient'[u] = <<>>
      <4>1. Len(toServer[u]) + 0 <= 1
        BY <3>1, <3>2, DropOne
      <4> QED BY <3>3, <4>1, ShortSeq, Zenon
    <3>4. CASE toServer'[u] = <<>> /\ toClient'[u] = toClient[u]
      <4>1. 0 + Len(toClient[u]) <= 1
        BY <3>1, <3>2, DropOne
      <4> QED BY <3>4, <4>1, ShortSeq, Zenon
    <3> QED BY <1>1, <3>3, <3>4
  <2> QED BY <1>1, <2>1 DEF ClientCut, ServerCut, UploadInv, Shape, Turn
<1>4. Others(u)
  BY DEF ClientCut, ServerCut, UploadInv, Shape, Others
<1> QED BY <1>2, <1>3, <1>4, StepFrame

LEMMA StoreInv ==
  ASSUME UploadInv, NEW u \in Uploads, Store(u)
  PROVE  UploadInv'
<1> DEFINE m == Head(toServer[u])
           next == Wrap(start[u] + m.endPos)
           reply == IF m.endPos > 0 THEN <<next>> ELSE <<>>
<1>1. toServer[u] \in Seq(Message) /\ toClient[u] \in Seq(Int32)
  BY DEF UploadInv, Shape
<1>2. /\ toServer[u] # <<>> /\ start[u] >= 0
      /\ Len(toServer[u]) + Len(toClient[u]) <= 1
      /\ cli[u] # "connecting"
  BY DEF UploadInv, Turn, Store, Take
<1>4. m \in Message /\ Tail(toServer[u]) = <<>> /\ toClient[u] = <<>>
  BY <1>1, <1>2, AtMostOne
<1>5. start[u] \in 0..(IntLimit - 1) /\ m.endPos \in 0..Chunk
  BY <1>2, <1>4, ConstantsTyped DEF UploadInv, Shape, Int32, Message
<1> HIDE DEF m
<1>6. next \in Int32 \ {-1}
  <2> DEFINE sum == start[u] + m.endPos
  <2>1. sum \in 0..(2 * IntLimit - 2)
    BY <1>5, ConstantsTyped
  <2> HIDE DEF sum
  <2>2. Wrap(sum) = IF sum < IntLimit THEN sum ELSE sum - 2 * IntLimit
    BY <2>1, WrapSum
  <2>3. Wrap(sum) \in Int32 \ {-1}
    BY <2>1, <2>2, ConstantsTyped DEF Int32
  <2> QED BY <2>3 DEF sum
<1>7. reply \in Seq(Int32) /\ Len(reply) <= 1 /\ (reply # <<>> => Head(reply) = next)
  <2> HIDE DEF next
  <2> QED BY <1>6, ShortSeq
<1>8. /\ toServer' = [toServer EXCEPT ![u] = <<>>]
      /\ toClient' = [toClient EXCEPT ![u] = reply]
      /\ start' = [start EXCEPT ![u] = next]
      /\ UNCHANGED <<cli, lastLength>>
  <2>1. toServer' = [toServer EXCEPT ![u] = <<>>]
    BY <1>4 DEF Store, Take, UploadInv, Shape
  <2>2. Append(<<>>, next) = <<next>>
    OBVIOUS
  <2>3. toClient' = IF m.endPos > 0 THEN [toClient EXCEPT ![u] = Append(@, next)]
                    ELSE toClient
    BY DEF Store, m
  <2>4. toClient' = [toClient EXCEPT ![u] = reply]
    <3> HIDE DEF next
    <3> QED BY <1>4, <2>2, <2>3 DEF UploadInv, Shape
  <2> QED BY <2>1, <2>4 DEF Store, Take, m
<1> HIDE DEF next, reply
<1>9. stored' \in [Names -> Seq(Bytes0)] /\ srv' \in [Uploads -> {"open", "sleeping", "closed"}]
  <2>1. /\ nameOf[u] \in Names /\ stored[nameOf[u]] \in Seq(Bytes0)
        /\ start[u] \in Nat /\ m.bytes \in Seq(Bytes0)
    BY <1>4, <1>5, ConstantsTyped DEF UploadInv, Shape, Message
  <2>2. WriteAt(stored[nameOf[u]], start[u], m.bytes) \in Seq(Bytes0)
    BY <2>1, WriteType
  <2>3. stored' = [stored EXCEPT ![nameOf[u]] = WriteAt(@, start[u], m.bytes)]
    BY DEF Store, m
  <2>4. srv' \in [Uploads -> {"open", "sleeping", "closed"}]
    BY DEF Store, UploadInv, Shape
  <2> QED BY <2>1, <2>2, <2>3, <2>4 DEF UploadInv, Shape
<1>10. Shape'
  BY <1>6, <1>7, <1>8, <1>9, ShortSeq DEF UploadInv, Shape
<1>11. Turn(u)'
  <2>1. toServer'[u] = <<>> /\ toClient'[u] = reply /\ start'[u] = next
        /\ cli'[u] = cli[u]
    BY <1>8 DEF UploadInv, Shape
  <2>2. Len(toServer'[u]) + Len(toClient'[u]) <= 1
    BY <1>7, <2>1, ShortSeq
  <2> QED BY <1>2, <1>7, <2>1, <2>2 DEF Turn
<1>12. Others(u)
  BY <1>8 DEF Others, UploadInv, Shape
<1> QED BY <1>10, <1>11, <1>12, StepFrame

LEMMA StepUpload == UploadInv /\ [Next]_vars => UploadInv'
<1> SUFFICES ASSUME UploadInv, [Next]_vars PROVE UploadInv'
  OBVIOUS
<1>1. CASE UNCHANGED vars
  BY <1>1 DEF vars, UploadInv, Shape, Turn
<1>2. ASSUME NEW u \in Uploads, Handler(u) \/ ClientCut(u) \/ ServerCut(u)
      PROVE  UploadInv'
  BY <1>2, ChannelActiveInv, SendNextInv, CloseInv, StateInv, CutInv, StoreInv
     DEF Handler
<1> QED BY <1>1, <1>2 DEF Next

LEMMA UploadInvHolds == Spec => []UploadInv
  BY InitUpload, StepUpload, PTL DEF Spec

-----------------------------------------------------------------------------
\* Every field keeps its type, in files, channels and both handlers.
THEOREM UploadTypeCorrect == Spec => []TypeOK
<1>1. UploadInv => TypeOK
  <2> SUFFICES ASSUME UploadInv PROVE TypeOK
    OBVIOUS
  <2>1. \A u \in Uploads : \A i \in DOMAIN toServer[u] : toServer[u][i].endPos \in 0..Chunk
    <3> SUFFICES ASSUME NEW u \in Uploads, NEW i \in DOMAIN toServer[u]
                 PROVE  toServer[u][i].endPos \in 0..Chunk
      OBVIOUS
    <3>1. toServer[u] \in Seq(Message)
      BY DEF UploadInv, Shape
    <3>2. toServer[u][i] \in Message
      BY <3>1, LenProperties
    <3> QED BY <3>2 DEF Message
  <2>2. \A u \in Uploads : \A i \in DOMAIN toClient[u] : toClient[u][i] \in Int32
    <3>1. \A u \in Uploads : toClient[u] \in Seq(Int32)
      BY DEF UploadInv, Shape
    <3> QED BY <3>1, LenProperties
  <2>3. \A n \in Names : \A i \in DOMAIN stored[n] : stored[n][i] \in Bytes0
    <3>1. \A n \in Names : stored[n] \in Seq(Bytes0)
      BY DEF UploadInv, Shape
    <3> QED BY <3>1, LenProperties
  <2>4. start \in [Uploads -> Int32]
    BY DEF UploadInv, Shape
  <2> QED BY <2>1, <2>2, <2>3, <2>4 DEF UploadInv, Shape, TypeOK, Int32
<1> QED BY <1>1, UploadInvHolds, PTL

\* The protocol is stop and wait for files of any length.
THEOREM StopAndWait == Spec => []OneMessage
<1>1. UploadInv => OneMessage
  BY DEF UploadInv, Turn, OneMessage
<1> QED BY <1>1, UploadInvHolds, PTL

\* Whatever the width of int and the length of the file, the server never seeks
\* before its file, and no reply is the -1 that the client ignores.
THEOREM PositionsValid == Spec => []ReplyIsPosition
<1>1. UploadInv => ReplyIsPosition
  <2> SUFFICES ASSUME UploadInv, NEW u \in Uploads
               PROVE  /\ toServer[u] # <<>> => start[u] >= 0
                      /\ \A i \in DOMAIN toClient[u] : toClient[u][i] # -1
    BY DEF ReplyIsPosition
  <2>1. toServer[u] # <<>> => start[u] >= 0
    BY DEF UploadInv, Turn
  <2>2. CASE toClient[u] = <<>>
    BY <2>1, <2>2
  <2>3. CASE toClient[u] # <<>>
    <3>1. /\ toClient[u] \in Seq(Int32) /\ toServer[u] \in Seq(Message)
          /\ Len(toServer[u]) + Len(toClient[u]) <= 1
          /\ Head(toClient[u]) = start[u] /\ start[u] # -1
      BY <2>3 DEF UploadInv, Shape, Turn
    <3>2. Len(toClient[u]) \in Nat /\ Len(toServer[u]) \in Nat
      BY <3>1, LenProperties
    <3>3. Len(toClient[u]) # 0 /\ Len(toClient[u]) + Len(toServer[u]) <= 1
      BY <2>3, <3>1, <3>2, DropOne, EmptySeq
    <3>4. Len(toClient[u]) = 1
      BY <3>2, <3>3, OneOfTwo
    <3>5. DOMAIN toClient[u] = 1..1
      BY <3>1, <3>4, LenProperties
    <3>6. toClient[u][1] = start[u]
      BY <2>3, <3>1
    <3> QED BY <2>1, <3>1, <3>5, <3>6
  <2> QED BY <2>2, <2>3
<1> QED BY <1>1, UploadInvHolds, PTL

-----------------------------------------------------------------------------
(***************************************************************************)
(* The refinement of FileTransfer.  Under Clean the server has the bytes   *)
(* that start says, an overflow of start counted, and a chunk under way    *)
(* holds the bytes that come next; no chunk follows an overflow.           *)
(***************************************************************************)
Held(u) == IF start[u] >= 0 THEN start[u] ELSE start[u] + 2 * IntLimit
Copying(u) ==
  /\ Held(u) \in 0..fileLen[u]
  /\ stored[nameOf[u]] = Source(u, Held(u))
  /\ toServer[u] # <<>> =>
       /\ Head(toServer[u]).endPos \in 0..(fileLen[u] - start[u])
       /\ Head(toServer[u]).bytes
            = Bytes(u, start[u], Head(toServer[u]).endPos, Head(toServer[u]).endPos)
       /\ cli[u] # "complete"

CopyInv == UploadInv /\ \A u \in Uploads : Copying(u)

\* The next bytes written after a prefix of the file give a longer prefix.
LEMMA WriteNext ==
  ASSUME NEW u \in Uploads, NEW k \in Nat, NEW n \in Nat
  PROVE  WriteAt(Source(u, k), k, Bytes(u, k, n, n)) = Source(u, k + n)
<1> DEFINE file == Source(u, k)
           bytes == Bytes(u, k, n, n)
<1>1. /\ file = [i \in 1..k |-> <<u, i>>]
      /\ bytes = [i \in 1..n |-> <<u, k + i>>]
  BY DEF Source, Bytes
<1>2. Len(file) = k /\ Len(bytes) = n
  BY <1>1
<1> HIDE DEF file, bytes
<1>3. k + n \in Nat /\ ~(k > k + n)
  OBVIOUS
<1>4. WriteAt(file, k, bytes) =
        [i \in 1..(k + n) |-> IF i \in (k + 1)..(k + n) THEN bytes[i - k]
                              ELSE IF i <= k THEN file[i] ELSE Zero]
  BY <1>2, <1>3 DEF WriteAt
<1>5. ASSUME NEW i \in 1..(k + n)
      PROVE  (IF i \in (k + 1)..(k + n) THEN bytes[i - k]
              ELSE IF i <= k THEN file[i] ELSE Zero) = <<u, i>>
  <2>1. CASE i <= k
    BY <1>1, <2>1
  <2>2. CASE ~(i <= k)
    <3>1. i - k \in 1..n /\ k + (i - k) = i /\ i \in (k + 1)..(k + n)
      BY <2>2
    <3>2. bytes[i - k] = <<u, i>>
      BY <1>1, <3>1
    <3> QED BY <3>1, <3>2
  <2> QED BY <2>1, <2>2
<1> QED BY <1>4, <1>5 DEF Source, file, bytes

LEMMA WrapBelow == Wrap(0) = 0 /\ \A n \in Nat : Wrap(n) <= n
<1>1. Wrap(0) = 0
  BY ConstantsTyped DEF Wrap
<1>2. ASSUME NEW n \in Nat PROVE Wrap(n) <= n
  <2>1. CASE n < IntLimit
    BY <2>1, ConstantsTyped DEF Wrap
  <2>2. CASE ~(n < IntLimit)
    BY <2>2, WrapType, ConstantsTyped DEF Int32
  <2> QED BY <2>1, <2>2
<1> QED BY <1>1, <1>2

LEMMA InitCopy == ASSUME Clean, Init PROVE CopyInv
<1>1. ASSUME NEW u \in Uploads PROVE Copying(u)
  <2>1. start[u] = 0 /\ toServer[u] = <<>> /\ cli[u] = "connecting"
    BY DEF Init
  <2>2. stored[nameOf[u]] = [i \in 1..0 |-> Old]
    BY ConstantsTyped DEF Init, Clean
  <2>3. stored[nameOf[u]] = Source(u, 0)
    BY <2>2 DEF Source
  <2>4. Held(u) = 0
    BY <2>1 DEF Held
  <2> QED BY <2>1, <2>3, <2>4, ConstantsTyped DEF Copying
<1> QED BY <1>1, InitUpload DEF CopyInv

\* A step of u leaves the other uploads, their files included, alone.
OthersCopy(u) ==
  \A v \in Uploads \ {u} : /\ cli'[v] = cli[v]
                           /\ start'[v] = start[v]
                           /\ toServer'[v] = toServer[v]
                           /\ stored'[nameOf[v]] = stored[nameOf[v]]

LEMMA CopyFrame ==
  ASSUME CopyInv, NEW u \in Uploads, OthersCopy(u), UploadInv', Copying(u)'
  PROVE  CopyInv'
<1>1. ASSUME NEW v \in Uploads \ {u} PROVE Copying(v)'
  BY <1>1 DEF CopyInv, Copying, Held, OthersCopy
<1> QED BY <1>1 DEF CopyInv

LEMMA ChannelActiveCopy ==
  ASSUME Clean, CopyInv, NEW u \in Uploads, ChannelActive(u)
  PROVE  Copying(u)' /\ OthersCopy(u)
<1> DEFINE m == [bytes |-> Bytes(u, 0, Chunk, Chunk), endPos |-> Chunk]
<1>1. /\ toServer[u] = <<>> /\ start[u] = 0 /\ cli[u] = "connecting"
      /\ stored[nameOf[u]] = Source(u, 0)
  <2>1. toServer[u] = <<>> /\ start[u] = 0 /\ cli[u] = "connecting"
    BY DEF CopyInv, UploadInv, Turn, ChannelActive
  <2>2. Held(u) = 0
    BY <2>1 DEF Held
  <2> QED BY <2>1, <2>2 DEF CopyInv, Copying
<1>2. starPos[u] = 0 /\ Lower(Chunk, fileLen[u] - starPos[u]) = Chunk /\ Chunk > 0
  BY ConstantsTyped DEF Clean, Lower
<1>3. toServer' = [toServer EXCEPT ![u] = <<m>>]
  <2>1. toServer' = [toServer EXCEPT ![u] = Append(@, m)]
    BY <1>2 DEF ChannelActive, Send
  <2>2. Append(<<>>, m) = <<m>>
    OBVIOUS
  <2> QED BY <1>1, <2>1, <2>2 DEF CopyInv, UploadInv, Shape
<1>4. toServer'[u] = <<m>> /\ Head(<<m>>) = m
  BY <1>3 DEF CopyInv, UploadInv, Shape
<1>5. m.endPos = Chunk /\ m.bytes = Bytes(u, 0, Chunk, Chunk)
  OBVIOUS
<1> HIDE DEF m
<1>6. /\ start'[u] = 0 /\ cli'[u] = "open"
      /\ stored' = stored
  BY <1>1 DEF ChannelActive, CopyInv, UploadInv, Shape
<1>7. Chunk \in 0..(fileLen[u] - 0) /\ 0 \in 0..fileLen[u]
  BY ConstantsTyped DEF Clean
<1>8. Copying(u)'
  BY <1>1, <1>2, <1>4, <1>5, <1>6, <1>7 DEF Copying, Held
<1>9. OthersCopy(u)
  BY <1>3 DEF OthersCopy, ChannelActive, CopyInv, UploadInv, Shape
<1> QED BY <1>8, <1>9

\* A reply whose position can be sought: the client takes no more than what remains,
\* though what remains may be more than an int can hold.
LEMMA ReplyExact ==
  ASSUME CopyInv, NEW u \in Uploads, Receive(u), ~SeekFails(u)
  PROVE  /\ Head(toClient[u]) = start[u]
         /\ toServer[u] = <<>>
         /\ Held(u) = start[u] /\ start[u] \in 0..fileLen[u]
         /\ Remaining(u) = fileLen[u] - start[u] /\ Remaining(u) \in Nat
         /\ NextLength(u) \in 0..Remaining(u)
         /\ ByteRead(u) = NextLength(u)
<1>1. Head(toClient[u]) = start[u] /\ toServer[u] = <<>>
  BY ReplyRead DEF CopyInv
<1>2. start[u] \in Int /\ start[u] >= 0 /\ fileLen[u] \in Nat
  BY <1>1, ConstantsTyped DEF SeekFails, CopyInv, UploadInv, Shape, Int32
<1>3. Held(u) = start[u] /\ start[u] \in 0..fileLen[u]
  BY <1>2 DEF Held, CopyInv, Copying
<1>4. Remaining(u) = fileLen[u] - start[u] /\ Remaining(u) \in Nat
  BY <1>1, <1>2, <1>3 DEF Remaining
<1>5. lastLength[u] \in Nat /\ Wrap(Remaining(u)) \in Int /\ Wrap(Remaining(u)) <= Remaining(u)
  BY <1>4, WrapType, WrapBelow, ConstantsTyped DEF CopyInv, UploadInv, Shape, Int32
<1>6. NextLength(u) \in Int /\ NextLength(u) >= 0 /\ NextLength(u) <= Wrap(Remaining(u))
  BY <1>4, <1>5 DEF NextLength, Lower, SeekFails
<1>7. NextLength(u) \in 0..Remaining(u)
  BY <1>4, <1>5, <1>6
<1>8. ByteRead(u) = NextLength(u)
  BY <1>4, <1>7 DEF ByteRead, Lower
<1> QED BY <1>1, <1>3, <1>4, <1>7, <1>8

LEMMA SendNextCopy ==
  ASSUME Clean, CopyInv, NEW u \in Uploads, SendNext(u)
  PROVE  Copying(u)' /\ OthersCopy(u)
<1> DEFINE n == NextLength(u)
           m == [bytes |-> Bytes(u, start[u], n, n), endPos |-> n]
<1>0. Receive(u) /\ ~SeekFails(u)
  BY DEF SendNext
<1>1. /\ Head(toClient[u]) = start[u] /\ toServer[u] = <<>>
      /\ Held(u) = start[u] /\ start[u] \in 0..fileLen[u]
      /\ n \in 0..(fileLen[u] - start[u])
  BY <1>0, ReplyExact
<1>2. ByteRead(u) = n
  BY <1>0, ReplyExact
<1>3. toServer' = [toServer EXCEPT ![u] = <<m>>]
  <2>1. toServer' = [toServer EXCEPT ![u] = Append(@, m)]
    BY <1>1, <1>2 DEF SendNext, Send
  <2>2. Append(<<>>, m) = <<m>>
    OBVIOUS
  <2> HIDE DEF m
  <2> QED BY <1>1, <2>1, <2>2 DEF CopyInv, UploadInv, Shape
<1>4. m.endPos = n /\ m.bytes = Bytes(u, start[u], n, n)
  OBVIOUS
<1> HIDE DEF m
<1>5. toServer'[u] = <<m>> /\ Head(<<m>>) = m
  BY <1>3 DEF CopyInv, UploadInv, Shape
<1>6. start' = start /\ cli' = cli /\ cli[u] = "open" /\ stored' = stored
  BY DEF SendNext, Receive
<1> HIDE DEF n
<1>7. Copying(u)'
  <2>1. Held(u)' = Held(u)
    BY <1>6 DEF Held
  <2>2. stored[nameOf[u]] = Source(u, start[u])
    BY <1>1 DEF CopyInv, Copying
  <2> QED BY <1>1, <1>4, <1>5, <1>6, <2>1, <2>2 DEF Copying
<1>8. OthersCopy(u)
  BY <1>3, <1>6 DEF OthersCopy, CopyInv, UploadInv, Shape
<1> QED BY <1>7, <1>8

\* Steps after which u sends nothing and nothing is written.
LEMMA QuietCopy ==
  ASSUME CopyInv, NEW u \in Uploads,
         \/ CloseAtEnd(u) \/ ClientError(u) \/ ClientInactive(u)
         \/ Wake(u) \/ ServerInactive(u) \/ ClientCut(u) \/ ServerCut(u)
  PROVE  Copying(u)' /\ OthersCopy(u)
<1>1. /\ stored' = stored /\ start' = start
      /\ toServer'[u] = <<>> \/ toServer' = toServer
      /\ \A v \in Uploads \ {u} : toServer'[v] = toServer[v]
      /\ \A v \in Uploads \ {u} : cli'[v] = cli[v]
  BY DEF CloseAtEnd, ClientError, ClientInactive, Wake, ServerInactive, ClientCut,
         ServerCut, Receive, CopyInv, UploadInv, Shape
<1>2. \/ cli'[u] = "complete" /\ toServer'[u] = <<>>
      \/ cli'[u] = "broken"
      \/ cli'[u] = cli[u]
  <2>1. CASE CloseAtEnd(u)
    <3>1. toServer[u] = <<>>
      BY <2>1, ReplyRead DEF CloseAtEnd, CopyInv
    <3> QED BY <2>1, <3>1 DEF CloseAtEnd, Receive, CopyInv, UploadInv, Shape
  <2>2. CASE ~CloseAtEnd(u)
    BY <2>2 DEF ClientError, ClientInactive, Wake, ServerInactive, ClientCut,
                ServerCut, Receive, CopyInv, UploadInv, Shape
  <2> QED BY <2>1, <2>2
<1>3. Copying(u)'
  BY <1>1, <1>2 DEF CopyInv, Copying, Held
<1> QED BY <1>1, <1>3 DEF OthersCopy

LEMMA StoreCopy ==
  ASSUME Clean, CopyInv, NEW u \in Uploads, Store(u)
  PROVE  /\ Copying(u)' /\ OthersCopy(u)
         /\ cli[u] # "complete" /\ cli' = cli
         /\ \E k \in 0..fileLen[u] : \E m \in k..fileLen[u] :
              /\ stored[nameOf[u]] = Source(u, k)
              /\ stored' = [stored EXCEPT ![nameOf[u]] = Source(u, m)]
<1> DEFINE k == start[u]
           n == Head(toServer[u]).endPos
<1>1. /\ k \in 0..fileLen[u] /\ k < IntLimit /\ n \in 0..(fileLen[u] - k) /\ n <= Chunk
      /\ stored[nameOf[u]] = Source(u, k)
      /\ Head(toServer[u]).bytes = Bytes(u, k, n, n)
      /\ cli[u] # "complete"
  <2>1. /\ toServer[u] # <<>> /\ toServer[u] \in Seq(Message) /\ k >= 0 /\ k \in Int32
    BY DEF CopyInv, UploadInv, Shape, Turn, Store, Take
  <2>2. Head(toServer[u]) \in Message
    <3> DEFINE M == Message
    <3>1. toServer[u] # <<>> /\ toServer[u] \in Seq(M)
      BY <2>1
    <3> HIDE DEF M
    <3>2. Head(toServer[u]) \in M
      BY <3>1
    <3> QED BY <3>2 DEF M
  <2>3. n \in 0..Chunk
    BY <2>2 DEF Message
  <2>4. Held(u) = k
    BY <2>1 DEF Held
  <2> QED BY <2>1, <2>3, <2>4, ConstantsTyped DEF CopyInv, Copying, Int32
<1>2. /\ k \in Nat /\ n \in Nat /\ fileLen[u] \in Nat
      /\ k + n \in k..fileLen[u] /\ k + n \in 0..(2 * IntLimit - 2)
  <2>1. fileLen[u] \in Nat
    BY ConstantsTyped
  <2> HIDE DEF k, n
  <2> QED BY <1>1, <2>1, ConstantsTyped
<1>3. stored' = [stored EXCEPT ![nameOf[u]] = Source(u, k + n)]
  <2>1. stored' = [stored EXCEPT ![nameOf[u]] = WriteAt(@, k, Bytes(u, k, n, n))]
    BY <1>1 DEF Store
  <2>2. WriteAt(Source(u, k), k, Bytes(u, k, n, n)) = Source(u, k + n)
    <3> HIDE DEF k, n
    <3> QED BY <1>2, WriteNext
  <2> HIDE DEF k, n
  <2> QED BY <1>1, <2>1, <2>2, ConstantsTyped DEF CopyInv, UploadInv, Shape
<1>4. start' = [start EXCEPT ![u] = Wrap(k + n)]
  BY DEF Store
<1>5. UNCHANGED <<cli, lastLength>> /\ toServer' = [toServer EXCEPT ![u] = <<>>]
  <2>1. /\ toServer[u] \in Seq(Message) /\ toClient[u] \in Seq(Int32)
        /\ Len(toServer[u]) + Len(toClient[u]) <= 1 /\ toServer[u] # <<>>
    BY DEF CopyInv, UploadInv, Shape, Turn, Store, Take
  <2>2. Tail(toServer[u]) = <<>>
    BY <2>1, AtMostOne
  <2> QED BY <2>2 DEF Store, Take, CopyInv, UploadInv, Shape
<1> HIDE DEF k, n
<1>6. Copying(u)'
  <2>1. /\ start'[u] = Wrap(k + n) /\ toServer'[u] = <<>>
        /\ stored'[nameOf[u]] = Source(u, k + n)
    BY <1>3, <1>4, <1>5, ConstantsTyped DEF CopyInv, UploadInv, Shape
  <2>2. Held(u)' = k + n
    <3> DEFINE x == k + n
               y == start'[u]
    <3>1. x \in Nat /\ x \in 0..(2 * IntLimit - 2) /\ y = Wrap(x)
      BY <1>2, <2>1
    <3>2. Held(u)' = IF y >= 0 THEN y ELSE y + 2 * IntLimit
      BY DEF Held
    <3> HIDE DEF x, y
    <3>3. y = IF x < IntLimit THEN x ELSE x - 2 * IntLimit
      BY <3>1, WrapSum
    <3>4. Held(u)' = x
      BY <3>1, <3>2, <3>3, ConstantsTyped
    <3> QED BY <3>4 DEF x
  <2>3. k + n \in 0..fileLen[u]
    BY <1>2
  <2> QED BY <1>5, <2>1, <2>2, <2>3 DEF CopyInv, Copying
<1>7. OthersCopy(u)
  <2>1. \A v \in Uploads \ {u} : nameOf[v] # nameOf[u]
    BY DEF Clean
  <2> QED BY <1>3, <1>4, <1>5, <2>1, ConstantsTyped DEF OthersCopy, CopyInv, UploadInv, Shape
<1> QED BY <1>1, <1>2, <1>3, <1>5, <1>6, <1>7

LEMMA StepCopy == ASSUME Clean, CopyInv, [Next]_vars PROVE CopyInv'
<1>1. UploadInv'
  BY StepUpload DEF CopyInv
<1>2. CASE UNCHANGED vars
  BY <1>1, <1>2 DEF vars, CopyInv, Copying, Held
<1>3. ASSUME NEW u \in Uploads, Handler(u) \/ ClientCut(u) \/ ServerCut(u)
      PROVE  CopyInv'
  <2>1. Copying(u)' /\ OthersCopy(u)
    BY <1>3, ChannelActiveCopy, SendNextCopy, QuietCopy, StoreCopy DEF Handler
  <2> QED BY <1>1, <2>1, CopyFrame
<1> QED BY <1>2, <1>3 DEF Next

Copies == [u \in Uploads |-> stored[nameOf[u]]]
Status(u) == IF cli[u] \in {"complete", "broken"} THEN cli[u] ELSE "running"
Statuses == [u \in Uploads |-> Status(u)]

\* Steps of u that FileTransfer does not see.
LEMMA Stutter ==
  ASSUME CopyInv, NEW u \in Uploads, stored' = stored, OthersCopy(u),
         Status(u)' = Status(u)
  PROVE  Copies' = Copies /\ Statuses' = Statuses
<1>1. \A v \in Uploads : Status(v)' = Status(v)
  BY DEF OthersCopy, Status
<1> QED BY <1>1 DEF Copies, Statuses

\* Steps of u that change only its status.
LEMMA StatusStep ==
  ASSUME CopyInv, NEW u \in Uploads, stored' = stored, OthersCopy(u)
  PROVE  Copies' = Copies /\ Statuses' = [Statuses EXCEPT ![u] = Status(u)']
<1>1. \A v \in Uploads \ {u} : Status(v)' = Status(v)
  BY DEF OthersCopy, Status
<1> QED BY <1>1 DEF Copies, Statuses

LEMMA StepImplements ==
  ASSUME Clean, CopyInv, NEW u \in Uploads, Handler(u) \/ ClientCut(u) \/ ServerCut(u)
  PROVE  \/ Transfer!Extend(u) \/ Transfer!Complete(u) \/ Transfer!Break(u)
         \/ Copies' = Copies /\ Statuses' = Statuses
<1>0. /\ Copies = [v \in Uploads |-> stored[nameOf[v]]]
      /\ Statuses[u] = Status(u) /\ Copies[u] = stored[nameOf[u]]
  BY DEF Copies, Statuses
<1>1. CASE ChannelActive(u) \/ SendNext(u)
  <2>1. OthersCopy(u) /\ stored' = stored
    BY <1>1, ChannelActiveCopy, SendNextCopy DEF ChannelActive, SendNext, Receive
  <2>2. Status(u)' = Status(u)
    BY <1>1 DEF ChannelActive, SendNext, Status, CopyInv, UploadInv, Shape
  <2> QED BY <2>1, <2>2, Stutter
<1>2. CASE Wake(u) \/ ServerInactive(u) \/ ServerCut(u)
  <2>1. OthersCopy(u)
    BY <1>2, QuietCopy
  <2>2. stored' = stored /\ Status(u)' = Status(u)
    BY <1>2 DEF Wake, ServerInactive, ServerCut, Status
  <2> QED BY <2>1, <2>2, Stutter
<1>3. CASE CloseAtEnd(u)
  <2>1. stored' = stored /\ Status(u) = "running" /\ Status(u)' = "complete"
    BY <1>3 DEF CloseAtEnd, Receive, Status, CopyInv, UploadInv, Shape
  <2>2. Held(u) = fileLen[u]
    <3>1. /\ Held(u) = start[u] /\ start[u] \in 0..fileLen[u] /\ fileLen[u] \in Nat
          /\ Remaining(u) = fileLen[u] - start[u] /\ Remaining(u) \in Nat
          /\ ByteRead(u) \in Nat
      BY <1>3, ReplyExact, ConstantsTyped DEF CloseAtEnd
    <3>2. Remaining(u) = 0
      BY <1>3, <3>1 DEF CloseAtEnd
    <3> QED BY <3>1, <3>2
  <2>3. Copies' = Copies /\ Statuses' = [Statuses EXCEPT ![u] = "complete"]
    BY <1>3, <2>1, QuietCopy, StatusStep
  <2>4. Copies[u] = Source(u, fileLen[u])
    BY <1>0, <2>2 DEF CopyInv, Copying
  <2> QED BY <1>0, <2>1, <2>3, <2>4 DEF Transfer!Complete, Copies, Statuses, Status
<1>4. CASE ClientError(u) \/ ClientInactive(u) \/ ClientCut(u)
  <2>1. stored' = stored /\ Status(u) = "running" /\ Status(u)' = "broken"
    BY <1>4 DEF ClientError, ClientInactive, ClientCut, Receive, Status, CopyInv,
                UploadInv, Shape
  <2>2. Copies' = Copies /\ Statuses' = [Statuses EXCEPT ![u] = "broken"]
    BY <1>4, <2>1, QuietCopy, StatusStep
  <2> QED BY <1>0, <2>1, <2>2 DEF Transfer!Break, Copies, Statuses, Status
<1>5. CASE Store(u)
  <2>1. cli[u] # "complete" /\ cli' = cli
    BY <1>5, StoreCopy
  <2>2. PICK k \in 0..fileLen[u] : \E m \in k..fileLen[u] :
           /\ stored[nameOf[u]] = Source(u, k)
           /\ stored' = [stored EXCEPT ![nameOf[u]] = Source(u, m)]
    BY <1>5, StoreCopy
  <2>3. PICK m \in k..fileLen[u] :
           /\ stored[nameOf[u]] = Source(u, k)
           /\ stored' = [stored EXCEPT ![nameOf[u]] = Source(u, m)]
    BY <2>2
  <2>4. Copies' = [Copies EXCEPT ![u] = Source(u, m)]
    <3>1. \A v \in Uploads \ {u} : nameOf[v] # nameOf[u]
      BY DEF Clean
    <3>2. \A v \in Uploads : stored'[nameOf[v]] =
                               IF v = u THEN Source(u, m) ELSE stored[nameOf[v]]
      BY <2>3, <3>1, ConstantsTyped DEF CopyInv, UploadInv, Shape
    <3> QED BY <3>2 DEF Copies
  <2>5. Statuses' = Statuses /\ Statuses[u] # "complete"
    BY <1>0, <2>1 DEF Statuses, Status
  <2>6. Copies[u] = Source(u, k)
    BY <1>0, <2>3
  <2>7. CASE m = k
    <3>1. Copies' = Copies
      BY <2>4, <2>6, <2>7 DEF Copies
    <3> QED BY <2>5, <3>1
  <2>8. CASE m # k
    <3>1. m \in (k + 1)..fileLen[u]
      BY <2>8
    <3> QED BY <2>4, <2>5, <2>6, <3>1 DEF Transfer!Extend, Copies, Statuses, Status
  <2> QED BY <2>7, <2>8
<1> QED BY <1>1, <1>2, <1>3, <1>4, <1>5 DEF Handler

\* Uploads with names of their own, new to the server, from position 0 and of at
\* least a chunk: the handlers implement the transfer, whatever connections break,
\* also where start or what remains of the file overflows an int.
THEOREM UploadImplements == ASSUME Clean PROVE Spec => TransferSpec
<1>1. Init => CopyInv
  BY InitCopy
<1>2. CopyInv /\ [Next]_vars => CopyInv'
  BY StepCopy
<1>3. Init => Transfer!Init
  <2> SUFFICES ASSUME Init PROVE Transfer!Init
    OBVIOUS
  <2>1. \A u \in Uploads : /\ stored[nameOf[u]] = Source(u, 0)
                           /\ cli[u] = "connecting"
    <3> SUFFICES ASSUME NEW u \in Uploads
                 PROVE  stored[nameOf[u]] = Source(u, 0) /\ cli[u] = "connecting"
      OBVIOUS
    <3>1. start[u] = 0 /\ cli[u] = "connecting"
      BY DEF Init
    <3>2. Held(u) = 0
      <4>1. 0 >= 0
        OBVIOUS
      <4> QED BY <3>1, <4>1 DEF Held
    <3>3. stored[nameOf[u]] = Source(u, Held(u))
      BY InitCopy DEF CopyInv, Copying
    <3> QED BY <3>1, <3>2, <3>3
  <2> QED BY <2>1 DEF Transfer!Init
<1>4. CopyInv /\ [Next]_vars => [Transfer!Next]_<<Copies, Statuses>>
  <2> SUFFICES ASSUME CopyInv, [Next]_vars
               PROVE  Transfer!Next \/ (Copies' = Copies /\ Statuses' = Statuses)
    OBVIOUS
  <2>1. CASE UNCHANGED vars
    BY <2>1 DEF vars, Copies, Statuses, Status
  <2>2. CASE Next
    BY <2>2, StepImplements DEF Next, Transfer!Next
  <2> QED BY <2>1, <2>2
<1>5. CopyInv /\ [Next]_vars
        => [Transfer!Next]_<<[u \in Uploads |-> stored[nameOf[u]]],
             [u \in Uploads |-> IF cli[u] \in {"complete", "broken"} THEN cli[u]
                                ELSE "running"]>>
  BY <1>4 DEF Copies, Statuses, Status
<1> QED BY <1>1, <1>2, <1>3, <1>5, PTL DEF Spec, TransferSpec, Transfer!Spec

=============================================================================
