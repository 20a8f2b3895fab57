-------------------------- MODULE PullThreadProofs --------------------------
(***************************************************************************)
(* Proofs about PullThread for every window size, any frames, every size   *)
(* of the muxer's buffer that fits into an unsigned short, and any number  *)
(* of connections: the FFmpeg contexts are used while they are open and    *)
(* freed once, a packet carries every byte that was written for its frame, *)
(* and the thread is the one that CameraManage has and the source of       *)
(* packets that HlsStream has.                                             *)
(***************************************************************************)
EXTENDS PullThread, PacketWindowProofs

(* Division with remainder. *)
LEMMA Remainder ==
  ASSUME NEW n \in Nat, NEW d \in Nat \ {0}
  PROVE  n % d = n - d * (n \div d)
  OBVIOUS

(* Quotient and remainder, by what they are for. *)
LEMMA Rounds ==
  ASSUME NEW n \in Nat, NEW d \in Nat \ {0}
  PROVE  \E q, r \in Nat : n \div d = q /\ n % d = r /\ r < d /\ q * d + r = n
<1>1. PICK q \in Nat : q = n \div d
  OBVIOUS
<1>2. PICK r \in Nat : r = n % d /\ r < d
  OBVIOUS
<1>3. r = n - d * q
  BY <1>1, <1>2, Remainder
<1>4. q * d + r = n
  BY <1>3
<1>5. QED BY <1>1, <1>2, <1>4

(* A size that fits into an unsigned short keeps its value. *)
LEMMA SmallIsKept ==
  ASSUME NEW size \in Nat, size < UShortValues
  PROVE  AsUShort(size) = size
  BY PullThreadAssumption DEF AsUShort
-----------------------------------------------------------------------------
States == {"allocated", "opened", "freed", "leaked", "twice"}

(* The packets the filter has not yielded yet have a duration and a size. *)
PendingOK == pending \in Seq([duration : Nat, bytes : Nat])

(* Where the thread is in Connect, and what it then has: the current context
   is the last one made, and is not connected while the thread connects. *)
ConnectOK ==
  /\ pc = "open" => ic # 0 /\ context[ic] = "allocated"
  /\ pc # "open" => ic = 0 \/ context[ic] = "opened"
  /\ pc \in {"findInfo", "findStream"} => ic # 0
  /\ pc \in Connecting => ~isConnect
  /\ pc \in {"read"} \cup Muxing => isConnect

(* While a frame is muxed what was written is in tsData or still in the
   buffer; between two frames the buffer is empty. *)
MuxOK ==
  /\ pc = "receive" => written = tsData + ioBuffer
  /\ pc # "receive" => ioBuffer = 0
  /\ pc = "append" => tsData = written

EndOK ==
  /\ connectFail <=> pc \in {"close", "exited"}
  /\ isQuit => connectFail

IInv == TypeOK /\ PendingOK /\ ConnectOK /\ ContextsSound /\ MuxOK /\ EndOK
-----------------------------------------------------------------------------
(* TypeOK, one variable at a time. *)
Types ==
  /\ pc \in {"loop", "read", "close", "exited"} \cup Connecting \cup Muxing
  /\ isQuit \in BOOLEAN /\ closed \in BOOLEAN
  /\ isConnect \in BOOLEAN /\ connectFail \in BOOLEAN
  /\ context \in Seq(States)
  /\ ic \in 0..Len(context) /\ parameters \in 0..Len(context)
  /\ muxerOf \in 0..Len(context)
  /\ videoIndex \in StreamIndices \cup {0, -1}
  /\ tryConnectCount \in Nat /\ packetCount \in Nat
  /\ tsDuration \in Nat /\ tsData \in Nat /\ written \in Nat
  /\ ioBuffer \in Nat /\ ioBuffer < TsIoBufferLen
  /\ frame \in Frames \cup {NoFrame}
  /\ inPackets \in Seq(PacketSet)

(* The two say the same. *)
LEMMA TypesAre == TypeOK <=> Types
  BY DEF TypeOK, Types, States, PacketSet

(* At the start nothing is made. *)
LEMMA IInvInit == Init => IInv
<1> SUFFICES ASSUME Init PROVE IInv
  OBVIOUS
<1>1. Types
  <2>1. 0 < TsIoBufferLen
    BY PullThreadAssumption
  <2>2. /\ context \in Seq(States) /\ Len(context) = 0
        /\ inPackets \in Seq(PacketSet)
    BY DEF Init
  <2>3. 0 \in 0..Len(context)
    BY <2>2
  <2>4. /\ ic = 0 /\ parameters = 0 /\ muxerOf = 0 /\ videoIndex = 0
        /\ pc = "loop" /\ isQuit = FALSE /\ closed = FALSE
        /\ isConnect = FALSE /\ connectFail = FALSE
        /\ tryConnectCount = 0 /\ packetCount = 0 /\ tsDuration = 0
        /\ tsData = 0 /\ written = 0 /\ ioBuffer = 0 /\ frame = NoFrame
    BY DEF Init
  <2>5. QED BY <2>1, <2>2, <2>3, <2>4 DEF Types
<1>2. TypeOK /\ PendingOK
  BY <1>1, TypesAre DEF Init, PendingOK
<1>3. ConnectOK /\ ContextsSound
  BY DEF Init, ConnectOK, ContextsSound, Connecting, Muxing
<1>4. MuxOK /\ EndOK
  BY DEF Init, MuxOK, EndOK
<1>5. QED BY <1>2, <1>3, <1>4 DEF IInv

(* The steps outside Connect and CreateTs. *)
Around == Loop \/ CloseNow \/ WaitClose \/ ReadError \/ OtherFrame

(* Each of them keeps the invariant. *)
LEMMA AroundStep ==
  ASSUME IInv, Around
  PROVE  IInv'
<1>1. TypeOK'
  <2>1. Types
    BY TypesAre DEF IInv
  <2>2. UNCHANGED <<context, ic, parameters, videoIndex, muxVars, windowVars>>
    BY DEF Around, Loop, CloseNow, WaitClose, ReadError, OtherFrame, connectVars
  <2> DEFINE Places == {"loop", "read", "close", "exited"} \cup Connecting \cup Muxing
  <2>3. /\ pc' \in Places
        /\ isQuit' \in BOOLEAN /\ closed' \in BOOLEAN
        /\ isConnect' \in BOOLEAN /\ connectFail' \in BOOLEAN
        /\ tryConnectCount' \in Nat
    <3>1. CASE Loop
      BY <2>1, <3>1 DEF Types, Loop, Connecting, closeVars
    <3>2. CASE CloseNow \/ WaitClose
      BY <2>1, <3>2 DEF Types, CloseNow, WaitClose, connectVars
    <3>3. CASE ReadError \/ OtherFrame
      BY <2>1, <3>3 DEF Types, ReadError, OtherFrame, connectVars, closeVars
    <3>4. QED BY <3>1, <3>2, <3>3 DEF Around
  <2>4. Types'
    BY <2>1, <2>2, <2>3 DEF Types, muxVars, windowVars
  <2>5. QED BY <2>4 DEF Types, TypeOK, States, PacketSet
<1>2. PendingOK' /\ EndOK'
  BY DEF IInv, PendingOK, EndOK, Around, Loop, CloseNow, WaitClose, ReadError,
         OtherFrame, closeVars, connectVars, muxVars, windowVars
<1>3. ConnectOK' /\ ContextsSound'
  BY DEF IInv, EndOK, ConnectOK, ContextsSound, Around, Loop, CloseNow, WaitClose,
         ReadError, OtherFrame, Connecting, Muxing, closeVars, connectVars,
         muxVars, windowVars
<1>4. MuxOK'
  BY DEF IInv, MuxOK, Around, Loop, CloseNow, WaitClose, ReadError, OtherFrame,
         closeVars, connectVars, muxVars, windowVars
<1>5. QED BY <1>1, <1>2, <1>3, <1>4 DEF IInv

(* Connect leaves the frames alone. *)
LEMMA ConnectLeavesFrames ==
  ASSUME IInv, Connect
  PROVE  PendingOK' /\ MuxOK' /\ EndOK'
<1>1. /\ UNCHANGED <<closeVars, muxVars, windowVars>>
      /\ pc \in Connecting
      /\ pc' \in Connecting \cup {"read", "loop", "close"}
      /\ pc' = "close" <=> connectFail'
  BY DEF IInv, EndOK, Connect, AllocContext, OpenInput, OpenInputFails, FindStreamInfo,
         FindStreamInfoFails, FindBestStream, FindBestStreamFails, Fails,
         connectVars, Connecting
<1>2. QED
  BY <1>1 DEF IInv, PendingOK, MuxOK, EndOK, Connecting, closeVars, muxVars, windowVars

(* What the current context becomes when it is freed: the others stay. *)
LEMMA FreedKeeps ==
  ASSUME NEW n \in Nat, context \in [1..n -> States], NEW c \in 1..n
  PROVE  /\ Freed(c) \in [1..n -> States]
         /\ context[c] \in {"allocated", "opened"} => Freed(c)[c] \in {"freed", "leaked"}
         /\ \A d \in 1..n : d # c => Freed(c)[d] = context[d]
  BY DEF Freed, States

(* A new context is the last, and the only one that is not freed. *)
LEMMA AllocContextStep ==
  ASSUME IInv, AllocContext
  PROVE  TypeOK' /\ ConnectOK' /\ ContextsSound'
<1> DEFINE old == IF ic = 0 THEN context ELSE Freed(ic)
           n == Len(context)
<1>1. /\ context \in Seq(States) /\ n \in Nat /\ ic \in 0..n
      /\ context \in [1..n -> States]
  BY DEF IInv, TypeOK, States
<1>2. ic # 0 => context[ic] = "opened"
  BY DEF IInv, ConnectOK, AllocContext
<1>3. /\ old \in [1..n -> States]
      /\ \A d \in 1..n : old[d] \in {"freed", "leaked"}
  <2>1. CASE ic = 0
    BY <1>1, <2>1 DEF IInv, ContextsSound, States
  <2>2. CASE ic # 0
    <3>1. ic \in 1..n /\ context[ic] = "opened" /\ old = Freed(ic)
      BY <1>1, <1>2, <2>2
    <3>2. \A d \in 1..n : d # ic => context[d] \in {"freed", "leaked"}
      BY <1>1, <3>1 DEF IInv, ContextsSound, States
    <3>3. QED BY <1>1, <3>1, <3>2, FreedKeeps
  <2>3. QED BY <2>1, <2>2
<1>4. old \in Seq(States) /\ Len(old) = n
  BY <1>1, <1>3
<1> HIDE DEF old
<1>5. /\ context' = Append(old, "allocated") /\ ic' = Len(context') /\ pc' = "open"
      /\ UNCHANGED <<isConnect, videoIndex, parameters>>
  BY DEF AllocContext, old
<1>6. /\ context' \in Seq(States) /\ Len(context') = n + 1
      /\ context'[n + 1] = "allocated"
      /\ \A d \in 1..n : context'[d] = old[d]
  BY <1>4, <1>5 DEF States
<1>7. TypeOK'
  BY <1>1, <1>5, <1>6 DEF AllocContext, IInv, TypeOK, States, Connecting,
     closeVars, muxVars, windowVars
<1>8. ~isConnect
  BY DEF IInv, ConnectOK, AllocContext, Connecting
<1>9. ConnectOK'
  BY <1>1, <1>5, <1>6, <1>8 DEF ConnectOK, Connecting, Muxing
<1>10. ContextsSound'
  BY <1>1, <1>3, <1>5, <1>6, <1>8 DEF ContextsSound, Muxing
<1>11. QED BY <1>7, <1>9, <1>10

(* The current context is opened, or its opening fails and it is freed. *)
LEMMA OpenInputStep ==
  ASSUME IInv, OpenInput \/ OpenInputFails
  PROVE  TypeOK' /\ ConnectOK' /\ ContextsSound'
<1> DEFINE n == Len(context)
<1>1. /\ context \in [1..n -> States] /\ n \in Nat /\ ic \in 1..n
      /\ context[ic] = "allocated" /\ ~isConnect
      /\ \A d \in 1..n : d # ic => context[d] \in {"freed", "leaked"}
  <2>1. context \in Seq(States) /\ ic \in 0..n
    BY TypesAre DEF IInv, Types
  <2>2. ic # 0 /\ context[ic] = "allocated" /\ ~isConnect
    BY DEF IInv, ConnectOK, OpenInput, OpenInputFails, Connecting
  <2>3. n \in Nat /\ context \in [1..n -> States] /\ ic \in 1..n
    BY <2>1, <2>2
  <2>4. QED BY <2>2, <2>3 DEF IInv, ContextsSound, States
<1>2. /\ UNCHANGED <<isQuit, closed, isConnect, tryConnectCount, parameters,
                     videoIndex, muxVars, windowVars>>
      /\ connectFail' \in BOOLEAN /\ pc' \in {"findInfo", "close", "loop"}
  BY DEF IInv, TypeOK, OpenInput, OpenInputFails, Fails, closeVars
<1>3. CASE OpenInput
  <2>1. /\ context' = [context EXCEPT ![ic] = "opened"] /\ ic' = ic /\ pc' = "findInfo"
    BY <1>3 DEF OpenInput
  <2>2. /\ context' \in [1..n -> States] /\ context'[ic] = "opened"
        /\ \A d \in 1..n : d # ic => context'[d] = context[d]
    BY <1>1, <2>1 DEF States
  <2>3. context' \in Seq(States) /\ Len(context') = n
    BY <1>1, <2>2
  <2>4. Types'
    BY <1>1, <1>2, <2>1, <2>3, TypesAre DEF IInv, Types, Connecting, muxVars, windowVars
  <2>5. ConnectOK' /\ ContextsSound'
    BY <1>1, <1>2, <2>1, <2>2, <2>3 DEF ConnectOK, ContextsSound, Connecting, Muxing
  <2>6. QED BY <2>4, <2>5 DEF Types, TypeOK, States, PacketSet
<1>4. CASE OpenInputFails
  <2>1. /\ context' = Freed(ic) /\ ic' = 0 /\ pc' \in {"close", "loop"}
    BY <1>4 DEF OpenInputFails, Fails
  <2>2. /\ context' \in [1..n -> States]
        /\ \A d \in 1..n : context'[d] \in {"freed", "leaked"}
    BY <1>1, <2>1, FreedKeeps
  <2>3. context' \in Seq(States) /\ Len(context') = n
    BY <1>1, <2>2
  <2>4. Types'
    BY <1>1, <1>2, <2>1, <2>3, TypesAre DEF IInv, Types, Connecting, muxVars, windowVars
  <2>5. ConnectOK' /\ ContextsSound'
    BY <1>1, <1>2, <2>1, <2>2, <2>3 DEF ConnectOK, ContextsSound, Connecting, Muxing
  <2>6. QED BY <2>4, <2>5 DEF Types, TypeOK, States, PacketSet
<1>5. QED BY <1>3, <1>4

(* The steps of Connect that leave the contexts as they are. *)
Finding ==
  \/ FindStreamInfo
  \/ FindStreamInfoFails
  \/ \E index \in StreamIndices : FindBestStream(index)
  \/ FindBestStreamFails

(* The calls that look for a stream work on the open context, and keep it. *)
LEMMA FindingStep ==
  ASSUME IInv, Finding
  PROVE  TypeOK' /\ ConnectOK' /\ ContextsSound'
<1>1. /\ UNCHANGED <<isQuit, closed, tryConnectCount, context, ic, muxVars, windowVars>>
      /\ ic # 0 /\ context[ic] = "opened" /\ ~isConnect
  BY DEF IInv, ConnectOK, Finding, FindStreamInfo, FindStreamInfoFails,
         FindBestStream, FindBestStreamFails, closeVars, connectVars, Connecting
<1>2. Types
  BY TypesAre DEF IInv
<1>3. /\ connectFail' \in BOOLEAN /\ isConnect' \in BOOLEAN
      /\ parameters' \in {parameters, ic}
      /\ videoIndex' \in StreamIndices \cup {0, -1}
      /\ \/ pc' \in {"findStream", "close", "loop"} /\ ~isConnect'
         \/ pc' = "read" /\ isConnect' /\ parameters' = ic /\ videoIndex' \in StreamIndices
  <2>1. CASE FindStreamInfo
    BY <1>1, <1>2, <2>1 DEF Types, FindStreamInfo, connectVars
  <2>2. CASE FindStreamInfoFails
    BY <1>1, <1>2, <2>2 DEF Types, FindStreamInfoFails, Fails
  <2>3. ASSUME NEW index \in StreamIndices, FindBestStream(index)
        PROVE  /\ connectFail' = connectFail /\ isConnect' = TRUE
               /\ parameters' = ic /\ videoIndex' \in StreamIndices /\ pc' = "read"
    BY <2>3 DEF FindBestStream
  <2>4. CASE FindBestStreamFails
    BY <1>1, <1>2, <2>4 DEF Types, FindBestStreamFails, Fails
  <2>5. QED BY <1>2, <2>1, <2>2, <2>3, <2>4 DEF Types, Finding
<1>4. Types'
  BY <1>1, <1>2, <1>3 DEF Types, Connecting, muxVars, windowVars
<1>5. ConnectOK' /\ ContextsSound'
  BY <1>1, <1>3 DEF IInv, ConnectOK, ContextsSound, Connecting, Muxing
<1>6. QED BY <1>4, <1>5 DEF Types, TypeOK, States, PacketSet
-----------------------------------------------------------------------------
(* The steps of CreateTs. *)

(* They leave the connection alone. *)
LEMMA CreateTsLeavesConnection ==
  ASSUME IInv, CreateTs
  PROVE  ConnectOK' /\ ContextsSound' /\ EndOK'
<1>1. /\ UNCHANGED <<closeVars, connectVars>>
      /\ pc \in {"read"} \cup Muxing
      /\ pc' \in {"loop"} \cup Muxing
  BY DEF CreateTs, VideoFrame, ReceivePacket, WriteTrailer, AppendTs, Muxing
<1>2. QED
  BY <1>1 DEF IInv, ConnectOK, ContextsSound, EndOK, Connecting, Muxing,
              closeVars, connectVars

(* A frame begins with nothing written and an empty buffer. *)
LEMMA VideoFrameStep ==
  ASSUME IInv, NEW f \in Frames, VideoFrame(f)
  PROVE  TypeOK' /\ PendingOK' /\ MuxOK'
<1>1. Types
  BY TypesAre DEF IInv
<1>2. /\ muxerOf' \in {muxerOf, parameters} /\ frame' = f /\ pending' = f.yields
      /\ tsDuration' = 0 /\ tsData' = 0 /\ written' = 0 /\ pc' = "receive"
      /\ UNCHANGED <<closeVars, connectVars, ioBuffer, windowVars>>
      /\ ioBuffer = 0
  BY DEF VideoFrame, IInv, MuxOK
<1>3. Types'
  BY <1>1, <1>2 DEF Types, Muxing, closeVars, connectVars, windowVars
<1>4. PendingOK'
  BY <1>2, PullThreadAssumption DEF PendingOK
<1>5. MuxOK'
  BY <1>2 DEF MuxOK
<1>6. QED BY <1>3, <1>4, <1>5 DEF Types, TypeOK, States, PacketSet

(* What the muxer writes goes through its buffer: no byte is lost. *)
LEMMA ReceivePacketStep ==
  ASSUME IInv, ReceivePacket
  PROVE  TypeOK' /\ PendingOK' /\ MuxOK'
<1> DEFINE bytes == Head(pending).bytes
           filled == ioBuffer + bytes
           size == TsIoBufferLen
<1>1. Types
  BY TypesAre DEF IInv
<1>2. /\ pc = "receive" /\ pending # <<>> /\ pending' = Tail(pending)
      /\ tsDuration' = tsDuration + Head(pending).duration
      /\ UNCHANGED <<pc, closeVars, connectVars, muxerOf, frame, windowVars>>
      /\ tsData' = tsData + (filled \div size) * AsUShort(size)
      /\ ioBuffer' = filled % size
      /\ written' = written + bytes
      /\ written = tsData + ioBuffer
  BY DEF ReceivePacket, WriteBytes, IInv, MuxOK
<1>3. Head(pending) \in [duration : Nat, bytes : Nat] /\ PendingOK'
  <2>1. pending \in Seq([duration : Nat, bytes : Nat])
    BY DEF IInv, PendingOK
  <2>2. QED BY <1>2, <2>1, HeadTailProperties DEF PendingOK
<1>4. bytes \in Nat /\ Head(pending).duration \in Nat
  BY <1>3
<1> HIDE DEF bytes
<1>5. filled \in Nat /\ size \in Nat \ {0} /\ AsUShort(size) = size
  BY <1>1, <1>4, PullThreadAssumption, SmallIsKept DEF Types
<1>6. PICK q, r \in Nat :
        filled \div size = q /\ filled % size = r /\ r < size /\ q * size + r = filled
  BY <1>5, Rounds
<1>7. (filled \div size) * AsUShort(size) = q * size
  BY <1>5, <1>6
<1>8. PICK m \in Nat : m = q * size
  BY <1>5
<1>9. m + r = filled
  BY <1>6, <1>8
<1>10. tsData' = tsData + m /\ ioBuffer' = r
  BY <1>2, <1>6, <1>7, <1>8
<1>11. written' = tsData' + ioBuffer'
  <2>1. /\ tsData \in Nat /\ ioBuffer \in Nat /\ written = tsData + ioBuffer
        /\ written' = written + bytes
    BY <1>1, <1>2 DEF Types
  <2>2. m + r = ioBuffer + bytes
    BY <1>9
  <2>3. QED BY <1>4, <1>10, <2>1, <2>2
<1>12. Types'
  <2>1. /\ UNCHANGED <<pc, closeVars, connectVars, muxerOf, frame, windowVars>>
        /\ tsDuration' = tsDuration + Head(pending).duration
        /\ written' = written + bytes
    BY <1>2
  <2>2. /\ tsDuration' \in Nat /\ written' \in Nat /\ tsData' \in Nat
        /\ ioBuffer' \in Nat /\ ioBuffer' < TsIoBufferLen
    BY <1>1, <1>4, <1>6, <1>10, <2>1 DEF Types
  <2>3. QED BY <1>1, <2>1, <2>2 DEF Types, closeVars, connectVars, windowVars
<1>13. MuxOK'
  BY <1>2, <1>11 DEF MuxOK
<1>14. QED BY <1>3, <1>12, <1>13 DEF Types, TypeOK, States, PacketSet

(* The trailer empties the buffer. *)
LEMMA WriteTrailerStep ==
  ASSUME IInv, WriteTrailer
  PROVE  TypeOK' /\ PendingOK' /\ MuxOK'
<1>1. Types
  BY TypesAre DEF IInv
<1>2. /\ pc = "receive" /\ pc' = "append" /\ ioBuffer' = 0
      /\ tsData' = tsData + AsUShort(ioBuffer)
      /\ UNCHANGED <<closeVars, connectVars, muxerOf, frame, pending, tsDuration,
                     written, windowVars>>
      /\ written = tsData + ioBuffer
  BY DEF WriteTrailer, IInv, MuxOK
<1>3. AsUShort(ioBuffer) = ioBuffer
  BY <1>1, PullThreadAssumption, SmallIsKept DEF Types
<1>4. tsData' = written'
  BY <1>2, <1>3
<1>5. tsData' \in Nat /\ 0 < TsIoBufferLen
  BY <1>1, <1>2, <1>3, PullThreadAssumption DEF Types
<1>6. Types'
  BY <1>1, <1>2, <1>5 DEF Types, Muxing, closeVars, connectVars, windowVars
<1>7. PendingOK' /\ MuxOK'
  BY <1>2, <1>4 DEF IInv, PendingOK, MuxOK
<1>8. QED BY <1>6, <1>7 DEF Types, TypeOK, States, PacketSet

(* The packet of the frame is appended, and the oldest may be dropped. *)
LEMMA AppendTsStep ==
  ASSUME IInv, AppendTs
  PROVE  TypeOK' /\ PendingOK' /\ MuxOK'
<1> DEFINE packet == [index    |-> packetCount, isKey   |-> frame.isKey,
                      duration |-> tsDuration,  hasData |-> tsData > 0]
           grown == Append(inPackets, packet)
<1>1. Types
  BY TypesAre DEF IInv
<1>2. /\ pc = "append" /\ pc' = "loop" /\ packetCount' = packetCount + 1
      /\ inPackets' = AppendPacket(inPackets, packet)
      /\ UNCHANGED <<closeVars, connectVars, muxVars>>
      /\ ioBuffer = 0
  BY DEF AppendTs, IInv, MuxOK
<1>3. packet \in PacketSet
  <2>1. frame.isKey \in BOOLEAN
    <3>1. frame \in Frames \/ frame = NoFrame
      BY <1>1 DEF Types
    <3>2. CASE frame \in Frames
      BY <3>2, PullThreadAssumption
    <3>3. CASE frame = NoFrame
      <4>1. NoFrame.isKey = FALSE
        BY DEF NoFrame
      <4>2. QED BY <3>3, <4>1
    <3>4. QED BY <3>1, <3>2, <3>3
  <2>2. (tsData > 0) \in BOOLEAN /\ packetCount \in Nat /\ tsDuration \in Nat
    BY <1>1 DEF Types
  <2>3. QED BY <2>1, <2>2 DEF PacketSet
<1> HIDE DEF packet
<1>4. grown \in Seq(PacketSet) /\ grown # <<>>
  BY <1>1, <1>3, AppendProperties DEF Types
<1>5. Tail(grown) \in Seq(PacketSet)
  BY <1>4, HeadTailProperties
<1>6. inPackets' \in Seq(PacketSet)
  BY <1>2, <1>4, <1>5 DEF AppendPacket
<1>7. Types'
  BY <1>1, <1>2, <1>6 DEF Types, closeVars, connectVars, muxVars
<1>8. PendingOK' /\ MuxOK'
  BY <1>2 DEF IInv, PendingOK, MuxOK, muxVars
<1>9. QED BY <1>7, <1>8 DEF Types, TypeOK, States, PacketSet
-----------------------------------------------------------------------------
(* Every step preserves the invariant. *)
LEMMA IInvStep ==
  ASSUME IInv, [Next]_vars
  PROVE  IInv'
<1>1. CASE Around
  BY <1>1, AroundStep
<1>2. CASE Connect
  <2>1. PendingOK' /\ MuxOK' /\ EndOK'
    BY <1>2, ConnectLeavesFrames
  <2>2. AllocContext \/ (OpenInput \/ OpenInputFails) \/ Finding
    BY <1>2 DEF Connect, Finding
  <2>3. TypeOK' /\ ConnectOK' /\ ContextsSound'
    BY <2>2, AllocContextStep, OpenInputStep, FindingStep
  <2>4. QED BY <2>1, <2>3 DEF IInv
<1>3. CASE CreateTs
  <2>1. ConnectOK' /\ ContextsSound' /\ EndOK'
    BY <1>3, CreateTsLeavesConnection
  <2>2. TypeOK' /\ PendingOK' /\ MuxOK'
    BY <1>3, VideoFrameStep, ReceivePacketStep, WriteTrailerStep, AppendTsStep
    DEF CreateTs
  <2>3. QED BY <2>1, <2>2 DEF IInv
<1>4. CASE UNCHANGED vars
  BY <1>4 DEF vars, closeVars, connectVars, muxVars, windowVars, IInv, TypeOK,
     PendingOK, ConnectOK, ContextsSound, MuxOK, EndOK
<1>5. QED BY <1>1, <1>2, <1>3, <1>4 DEF Next, Pull, Around

(* The inductive invariant holds throughout. *)
LEMMA IInvHolds == Spec => []IInv
<1>1. Init => IInv
  BY IInvInit
<1>2. IInv /\ [Next]_vars => IInv'
  BY IInvStep
<1>3. QED BY <1>1, <1>2, PTL DEF Spec

(* Every variable of the pull thread keeps its type, and the muxer's buffer
   is never full when WriteData has returned. *)
THEOREM TypeCorrect == Spec => []TypeOK
<1>1. IInv => TypeOK
  BY DEF IInv
<1>2. QED BY <1>1, IInvHolds, PTL

(* In whichever call Connect failed before: Pull reads and muxes frames only
   from an open context and with the stream that was found in it, and Connect
   frees every context it replaces, once. *)
THEOREM ContextsAreSound == Spec => []ContextsSound
<1>1. IInv => ContextsSound
  BY DEF IInv
<1>2. QED BY <1>1, IInvHolds, PTL

(* Every byte the muxer writes for a frame is in tsData when CreateTs appends
   the packet, for every size of the buffer that an unsigned short holds. *)
THEOREM NoByteLost == Spec => []TsDataComplete
<1>1. IInv => TsDataComplete
  BY DEF IInv, MuxOK, TsDataComplete
<1>2. QED BY <1>1, IInvHolds, PTL
-----------------------------------------------------------------------------
(* The refinement: the camera, and the place of its thread, of CameraManage. *)

CameraWith(tries, connected, failed, quit, ended) ==
  [state |-> "live", tag |-> 0, listenPort |-> 0, tryConnectCount |-> tries,
   isConnect |-> connected, connectFail |-> failed, isQuit |-> quit,
   closed |-> ended]

CameraOf == CameraWith(tryConnectCount, isConnect, connectFail, isQuit, closed)

PlaceOf == IF pc \in Connecting THEN "connect"
           ELSE IF pc \in Muxing THEN "read" ELSE pc

(* Sequences of one element. *)
LEMMA Singleton ==
  ASSUME NEW a, NEW b
  PROVE  /\ <<a>>[1] = a
         /\ [<<a>> EXCEPT ![1] = b] = <<b>>
  OBVIOUS

(* An assignment to isConnect is one to a field of the only camera. *)
LEMMA SetsIsConnect ==
  ASSUME UNCHANGED <<isQuit, closed, connectFail, tryConnectCount>>
  PROVE  (<<CameraOf>>)' = [<<CameraOf>> EXCEPT ![1].isConnect = isConnect']
<1>1. CameraOf' = CameraWith(tryConnectCount, isConnect', connectFail, isQuit, closed)
  BY DEF CameraOf
<1>2. [<<CameraOf>> EXCEPT ![1].isConnect = isConnect']
        = <<CameraWith(tryConnectCount, isConnect', connectFail, isQuit, closed)>>
  BY SMT DEF CameraOf, CameraWith
<1>3. QED BY <1>1, <1>2

(* An assignment to connectFail is one to a field of the only camera. *)
LEMMA SetsConnectFail ==
  ASSUME UNCHANGED <<isQuit, closed, isConnect, tryConnectCount>>
  PROVE  (<<CameraOf>>)' = [<<CameraOf>> EXCEPT ![1].connectFail = connectFail']
<1>1. CameraOf' = CameraWith(tryConnectCount, isConnect, connectFail', isQuit, closed)
  BY DEF CameraOf
<1>2. [<<CameraOf>> EXCEPT ![1].connectFail = connectFail']
        = <<CameraWith(tryConnectCount, isConnect, connectFail', isQuit, closed)>>
  BY SMT DEF CameraOf, CameraWith
<1>3. QED BY <1>1, <1>2

(* An assignment to closed is one to a field of the only camera. *)
LEMMA SetsClosed ==
  ASSUME UNCHANGED <<isQuit, isConnect, connectFail, tryConnectCount>>
  PROVE  (<<CameraOf>>)' = [<<CameraOf>> EXCEPT ![1].closed = closed']
<1>1. CameraOf' = CameraWith(tryConnectCount, isConnect, connectFail, isQuit, closed')
  BY DEF CameraOf
<1>2. [<<CameraOf>> EXCEPT ![1].closed = closed']
        = <<CameraWith(tryConnectCount, isConnect, connectFail, isQuit, closed')>>
  BY SMT DEF CameraOf, CameraWith
<1>3. QED BY <1>1, <1>2

(* What the steps of Connect are to CameraManage. *)
LEMMA ConnectRefines ==
  ASSUME Connect
  PROVE  Cameras!PullThread(1) \/ UNCHANGED Cameras!vars
<1>1. CASE AllocContext \/ OpenInput \/ FindStreamInfo
  BY <1>1, Singleton DEF AllocContext, OpenInput, FindStreamInfo, closeVars, connectVars,
     Connecting, Cameras!vars, Cameras!deleterVars
<1>2. CASE OpenInputFails \/ FindStreamInfoFails \/ FindBestStreamFails
  <2>1. /\ Fails
        /\ UNCHANGED <<isQuit, closed, isConnect, tryConnectCount>>
        /\ PlaceOf = "connect" /\ PlaceOf' = pc'
    BY <1>2 DEF OpenInputFails, FindStreamInfoFails, FindBestStreamFails, Fails,
       closeVars, Connecting, Muxing, PlaceOf
  <2>2. CASE tryConnectCount > TryConnectCountMax
    <3>1. connectFail' = TRUE /\ PlaceOf' = "close"
      BY <2>1, <2>2 DEF Fails
    <3>2. (<<CameraOf>>)' = [<<CameraOf>> EXCEPT ![1].connectFail = connectFail']
      BY <2>1, SetsConnectFail
    <3>3. [<<CameraOf>> EXCEPT ![1].connectFail = connectFail']
            = [<<CameraOf>> EXCEPT ![1].connectFail = TRUE]
      BY <3>1
    <3>4. Cameras!ConnectFailure(1)
      BY <2>1, <2>2, <3>1, <3>2, <3>3, Singleton DEF CameraOf, CameraWith, PlaceOf,
         Cameras!ConnectFailure, Cameras!deleterVars
    <3>5. QED BY <3>4 DEF Cameras!PullThread
  <2>3. CASE ~(tryConnectCount > TryConnectCountMax)
    <3>1. connectFail' = connectFail /\ PlaceOf' = "loop"
      BY <2>1, <2>3 DEF Fails
    <3>2. Cameras!ConnectFailure(1)
      BY <2>1, <2>3, <3>1, Singleton DEF CameraOf, CameraWith, PlaceOf,
         Cameras!ConnectFailure, Cameras!deleterVars
    <3>3. QED BY <3>2 DEF Cameras!PullThread
  <2>4. QED BY <2>2, <2>3
<1>3. ASSUME NEW index \in StreamIndices, FindBestStream(index)
      PROVE  Cameras!PullThread(1)
  <2>1. /\ UNCHANGED <<isQuit, closed, connectFail, tryConnectCount>>
        /\ tryConnectCount <= MaxConnects /\ isConnect' = TRUE
        /\ PlaceOf = "connect" /\ PlaceOf' = "read"
    BY <1>3 DEF FindBestStream, closeVars, Connecting, Muxing, PlaceOf
  <2>2. (<<CameraOf>>)' = [<<CameraOf>> EXCEPT ![1].isConnect = isConnect']
    BY <2>1, SetsIsConnect
  <2>3. [<<CameraOf>> EXCEPT ![1].isConnect = isConnect']
          = [<<CameraOf>> EXCEPT ![1].isConnect = TRUE]
    BY <2>1
  <2>4. Cameras!ConnectSuccess(1)
    BY <2>1, <2>2, <2>3, Singleton DEF CameraOf, CameraWith, PlaceOf,
       Cameras!ConnectSuccess, Cameras!deleterVars
  <2>5. QED BY <2>4 DEF Cameras!PullThread
<1>4. QED BY <1>1, <1>2, <1>3 DEF Connect

(* What the others are. *)
LEMMA PullRefines ==
  ASSUME Pull
  PROVE  Cameras!PullThread(1) \/ UNCHANGED Cameras!vars
<1>1. CASE Loop
  BY <1>1, Singleton DEF Loop, closeVars, Connecting, Muxing, Cameras!PullThread,
     Cameras!PullLoop, Cameras!deleterVars
<1>2. CASE ReadError
  <2>1. /\ UNCHANGED <<isQuit, closed, connectFail, tryConnectCount>>
        /\ isConnect' = FALSE /\ PlaceOf = "read" /\ PlaceOf' = "loop"
    BY <1>2 DEF ReadError, closeVars, Connecting, Muxing, PlaceOf
  <2>2. (<<CameraOf>>)' = [<<CameraOf>> EXCEPT ![1].isConnect = isConnect']
    BY <2>1, SetsIsConnect
  <2>3. [<<CameraOf>> EXCEPT ![1].isConnect = isConnect']
          = [<<CameraOf>> EXCEPT ![1].isConnect = FALSE]
    BY <2>1
  <2>4. Cameras!ReadError(1)
    BY <2>1, <2>2, <2>3, Singleton DEF CameraOf, CameraWith, PlaceOf,
       Cameras!ReadError, Cameras!deleterVars
  <2>5. QED BY <2>4 DEF Cameras!PullThread
<1>3. CASE OtherFrame \/ AppendTs
  BY <1>3, Singleton DEF OtherFrame, AppendTs, closeVars, connectVars, Connecting,
     Muxing, Cameras!PullThread, Cameras!ReadFrame, Cameras!deleterVars
<1>4. CASE (\E f \in Frames : VideoFrame(f)) \/ ReceivePacket \/ WriteTrailer
  BY <1>4, Singleton DEF VideoFrame, ReceivePacket, WriteTrailer, closeVars,
     connectVars, Connecting, Muxing, Cameras!vars, Cameras!deleterVars
<1>5. CASE CloseNow
  <2>1. /\ UNCHANGED <<isQuit, isConnect, connectFail, tryConnectCount>>
        /\ closed' = TRUE /\ PlaceOf = "close" /\ PlaceOf' = "exited"
    BY <1>5 DEF CloseNow, connectVars, Connecting, Muxing, PlaceOf
  <2>2. (<<CameraOf>>)' = [<<CameraOf>> EXCEPT ![1].closed = closed']
    BY <2>1, SetsClosed
  <2>3. [<<CameraOf>> EXCEPT ![1].closed = closed']
          = [<<CameraOf>> EXCEPT ![1].closed = TRUE]
    BY <2>1
  <2>4. Cameras!CloseNow(1)
    BY <2>1, <2>2, <2>3, Singleton DEF CameraOf, CameraWith, PlaceOf,
       Cameras!CloseNow, Cameras!deleterVars
  <2>5. QED BY <2>4 DEF Cameras!PullThread
<1>6. QED BY <1>1, <1>2, <1>3, <1>4, <1>5, ConnectRefines DEF Pull, CreateTs

(* To the managers of the server this is the pull thread that CameraManage
   has: the calls of Connect are one try, that of CreateTs one frame. *)
THEOREM PullThreadRefines == Spec => ImplementsPullThread
<1>1. [Next]_vars => [Pull => Cameras!PullThread(1) \/ UNCHANGED Cameras!vars]_vars
  BY PullRefines
<1>2. QED BY <1>1, PTL DEF Spec, ImplementsPullThread
-----------------------------------------------------------------------------
(* The refinement of the source of packets that HlsStream has. *)

(* While a frame is muxed, the packets that are left are the end of what the
   filter makes of it, and the duration and the data so far are those of the
   others: so the packet that is appended is one of the frame. *)
HasBytes(yields, k) == \E i \in 1..k : yields[i].bytes > 0

Received(yields, k) ==
  /\ pending = SubSeq(yields, k + 1, Len(yields))
  /\ tsDuration = Sums(yields)[k]
  /\ written > 0 <=> HasBytes(yields, k)

FrameOK ==
  /\ pc \in Muxing => frame \in Frames /\ packetCount < MaxPackets
  /\ pc = "receive" =>
       \E k \in 0..Len(frame.yields) : Received(frame.yields, k)
  /\ pc = "append" =>
       /\ tsDuration = Duration(frame.yields)
       /\ written > 0 <=> HasBytes(frame.yields, Len(frame.yields))

Yields == [duration : Nat, bytes : Nat]

(* What the filter makes of a frame, and the sums of its durations. *)
LEMMA FrameYields ==
  ASSUME NEW f \in Frames
  PROVE  LET n == Len(f.yields)
         IN  /\ f.yields \in Seq(Yields) /\ n \in Nat
             /\ \A i \in 1..n : f.yields[i].duration \in Nat
                                /\ f.yields[i].bytes \in Nat
             /\ Sums(f.yields) \in [0..n -> Nat]
             /\ Sums(f.yields)[0] = 0
             /\ \A i \in 1..n : Sums(f.yields)[i]
                                  = Sums(f.yields)[i - 1] + f.yields[i].duration
             /\ Duration(f.yields) = Sums(f.yields)[n]
<1>1. f.yields \in Seq(Yields) /\ Len(f.yields) \in Nat
  BY PullThreadAssumption DEF Yields
<1>2. \A p \in Yields : p.duration \in Nat /\ p.bytes \in Nat
  BY DEF Yields
<1>3. \A i \in 1..Len(f.yields) : f.yields[i] \in Yields
  BY <1>1
<1>4. QED BY <1>1, <1>2, <1>3, DurationSums

(* The end of a sequence, without its first element. *)
LEMMA SubSeqShrinks ==
  ASSUME NEW S, NEW s \in Seq(S)
  PROVE  /\ SubSeq(s, 1, Len(s)) = s
         /\ \A k \in 0..Len(s) :
              SubSeq(s, k + 1, Len(s)) # <<>> =>
                /\ k + 1 \in 1..Len(s)
                /\ Head(SubSeq(s, k + 1, Len(s))) = s[k + 1]
                /\ Tail(SubSeq(s, k + 1, Len(s))) = SubSeq(s, k + 2, Len(s))
         /\ \A k \in 0..Len(s) : SubSeq(s, k + 1, Len(s)) = <<>> => k = Len(s)
<1> DEFINE n == Len(s)
<1>1. n \in Nat
  OBVIOUS
<1>2. ASSUME NEW k \in 0..n+1
      PROVE  LET end == SubSeq(s, k + 1, n)
             IN  /\ end \in Seq(S)
                 /\ Len(end) = IF k <= n THEN n - k ELSE 0
                 /\ \A i \in 1..n-k : end[i] = s[k + i]
  <2> HIDE DEF n
  <2>1. k + 1 \in Nat /\ k + 1 # 0 /\ n \in Nat /\ n \in 0..n
    BY <1>1, <1>2
  <2>2. /\ SubSeq(s, k + 1, n) \in Seq(S)
        /\ Len(SubSeq(s, k + 1, n)) = IF k + 1 <= n THEN n - (k + 1) + 1 ELSE 0
        /\ \A i \in 1..n-(k+1)+1 : SubSeq(s, k + 1, n)[i] = s[(k + 1) + i - 1]
    <3>1. CASE k + 1 <= n
      <4>1. k + 1 \in 1..n
        BY <1>1, <2>1, <3>1
      <4>2. QED BY <2>1, <3>1, <4>1, SubSeqProperties DEF n
    <3>2. CASE ~(k + 1 <= n)
      <4>1. SubSeq(s, k + 1, n) = <<>>
        BY <2>1, <3>2
      <4>2. 1..n-(k+1)+1 = {}
        BY <1>1, <2>1, <3>2
      <4>3. QED BY <3>2, <4>1, <4>2, EmptySeq
    <3>3. QED BY <3>1, <3>2
  <2>3. QED BY <1>1, <2>1, <2>2
<1>3. SubSeq(s, 1, n) = s
  <2> DEFINE all == SubSeq(s, 1, n)
  <2>1. all \in Seq(S) /\ Len(all) = n /\ \A i \in 1..n : all[i] = s[i]
    BY <1>1, SubSeqProperties
  <2> HIDE DEF all
  <2>2. QED BY <2>1, SeqEqual DEF all
<1>4. ASSUME NEW k \in 0..n, SubSeq(s, k + 1, n) # <<>>
      PROVE  /\ k + 1 \in 1..n
             /\ Head(SubSeq(s, k + 1, n)) = s[k + 1]
             /\ Tail(SubSeq(s, k + 1, n)) = SubSeq(s, k + 2, n)
  <2> DEFINE end  == SubSeq(s, k + 1, n)
             next == SubSeq(s, k + 2, n)
  <2>1. /\ end \in Seq(S) /\ Len(end) = n - k
        /\ \A i \in 1..n-k : end[i] = s[k + i]
    <3> HIDE DEF n
    <3>1. k \in 0..n+1 /\ k <= n
      BY <1>1, <1>4
    <3>2. QED BY <1>2, <3>1
  <2>2. k # n
    BY <1>4, <2>1, EmptySeq
  <2>3. k + 1 \in 1..n /\ k + 1 \in 0..n+1 /\ (k + 1) + 1 = k + 2 /\ k + 1 <= n
    <3> HIDE DEF n
    <3>1. QED BY <1>1, <1>4, <2>2
  <2>4. /\ next \in Seq(S) /\ Len(next) = n - (k + 1)
        /\ \A i \in 1..n-(k+1) : next[i] = s[(k + 1) + i]
    <3> HIDE DEF n
    <3>1. QED BY <1>2, <2>3
  <2> HIDE DEF end, next
  <2>5. end # <<>>
    BY <1>4 DEF end
  <2>6. Head(end) = end[1]
    BY <2>1, <2>5, HeadTailProperties
  <2>7. /\ Tail(end) \in Seq(S) /\ Len(Tail(end)) = Len(end) - 1
        /\ \A i \in 1..Len(end)-1 : Tail(end)[i] = end[i + 1]
    BY <2>1, <2>5, HeadTailProperties
  <2> HIDE DEF n
  <2>8. Len(Tail(end)) = Len(next)
    BY <1>1, <2>1, <2>4, <2>7
  <2>9. \A i \in 1..Len(next) : Tail(end)[i] = next[i]
    <3>1. TAKE i \in 1..Len(next)
    <3>2. i \in 1..n-(k+1) /\ i \in 1..Len(end)-1 /\ i + 1 \in 1..n-k
      BY <1>1, <2>1, <2>4
    <3>3. Tail(end)[i] = s[k + (i + 1)] /\ next[i] = s[(k + 1) + i]
      BY <2>1, <2>4, <2>7, <3>2
    <3>4. k + (i + 1) = (k + 1) + i
      BY <3>2
    <3>5. QED BY <3>3, <3>4
  <2>10. Tail(end) = next
    BY <2>4, <2>7, <2>8, <2>9, SeqEqual
  <2>11. end[1] = s[k + 1]
    <3>1. 1 \in 1..n-k
      BY <1>1, <2>3
    <3>2. QED BY <2>1, <3>1
  <2>12. QED BY <2>3, <2>6, <2>10, <2>11 DEF end, next
<1>5. ASSUME NEW k \in 0..n, SubSeq(s, k + 1, n) = <<>> PROVE k = n
  <2>1. Len(SubSeq(s, k + 1, n)) = n - k
    <3> HIDE DEF n
    <3>1. k \in 0..n+1 /\ k <= n
      BY <1>1, <1>5
    <3>2. QED BY <1>2, <3>1
  <2>2. n - k = 0
    BY <1>5, <2>1
  <2> HIDE DEF n
  <2>3. QED BY <1>1, <2>2
<1>6. QED BY <1>3, <1>4, <1>5

(* One packet more is one more that may have bytes. *)
LEMMA HasBytesGrows ==
  ASSUME NEW yields, NEW k \in Nat
  PROVE  HasBytes(yields, k + 1) <=> HasBytes(yields, k) \/ yields[k + 1].bytes > 0
<1>1. \A i : i \in 1..k+1 <=> i \in 1..k \/ i = k + 1
  OBVIOUS
<1>2. QED BY <1>1 DEF HasBytes

(* A frame is begun with all its packets left. *)
LEMMA VideoFrameBegins ==
  ASSUME IInv, NEW f \in Frames, VideoFrame(f)
  PROVE  FrameOK'
<1>1. /\ pc' = "receive" /\ frame' = f /\ pending' = f.yields
      /\ tsDuration' = 0 /\ written' = 0
      /\ packetCount < MaxPackets /\ packetCount' = packetCount
  BY DEF VideoFrame, windowVars
<1>2. /\ f.yields \in Seq(Yields) /\ Len(f.yields) \in Nat
      /\ Sums(f.yields)[0] = 0
  BY FrameYields
<1>3. pending' = SubSeq(f.yields, 0 + 1, Len(f.yields))
  <2>1. SubSeq(f.yields, 1, Len(f.yields)) = f.yields
    BY <1>2, SubSeqShrinks
  <2>2. QED BY <1>1, <2>1
<1>4. ~HasBytes(f.yields, 0) /\ ~(written' > 0)
  <2>1. 1..0 = {}
    OBVIOUS
  <2>2. QED BY <1>1, <2>1 DEF HasBytes
<1>5. 0 \in 0..Len(f.yields)
  BY <1>2
<1>6. Received(f.yields, 0)'
  BY <1>1, <1>2, <1>3, <1>4 DEF Received, HasBytes
<1>7. QED BY <1>1, <1>5, <1>6 DEF FrameOK

(* One packet more is received. *)
LEMMA ReceivePacketCounts ==
  ASSUME IInv, FrameOK, ReceivePacket
  PROVE  FrameOK'
<1>1. /\ pc = "receive" /\ pc' = "receive" /\ pending # <<>>
      /\ tsDuration' = tsDuration + Head(pending).duration
      /\ written' = written + Head(pending).bytes
      /\ pending' = Tail(pending) /\ frame' = frame /\ packetCount' = packetCount
  BY DEF ReceivePacket, WriteBytes, windowVars
<1>2. frame \in Frames /\ packetCount < MaxPackets
  BY <1>1 DEF FrameOK, Muxing
<1>3. PICK k \in 0..Len(frame.yields) : Received(frame.yields, k)
  BY <1>1 DEF FrameOK
<1> DEFINE yields == frame.yields
           n      == Len(yields)
<1>4. /\ yields \in Seq(Yields) /\ n \in Nat
      /\ \A i \in 1..n : yields[i].duration \in Nat /\ yields[i].bytes \in Nat
      /\ \A i \in 1..n : Sums(yields)[i] = Sums(yields)[i - 1] + yields[i].duration
  BY <1>2, FrameYields
<1>5. /\ pending = SubSeq(yields, k + 1, n) /\ tsDuration = Sums(yields)[k]
      /\ written > 0 <=> HasBytes(yields, k)
  BY <1>3 DEF Received
<1> HIDE DEF yields
<1>6. /\ k + 1 \in 1..n
      /\ Head(pending) = yields[k + 1]
      /\ Tail(pending) = SubSeq(yields, k + 2, n)
  BY <1>1, <1>3, <1>4, <1>5, SubSeqShrinks DEF yields
<1>7. k \in Nat /\ k + 1 \in 0..n /\ (k + 1) - 1 = k /\ (k + 1) + 1 = k + 2
  BY <1>3, <1>4, <1>6
<1>8. tsDuration' = Sums(yields)[k + 1]
  BY <1>1, <1>4, <1>5, <1>6, <1>7
<1>9. written' > 0 <=> HasBytes(yields, k + 1)
  <2>1. written \in Nat /\ yields[k + 1].bytes \in Nat
    BY <1>4, <1>6, TypesAre DEF IInv, Types
  <2>2. written' = written + yields[k + 1].bytes
    BY <1>1, <1>6
  <2>3. written' > 0 <=> written > 0 \/ yields[k + 1].bytes > 0
    BY <2>1, <2>2
  <2>4. QED BY <1>5, <1>7, <2>3, HasBytesGrows
<1>10. pending' = SubSeq(yields, (k + 1) + 1, n)
  BY <1>1, <1>6, <1>7
<1>11. yields' = yields
  BY <1>1 DEF yields
<1>12. Received(yields, k + 1)'
  BY <1>8, <1>9, <1>10, <1>11 DEF Received, HasBytes
<1>13. QED BY <1>1, <1>2, <1>7, <1>12 DEF FrameOK, yields

(* None is left when the trailer is written. *)
LEMMA WriteTrailerEnds ==
  ASSUME IInv, FrameOK, WriteTrailer
  PROVE  FrameOK'
<1>1. /\ pc = "receive" /\ pc' = "append" /\ pending = <<>>
      /\ UNCHANGED <<frame, tsDuration, written, packetCount>>
  BY DEF WriteTrailer, windowVars
<1>2. frame \in Frames /\ packetCount < MaxPackets
  BY <1>1 DEF FrameOK, Muxing
<1>3. PICK k \in 0..Len(frame.yields) : Received(frame.yields, k)
  BY <1>1 DEF FrameOK
<1> DEFINE yields == frame.yields
<1>4. /\ yields \in Seq(Yields) /\ Duration(yields) = Sums(yields)[Len(yields)]
  BY <1>2, FrameYields
<1>5. k = Len(yields)
  BY <1>1, <1>3, <1>4, SubSeqShrinks DEF Received
<1>6. /\ tsDuration = Duration(yields)
      /\ written > 0 <=> HasBytes(yields, Len(yields))
  BY <1>3, <1>4, <1>5 DEF Received
<1>7. QED BY <1>1, <1>2, <1>6 DEF FrameOK, HasBytes

(* Every step keeps FrameOK. *)
LEMMA FrameStep ==
  ASSUME IInv, FrameOK, [Next]_vars
  PROVE  FrameOK'
<1>1. CASE \E f \in Frames : VideoFrame(f)
  BY <1>1, VideoFrameBegins
<1>2. CASE ReceivePacket
  BY <1>2, ReceivePacketCounts
<1>3. CASE WriteTrailer
  BY <1>3, WriteTrailerEnds
<1>4. CASE AppendTs \/ Loop \/ CloseNow \/ ReadError \/ OtherFrame
  <2>1. pc' \notin Muxing
    BY <1>4 DEF AppendTs, Loop, CloseNow, ReadError, OtherFrame, Muxing
  <2>2. QED BY <2>1 DEF FrameOK, Muxing
<1>5. CASE Connect
  <2>1. pc' \notin Muxing
    BY <1>5 DEF Connect, AllocContext, OpenInput, OpenInputFails, FindStreamInfo,
       FindStreamInfoFails, FindBestStream, FindBestStreamFails, Fails, Muxing
  <2>2. QED BY <2>1 DEF FrameOK, Muxing
<1>6. CASE WaitClose \/ UNCHANGED vars
  <2>1. UNCHANGED <<pc, frame, pending, tsDuration, written, packetCount>>
    BY <1>6 DEF WaitClose, vars, muxVars, windowVars
  <2>2. QED BY <2>1 DEF FrameOK, Received, HasBytes
<1>7. QED BY <1>1, <1>2, <1>3, <1>4, <1>5, <1>6 DEF Next, Pull, CreateTs

(* FrameOK holds throughout. *)
LEMMA FramesHold == Spec => [](IInv /\ FrameOK)
<1>1. Init => FrameOK
  BY DEF Init, FrameOK, Muxing
<1>2. IInv /\ FrameOK /\ [Next]_vars => FrameOK'
  BY FrameStep
<1>3. QED BY <1>1, <1>2, IInvInit, IInvStep, PTL DEF Spec

(* A function of no sessions is the empty sequence. *)
LEMMA EmptyFunction ==
  ASSUME NEW c
  PROVE  [s \in {} |-> c] = <<>>
<1> DEFINE f == [s \in {} |-> c]
<1>1. f \in [1..0 -> {}]
  OBVIOUS
<1> HIDE DEF f
<1>2. f \in Seq({}) /\ Len(f) = 0
  BY <1>1
<1>3. f = <<>>
  BY <1>2, EmptySeq
<1>4. QED BY <1>3 DEF f

(* The end of CreateTs is the step of HlsStream that produces a packet of the
   kind the frame is of. *)
LEMMA AppendTsProduces ==
  ASSUME IInv, FrameOK, AppendTs
  PROVE  Stream!Next
<1> DEFINE kind == KindOf(frame)
<1>1. /\ pc = "append" /\ packetCount' = packetCount + 1
      /\ inPackets' = AppendPacket(inPackets,
                        [index    |-> packetCount, isKey   |-> frame.isKey,
                         duration |-> tsDuration,  hasData |-> tsData > 0])
  BY DEF AppendTs
<1>2. frame \in Frames /\ packetCount < MaxPackets
  BY <1>1 DEF FrameOK, Muxing
<1>3. /\ kind.isKey = frame.isKey
      /\ kind.duration = Duration(frame.yields)
      /\ kind.hasData = HasBytes(frame.yields, Len(frame.yields))
  BY DEF KindOf, HasBytes
<1>4. /\ tsDuration = kind.duration
      /\ (tsData > 0) = kind.hasData
  <2> DEFINE bytes == HasBytes(frame.yields, Len(frame.yields))
             data  == tsData > 0
  <2>1. tsData = written /\ (written > 0 <=> bytes)
        /\ tsDuration = Duration(frame.yields)
    BY <1>1 DEF FrameOK, IInv, MuxOK
  <2>2. data <=> bytes
    BY <2>1
  <2>3. data \in BOOLEAN /\ bytes \in BOOLEAN
    BY DEF HasBytes
  <2>4. kind.hasData = bytes
    BY <1>3
  <2>5. tsDuration = kind.duration
    BY <1>3, <2>1
  <2> HIDE DEF data, bytes
  <2>6. data = kind.hasData
    BY <2>2, <2>3, <2>4
  <2>7. QED BY <2>5, <2>6 DEF data
<1> HIDE DEF kind
<1>5. Stream!CreateTs(kind)
  <2>1. inPackets' = AppendPacket(inPackets,
                       [index    |-> packetCount,   isKey   |-> kind.isKey,
                        duration |-> kind.duration, hasData |-> kind.hasData])
    BY <1>1, <1>3, <1>4, Zenon
  <2>2. \A window, packet : Stream!AppendPacket(window, packet)
                              = AppendPacket(window, packet)
    BY Zenon DEF Stream!AppendPacket, AppendPacket
  <2>3. inPackets' = Stream!AppendPacket(inPackets,
                       [index    |-> packetCount,   isKey   |-> kind.isKey,
                        duration |-> kind.duration, hasData |-> kind.hasData])
    BY <2>1, <2>2, Zenon
  <2>4. QED BY <1>1, <1>2, <2>3 DEF Stream!CreateTs
<1>6. kind \in {KindOf(f) : f \in Frames}
  BY <1>2 DEF kind
<1>7. QED BY <1>5, <1>6 DEF Stream!Next, Stream!Pull

(* To the sessions the pull thread is the source of packets that HlsStream
   has, for all frames and whatever happens to the connection: every video
   frame becomes one packet, numbered without a gap, with the flag of the frame
   and the sum of the durations and of the data that the filter and the muxer
   made of it (Camera.h:352-391). *)
THEOREM SourceRefines == Spec => ImplementsSource
<1>1. Init => Stream!Init
  BY EmptyFunction DEF Init, Stream!Init
<1>2. IInv /\ FrameOK /\ [Next]_vars => [Stream!Next]_(Stream!vars)
  <2>1. SUFFICES ASSUME IInv, FrameOK, [Next]_vars
                 PROVE  Stream!Next \/ UNCHANGED Stream!vars
    OBVIOUS
  <2>2. CASE AppendTs
    BY <2>1, <2>2, AppendTsProduces
  <2>3. CASE ~AppendTs
    <3>1. UNCHANGED <<inPackets, packetCount>>
      BY <2>1, <2>3 DEF Next, Pull, Loop, Connect, AllocContext, OpenInput,
         OpenInputFails, FindStreamInfo, FindStreamInfoFails, FindBestStream,
         FindBestStreamFails, ReadError, OtherFrame, CreateTs, VideoFrame,
         ReceivePacket, WriteTrailer, CloseNow, WaitClose, windowVars, vars
    <3>2. QED BY <3>1 DEF Stream!vars
  <2>4. QED BY <2>2, <2>3
<1>3. QED BY <1>1, <1>2, FramesHold, PTL DEF Spec, ImplementsSource, Stream!Spec
=============================================================================
