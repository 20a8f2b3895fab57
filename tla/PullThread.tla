----------------------------- MODULE PullThread -----------------------------
(***************************************************************************)
(* The pull thread of one camera with the FFmpeg objects it owns: Connect  *)
(* opens the stream in up to three calls, each of which may fail and       *)
(* leaves ic, videoIndex and parameters as it found or made them; Pull     *)
(* reads frames until a read fails, and connects again; CreateTs muxes a   *)
(* video frame, through a buffer FFmpeg fills and FillIobuffer empties,    *)
(* and appends the packet to the window.                                   *)
(*                                                                         *)
(* FFmpeg is modelled by what its interface promises: the outcome of a     *)
(* call is one of those it documents, avformat_open_input frees the        *)
(* context when it fails, avformat_free_context frees a context but does   *)
(* not close its input.  Contexts are numbered by the try that made them,  *)
(* and a pointer into one is its number.                                   *)
(***************************************************************************)
EXTENDS PacketWindow

CONSTANTS
  Frames,              \* what a video frame is: its flag, and the packets, with
                       \* duration and bytes, the filter and the muxer make of it
  StreamIndices,       \* the video streams av_find_best_stream may choose
  TsIoBufferLen,       \* tsIoBufferLen, 4000 in the code
  UShortValues,        \* 65536: the values of an unsigned short
  TryConnectCountMax,  \* tryConnectCountMax, 3 in the code
  MaxConnects,         \* bound on the connections the camera makes
  MaxPackets           \* bound on the packets it produces

ASSUME PullThreadAssumption ==
  /\ \A f \in Frames :
       /\ f.isKey \in BOOLEAN
       /\ f.yields \in Seq([duration : Nat, bytes : Nat])
  /\ StreamIndices \subseteq Nat
  /\ TsIoBufferLen \in Nat \ {0}
  /\ UShortValues \in Nat
  /\ TsIoBufferLen < UShortValues
  /\ {TryConnectCountMax, MaxConnects, MaxPackets} \subseteq Nat

VARIABLES
  pc,
  isQuit, closed,  \* closeEvent: the flag, and the event itself
  isConnect, tryConnectCount, connectFail,
  context,         \* of every context made so far, what became of it
  ic,              \* the current one, 0 for NULL
  videoIndex,
  parameters,      \* the context the pointer leads into, 0 as long as not set
  muxerOf,         \* the context whose parameters the muxer copied, 0 for none
  frame,           \* the frame that is being muxed
  pending,         \* the packets the filter has not yielded yet
  tsDuration,
  tsData,          \* bytes in tsData
  ioBuffer,        \* bytes in the buffer of the muxer
  written,         \* bytes the muxer has written for this frame
  inPackets, packetCount

closeVars == <<isQuit, closed>>
connectVars == <<isConnect, tryConnectCount, connectFail, context, ic,
                 videoIndex, parameters>>
muxVars == <<muxerOf, frame, pending, tsDuration, tsData, ioBuffer, written>>
windowVars == <<inPackets, packetCount>>
vars == <<pc, closeVars, connectVars, muxVars, windowVars>>

NoFrame == [isKey |-> FALSE, yields |-> <<>>]

Init ==
  /\ pc = "loop"
  /\ isQuit = FALSE /\ closed = FALSE
  /\ isConnect = FALSE /\ tryConnectCount = 0 /\ connectFail = FALSE
  /\ context = <<>> /\ ic = 0 /\ videoIndex = 0 /\ parameters = 0
  /\ muxerOf = 0 /\ frame = NoFrame /\ pending = <<>>
  /\ tsDuration = 0 /\ tsData = 0 /\ ioBuffer = 0 /\ written = 0
  /\ inPackets = <<>> /\ packetCount = 0
-----------------------------------------------------------------------------
(* Pull: the loop. *)

Loop ==
  /\ pc = "loop"
  /\ IF isQuit THEN pc' = "close" /\ UNCHANGED tryConnectCount
     ELSE IF isConnect THEN pc' = "read" /\ UNCHANGED tryConnectCount
     ELSE pc' = "alloc" /\ tryConnectCount' = tryConnectCount + 1
  /\ UNCHANGED <<closeVars, isConnect, connectFail, context, ic, videoIndex,
                 parameters, muxVars, windowVars>>

CloseNow ==
  /\ pc = "close"
  /\ closed' = TRUE
  /\ pc' = "exited"
  /\ UNCHANGED <<isQuit, connectVars, muxVars, windowVars>>

(* WaitClose, of the thread that deletes a camera that gave up. *)
WaitClose ==
  /\ connectFail /\ ~isQuit
  /\ isQuit' = TRUE
  /\ UNCHANGED <<pc, closed, connectVars, muxVars, windowVars>>
-----------------------------------------------------------------------------
(* Connect. *)

(* avformat_free_context(c): the input of an open context stays open. *)
Freed(c) ==
  [context EXCEPT ![c] = CASE @ = "allocated" -> "freed"
                           [] @ = "opened"    -> "leaked"
                           [] OTHER           -> "twice"]

AllocContext ==
  /\ pc = "alloc"
  /\ context' = Append(IF ic = 0 THEN context ELSE Freed(ic), "allocated")
  /\ ic' = Len(context')
  /\ pc' = "open"
  /\ UNCHANGED <<closeVars, isConnect, tryConnectCount, connectFail,
                 videoIndex, parameters, muxVars, windowVars>>

(* Mutants: the last try is one of the maximum; giving up is not recorded. *)
FailsEarly ==
  IF tryConnectCount >= TryConnectCountMax
  THEN connectFail' = TRUE /\ pc' = "close"
  ELSE UNCHANGED connectFail /\ pc' = "loop"

FailsSilently ==
  IF tryConnectCount > TryConnectCountMax
  THEN UNCHANGED connectFail /\ pc' = "close"
  ELSE UNCHANGED connectFail /\ pc' = "loop"

(* Connect returns FALSE: Pull tries again, or gives up. *)
Fails ==
  IF tryConnectCount > TryConnectCountMax
  THEN connectFail' = TRUE /\ pc' = "close"
  ELSE UNCHANGED connectFail /\ pc' = "loop"

OpenInput ==
  /\ pc = "open"
  /\ context' = [context EXCEPT ![ic] = "opened"]
  /\ pc' = "findInfo"
  /\ UNCHANGED <<closeVars, isConnect, tryConnectCount, connectFail, ic,
                 videoIndex, parameters, muxVars, windowVars>>

(* Mutant: the pointer to the freed context is kept. *)
OpenInputFailsDangling ==
  /\ pc = "open"
  /\ Fails
  /\ context' = Freed(ic)
  /\ UNCHANGED <<closeVars, isConnect, tryConnectCount, ic, videoIndex,
                 parameters, muxVars, windowVars>>

OpenInputFails ==
  /\ pc = "open"
  /\ Fails
  /\ context' = Freed(ic)
  /\ ic' = 0
  /\ UNCHANGED <<closeVars, isConnect, tryConnectCount, videoIndex,
                 parameters, muxVars, windowVars>>

FindStreamInfo ==
  /\ pc = "findInfo"
  /\ pc' = "findStream"
  /\ UNCHANGED <<closeVars, connectVars, muxVars, windowVars>>

FindStreamInfoFails ==
  /\ pc = "findInfo"
  /\ Fails
  /\ UNCHANGED <<closeVars, isConnect, tryConnectCount, context, ic,
                 videoIndex, parameters, muxVars, windowVars>>

FindBestStream(index) ==
  /\ pc = "findStream"
  /\ tryConnectCount <= MaxConnects
  /\ videoIndex' = index
  /\ parameters' = ic
  /\ isConnect' = TRUE
  /\ pc' = "read"
  /\ UNCHANGED <<closeVars, tryConnectCount, connectFail, context, ic,
                 muxVars, windowVars>>

(* The result is negative, and stays in videoIndex. *)
FindBestStreamFails ==
  /\ pc = "findStream"
  /\ Fails
  /\ videoIndex' = -1
  /\ UNCHANGED <<closeVars, isConnect, tryConnectCount, context, ic,
                 parameters, muxVars, windowVars>>

Connect ==
  \/ AllocContext
  \/ OpenInput
  \/ OpenInputFails
  \/ FindStreamInfo
  \/ FindStreamInfoFails
  \/ \E index \in StreamIndices : FindBestStream(index)
  \/ FindBestStreamFails
-----------------------------------------------------------------------------
(* Pull: reading frames. *)

ReadError ==
  /\ pc = "read"
  /\ isConnect' = FALSE
  /\ pc' = "loop"
  /\ UNCHANGED <<closeVars, tryConnectCount, connectFail, context, ic,
                 videoIndex, parameters, muxVars, windowVars>>

(* A frame of another stream is dropped. *)
OtherFrame ==
  /\ pc = "read"
  /\ pc' = "loop"
  /\ UNCHANGED <<closeVars, connectVars, muxVars, windowVars>>

(* CreateTs up to av_bsf_send_packet.  The filter and the muxer are made once,
   for the parameters of the connection the first frame came from. *)
VideoFrame(f) ==
  /\ pc = "read"
  /\ packetCount < MaxPackets
  /\ muxerOf' = IF muxerOf = 0 THEN parameters ELSE muxerOf
  /\ frame' = f /\ pending' = f.yields
  /\ tsDuration' = 0 /\ tsData' = 0 /\ written' = 0
  /\ pc' = "receive"
  /\ UNCHANGED <<closeVars, connectVars, ioBuffer, windowVars>>

(* Mutant: the size is passed as an unsigned char. *)
AsUChar(size) == size % (UShortValues \div 2)

(* WriteData takes the size as an unsigned short, FillIobuffer as an int. *)
AsUShort(size) == size % UShortValues

(* Mutant: what FillIobuffer took stays in the buffer. *)
WriteBytesTwice(bytes) ==
  LET filled == ioBuffer + bytes
  IN  /\ tsData' = tsData + (filled \div TsIoBufferLen) * AsUShort(TsIoBufferLen)
      /\ ioBuffer' = filled
      /\ written' = written + bytes

(* The muxer writes: whenever its buffer is full FillIobuffer takes it. *)
WriteBytes(bytes) ==
  LET filled == ioBuffer + bytes
  IN  /\ tsData' = tsData + (filled \div TsIoBufferLen) * AsUShort(TsIoBufferLen)
      /\ ioBuffer' = filled % TsIoBufferLen
      /\ written' = written + bytes

(* One round of the loop of CreateTs. *)
ReceivePacket ==
  /\ pc = "receive"
  /\ pending # <<>>
  /\ tsDuration' = tsDuration + Head(pending).duration
  /\ WriteBytes(Head(pending).bytes)
  /\ pending' = Tail(pending)
  /\ UNCHANGED <<pc, closeVars, connectVars, muxerOf, frame, windowVars>>

(* av_write_trailer empties the buffer. *)
WriteTrailer ==
  /\ pc = "receive"
  /\ pending = <<>>
  /\ tsData' = tsData + AsUShort(ioBuffer)
  /\ ioBuffer' = 0
  /\ pc' = "append"
  /\ UNCHANGED <<closeVars, connectVars, muxerOf, frame, pending, tsDuration,
                 written, windowVars>>

(* Mutant: a packet without data is numbered, but not appended. *)
AppendTsWithData ==
  /\ pc = "append"
  /\ inPackets' = IF tsData = 0 THEN inPackets
                  ELSE AppendPacket(inPackets,
                    [index    |-> packetCount, isKey   |-> frame.isKey,
                     duration |-> tsDuration,  hasData |-> tsData > 0])
  /\ packetCount' = packetCount + 1
  /\ pc' = "loop"
  /\ UNCHANGED <<closeVars, connectVars, muxVars>>

(* The end of CreateTs: number the packet, and append it under the lock. *)
AppendTs ==
  /\ pc = "append"
  /\ inPackets' = AppendPacket(inPackets,
                    [index    |-> packetCount, isKey   |-> frame.isKey,
                     duration |-> tsDuration,  hasData |-> tsData > 0])
  /\ packetCount' = packetCount + 1
  /\ pc' = "loop"
  /\ UNCHANGED <<closeVars, connectVars, muxVars>>

CreateTs ==
  \/ \E f \in Frames : VideoFrame(f)
  \/ ReceivePacket
  \/ WriteTrailer
  \/ AppendTs

Pull == Loop \/ Connect \/ ReadError \/ OtherFrame \/ CreateTs \/ CloseNow
-----------------------------------------------------------------------------
Next == Pull \/ WaitClose

Spec == Init /\ [][Next]_vars

(* Every call of FFmpeg returns. *)
FairSpec == Spec /\ WF_vars(Pull)
-----------------------------------------------------------------------------
Connecting == {"alloc", "open", "findInfo", "findStream"}
Muxing == {"receive", "append"}

(* Every variable has its type. *)
TypeOK ==
  /\ pc \in {"loop", "read", "close", "exited"} \cup Connecting \cup Muxing
  /\ {isQuit, closed, isConnect, connectFail} \subseteq BOOLEAN
  /\ context \in Seq({"allocated", "opened", "freed", "leaked", "twice"})
  /\ {ic, parameters, muxerOf} \subseteq 0..Len(context)
  /\ videoIndex \in StreamIndices \cup {0, -1}
  /\ {tryConnectCount, tsDuration, tsData, ioBuffer, written, packetCount}
       \subseteq Nat
  /\ ioBuffer < TsIoBufferLen
  /\ frame \in Frames \cup {NoFrame}
  /\ inPackets \in Seq([index : Nat, isKey : BOOLEAN, duration : Nat,
                        hasData : BOOLEAN])

(* Whatever failed before, in whichever call: a frame is read and muxed only
   from a context that is open, with the stream that was found in it and the
   parameters pointer into it (the muxer keeps those it was made from, muxerOf);
   and every context is the current one or was freed, once.  (An open one that
   Connect replaces is freed without being closed.) *)
ContextsSound ==
  /\ isConnect \/ pc \in {"read"} \cup Muxing =>
       /\ ic # 0 /\ context[ic] = "opened"
       /\ videoIndex \in StreamIndices
       /\ parameters = ic
  /\ \A c \in 1..Len(context) :
       /\ context[c] # "twice"
       /\ context[c] \in {"allocated", "opened"} => c = ic

(* The data of a packet is every byte the muxer wrote for its frame, none of
   the frame before it, and none lost in the width of a size. *)
TsDataComplete == pc = "append" => tsData = written

(* A camera that is not connected any more gives up: the thread does not try
   for ever, nor end early with a stream. *)
UnreachableIsGivenUp == <>[](~isConnect) => <>(pc = "exited" /\ connectFail)
-----------------------------------------------------------------------------
KindOf(f) ==
  [isKey    |-> f.isKey,
   duration |-> Duration(f.yields),
   hasData  |-> \E i \in 1..Len(f.yields) : f.yields[i].bytes > 0]

(* To the sessions this thread is the source of packets that HlsStream has:
   one packet per video frame, in order and numbered without a gap, whatever
   happens to the connection and whatever the muxer makes of the frame. *)
Stream == INSTANCE HlsStream
            WITH SegCountMax <- 1, TicksPerSecond <- 1, IntMax <- 1, NaN <- "NaN",
                 None <- "None", Sessions <- {}, UninitSlide <- {},
                 UninitTarget <- {}, UninitIndex <- {},
                 PacketKinds <- {KindOf(f) : f \in Frames},
                 clients <- {}, client <- <<>>, serving <- "None",
                 playlist <- <<>>, delivered <- <<>>

ImplementsSource == Stream!Spec

(* To the managers it is the pull thread that CameraManage has: the calls of
   Connect are one connection that succeeds or fails, and CreateTs a frame. *)
Cameras == INSTANCE CameraManage
             WITH Tags <- {}, Cameras <- {1}, None <- 0, Ports <- {},
                  TcpTables <- {}, TooLong <- "TooLong", pullIns <- <<>>,
                  keys <- <<>>, usePorts <- {}, handler <- <<>>, deleter <- <<>>, copy <- <<>>,
                  camera <- <<[state |-> "live", tag |-> 0, listenPort |-> 0,
                    tryConnectCount |-> tryConnectCount,
                    isConnect |-> isConnect, connectFail |-> connectFail,
                    isQuit |-> isQuit, closed |-> closed]>>,
                  pull <- <<IF pc \in Connecting THEN "connect"
                            ELSE IF pc \in Muxing THEN "read" ELSE pc>>

ImplementsPullThread ==
  [][Pull => Cameras!PullThread(1) \/ UNCHANGED Cameras!vars]_vars
=============================================================================
