-------------------------- MODULE HlsStreamProofs --------------------------
(***************************************************************************)
(* Proofs about HlsStream for every window size, batch limit, list length, *)
(* set of sessions and length of the stream: its type invariant, the shape *)
(* of the window and of the segment lists, the target duration, and the    *)
(* refinement of LivePlaylist.                                             *)
(***************************************************************************)
EXTENDS HlsStreamRefinement, PacketWindowProofs

(* What a call of GetTsSeg returns, whichever of the two it is. *)
IsResult(result) ==
  /\ result = [ok      |-> result.ok, index |-> result.index,
               packets |-> result.packets]
  /\ result.ok \in BOOLEAN
  /\ result.index \in Nat
  /\ result.packets \in Seq(Packet)

(* A window that a packet is appended to is a window. *)
LEMMA AppendPacketType ==
  ASSUME NEW window \in Seq(Packet), NEW packet \in Packet
  PROVE  AppendPacket(window, packet) \in Seq(Packet)
<1> DEFINE grown == Append(window, packet)
<1>1. grown \in Seq(Packet) /\ grown # <<>>
  BY AppendProperties
<1>2. Tail(grown) \in Seq(Packet)
  BY <1>1, HeadTailProperties
<1>3. QED BY <1>1, <1>2 DEF AppendPacket

(* A segment of two positions of the window is a result. *)
LEMMA SegmentType ==
  ASSUME NEW window \in Seq(Packet), NEW i \in 1..Len(window),
         NEW j \in 0..Len(window), NEW k \in 1..Len(window)
  PROVE  IsResult(Segment(SubSeq(window, i, j), window[k].index))
<1>1. SubSeq(window, i, j) \in Seq(Packet)
  BY SubSeqProperties
<1>2. window[k] \in Packet
  OBVIOUS
<1>3. window[k].index \in Nat
  BY <1>2 DEF Packet
<1>4. QED BY <1>1, <1>3 DEF IsResult, Segment

(* So is a call that fails. *)
LEMMA NoSegmentType == IsResult(NoSegment)
BY DEF IsResult, NoSegment

(* So is what GetTsSeg(packet) returns, for any window. *)
LEMMA GetTsSegFirstType ==
  ASSUME NEW window \in Seq(Packet)
  PROVE  IsResult(GetTsSegFirst(window))
<1> DEFINE keys == {i \in 1..Len(window) : window[i].isKey}
<1>1. CASE keys = {}
  BY <1>1, NoSegmentType DEF GetTsSegFirst
<1>2. CASE keys # {}
  <2>1. Max(keys) \in 1..Len(window)
    BY <1>2, MaxIsGreatest, Len(window) \in Nat, keys \in SUBSET (1..Len(window))
  <2>2. IsResult(Segment(SubSeq(window, Max(keys), Len(window)),
                         window[Len(window)].index))
    BY <2>1, SegmentType, Len(window) \in 1..Len(window),
       Len(window) \in 0..Len(window)
  <2>3. QED BY <1>2, <2>2 DEF GetTsSegFirst
<1>3. QED BY <1>1, <1>2

(* A batch of a window is a result. *)
LEMMA BatchType ==
  ASSUME NEW window \in Seq(Packet), NEW start \in 1..Len(window)
  PROVE  IsResult(Batch(window, start))
<1> USE PacketWindowAssumption
<1> DEFINE full == start + BatchLimit + 1
<1>1. CASE full <= Len(window)
  <2>1. full \in 0..Len(window) /\ full - 1 \in 1..Len(window)
    BY <1>1
  <2>2. IsResult(Segment(SubSeq(window, start, full), window[full - 1].index))
    BY <2>1, SegmentType
  <2>3. QED BY <1>1, <2>2 DEF Batch
<1>2. CASE ~(full <= Len(window))
  <2>1. Len(window) \in 0..Len(window) /\ Len(window) \in 1..Len(window)
    OBVIOUS
  <2>2. IsResult(Segment(SubSeq(window, start, Len(window)),
                         window[Len(window)].index))
    BY <2>1, SegmentType
  <2>3. QED BY <1>2, <2>2 DEF Batch
<1>3. QED BY <1>1, <1>2

(* So is what GetTsSeg(packet, from) returns, for any window and cursor. *)
LEMMA GetTsSegFromType ==
  ASSUME NEW window \in Seq(Packet), NEW from
  PROVE  IsResult(GetTsSegFrom(window, from))
<1> DEFINE newer == {i \in 1..Len(window) : window[i].index > from}
<1>1. CASE newer = {}
  BY <1>1, NoSegmentType DEF GetTsSegFrom
<1>2. CASE newer # {}
  <2>1. Min(newer) \in 1..Len(window)
    BY <1>2, MinIsLeast, newer \in SUBSET Nat
  <2>2. IsResult(Batch(window, Min(newer)))
    BY <2>1, BatchType
  <2>3. QED BY <2>2, NoSegmentType DEF GetTsSegFrom
<1>3. QED BY <1>1, <1>2
-----------------------------------------------------------------------------
(* The operations on a buffer and on a Client keep its fields and their
   types, and what they do to the list of segments. *)
Listed == [name : Nat, data : Seq(Packet)]

(* A new buffer is one, and empty. *)
LEMMA NewBufferType ==
  ASSUME NEW isSlide \in BOOLEAN, NEW target
  PROVE  /\ IsBuffer(NewBuffer(isSlide, target))
         /\ NewBuffer(isSlide, target).segs = <<>>
         /\ NewBuffer(isSlide, target).sequence = 0
BY DEF IsBuffer, NewBuffer

(* Push drops at most the first segment and adds one at the end. *)
LEMMA PushSegs ==
  ASSUME NEW buf, IsBuffer(buf), NEW name \in Nat, NEW packets \in Seq(Packet)
  PROVE  LET kept == IF Len(buf.segs) >= SegCountMax
                     THEN Tail(buf.segs) ELSE buf.segs
         IN  /\ kept \in Seq(Listed)
             /\ Push(buf, name, packets).segs
                  = Append(kept, [name |-> name, data |-> packets])
<1>1. buf.segs \in Seq(Listed)
  BY DEF IsBuffer, Listed
<1>2. ASSUME Len(buf.segs) >= SegCountMax PROVE Tail(buf.segs) \in Seq(Listed)
  <2>1. buf.segs # <<>>
    BY <1>2, TSSegmentAssumption, EmptySeq
  <2>2. QED BY <1>1, <2>1, HeadTailProperties
<1>3. QED BY <1>1, <1>2 DEF Push

(* A pushed buffer is one; it has slid if it had or was full. *)
LEMMA PushType ==
  ASSUME NEW buf, IsBuffer(buf), NEW name \in Nat, NEW packets \in Seq(Packet)
  PROVE  /\ IsBuffer(Push(buf, name, packets))
         /\ Push(buf, name, packets).sequence = buf.sequence
         /\ Push(buf, name, packets).isSlide
              = (buf.isSlide \/ Len(buf.segs) >= SegCountMax)
<1> DEFINE pushed == Push(buf, name, packets)
           kept   == IF Len(buf.segs) >= SegCountMax
                     THEN Tail(buf.segs) ELSE buf.segs
           entry  == [name |-> name, data |-> packets]
<1>1. kept \in Seq(Listed) /\ pushed.segs = Append(kept, entry)
  BY PushSegs
<1>2. entry \in Listed
  BY DEF Listed
<1>3. pushed.segs \in Seq(Listed)
  BY <1>1, <1>2, AppendProperties
<1>4. /\ pushed.sequence = buf.sequence
      /\ pushed.isSlide = (buf.isSlide \/ Len(buf.segs) >= SegCountMax)
      /\ pushed = [segs           |-> pushed.segs, sequence |-> pushed.sequence,
                   isSlide        |-> pushed.isSlide,
                   targetDuration |-> pushed.targetDuration]
  BY DEF Push
<1>5. pushed.sequence \in Nat /\ pushed.isSlide \in BOOLEAN
  BY <1>4 DEF IsBuffer
<1>6. QED BY <1>3, <1>4, <1>5 DEF IsBuffer, Listed

(* A refreshed buffer is one; a slide is counted and forgotten. *)
LEMMA RefreshType ==
  ASSUME NEW buf, IsBuffer(buf)
  PROVE  /\ IsBuffer(Refresh(buf))
         /\ Refresh(buf).segs = buf.segs
         /\ Refresh(buf).sequence
              = IF buf.isSlide THEN buf.sequence + 1 ELSE buf.sequence
         /\ Refresh(buf).isSlide = FALSE
BY DEF Refresh, IsBuffer

(* A new Client is one. *)
LEMMA NewClientType ==
  ASSUME NEW isSlide \in BOOLEAN, NEW target, NEW index \in Nat
  PROVE  IsClient(NewClient(isSlide, target, index))
BY NewBufferType DEF IsClient, NewClient

(* So is a Client that took a result. *)
LEMMA TakeType ==
  ASSUME NEW cl, IsClient(cl), NEW result, IsResult(result)
  PROVE  IsClient(Take(cl, result))
<1>1. CASE result.ok /\ HasData(result.packets)
  <2>1. IsBuffer(Push(cl.outTsSegs, cl.tsTotalCount, result.packets))
    BY PushType DEF IsClient, IsResult
  <2>2. QED BY <1>1, <2>1 DEF Take, IsClient, IsResult
<1>2. CASE result.ok /\ ~HasData(result.packets)
  BY <1>2 DEF Take, IsClient, IsResult
<1>3. CASE ~result.ok
  BY <1>3 DEF Take
<1>4. QED BY <1>1, <1>2, <1>3

(* The state of a Client after the whole of a request. *)
Refreshed(cl, result) ==
  [Take(cl, result) EXCEPT !.outTsSegs = Refresh(@)]

(* So is a Client after the whole of a request. *)
LEMMA RefreshedType ==
  ASSUME NEW cl, IsClient(cl), NEW result, IsResult(result)
  PROVE  IsClient(Refreshed(cl, result))
<1>1. IsClient(Take(cl, result))
  BY TakeType
<1>2. IsBuffer(Refresh(Take(cl, result).outTsSegs))
  BY <1>1, RefreshType DEF IsClient
<1>3. QED BY <1>1, <1>2 DEF Refreshed, IsClient
-----------------------------------------------------------------------------
(* What answering a request of s does to the state: only s is touched. *)
LEMMA RespondEffect ==
  ASSUME TypeOK, NEW s \in Sessions, NEW result, IsResult(result),
         Respond(s, result)
  PROVE  /\ DOMAIN client' = Sessions /\ DOMAIN playlist' = Sessions
         /\ delivered' \in [Sessions -> Seq(Packet)]
         /\ client'[s] = Refreshed(client[s], result)
         /\ playlist'[s] = M3u8(client'[s].outTsSegs)
         /\ \A t \in Sessions : IsClient(client'[t])
         /\ \A t \in Sessions \ {s} : client'[t] = client[t]
                                    /\ playlist'[t] = playlist[t]
<1>1. /\ client' = [client EXCEPT ![s] = Refreshed(client[s], result)]
      /\ playlist' = [playlist EXCEPT ![s] =
                        M3u8(Refreshed(client[s], result).outTsSegs)]
      /\ delivered' = [delivered EXCEPT ![s] =
                         IF result.ok /\ HasData(result.packets)
                         THEN @ \o result.packets ELSE @]
  BY Zenon DEF Respond, Refreshed
<1>2. DOMAIN client' = Sessions /\ DOMAIN playlist' = Sessions
  BY <1>1 DEF TypeOK
<1>3. /\ client'[s] = Refreshed(client[s], result)
      /\ playlist'[s] = M3u8(client'[s].outTsSegs)
      /\ \A t \in Sessions \ {s} : client'[t] = client[t]
                                 /\ playlist'[t] = playlist[t]
  BY <1>1 DEF TypeOK
<1>4. IsClient(client'[s])
  BY <1>3, RefreshedType DEF TypeOK
<1>5. \A t \in Sessions : IsClient(client'[t])
  BY <1>3, <1>4 DEF TypeOK
<1>6. delivered' \in [Sessions -> Seq(Packet)]
  <2>1. delivered[s] \in Seq(Packet) /\ result.packets \in Seq(Packet)
    BY DEF TypeOK, IsResult
  <2>2. delivered[s] \o result.packets \in Seq(Packet)
    BY <2>1, ConcatProperties
  <2>3. QED BY <1>1, <2>1, <2>2 DEF TypeOK
<1>7. QED BY <1>2, <1>3, <1>5, <1>6

(* At the start every variable has its type. *)
LEMMA InitType == Init => TypeOK
<1> SUFFICES ASSUME Init PROVE TypeOK
  OBVIOUS
<1> USE DEF Init
<1>1. inPackets \in Seq(Packet) /\ delivered \in [Sessions -> Seq(Packet)]
  BY EmptySeq
<1>2. IsClient(NoClient)
  BY NewClientType DEF NoClient
<1>3. QED BY <1>1, <1>2 DEF TypeOK

(* Every step keeps the types. *)
LEMMA NextType == TypeOK /\ [Next]_vars => TypeOK'
<1> SUFFICES ASSUME TypeOK, [Next]_vars PROVE TypeOK'
  OBVIOUS
<1> USE HlsStreamAssumption
<1>1. ASSUME NEW kind \in PacketKinds, CreateTs(kind) PROVE TypeOK'
  <2> DEFINE packet == [index    |-> packetCount,   isKey   |-> kind.isKey,
                        duration |-> kind.duration, hasData |-> kind.hasData]
  <2>1. packet \in Packet
    BY DEF TypeOK, Packet
  <2>2. inPackets' \in Seq(Packet)
    <3>1. inPackets' = AppendPacket(inPackets, packet)
      BY <1>1 DEF CreateTs
    <3>2. QED BY <2>1, <3>1, AppendPacketType DEF TypeOK
  <2>3. packetCount' \in Nat
    BY <1>1 DEF TypeOK, CreateTs
  <2>4. QED BY <1>1, <2>2, <2>3 DEF TypeOK, CreateTs
<1>2. ASSUME NEW s \in Sessions, NEW isSlide \in UninitSlide,
             NEW target \in UninitTarget, NEW index \in UninitIndex,
             Open(s, isSlide, target, index)
      PROVE  TypeOK'
  <2>1. IsClient(NewClient(isSlide, target, index))
    BY NewClientType
  <2>2. \A t \in Sessions : IsClient(client'[t])
    BY <1>2, <2>1 DEF TypeOK, Open
  <2>3. DOMAIN client' = Sessions
    BY <1>2 DEF TypeOK, Open
  <2>4. \A t \in Sessions : t \notin clients' \/ t = serving' =>
                            playlist'[t] = None
    BY <1>2 DEF TypeOK, Open
  <2>5. QED BY <1>2, <2>2, <2>3, <2>4 DEF TypeOK, Open
<1>3. ASSUME NEW s \in Sessions, First(s) PROVE TypeOK'
  <2>1. PICK result : IsResult(result) /\ Respond(s, result)
    <3>1. CASE FirstEmpty(s)
      BY <3>1, NoSegmentType DEF FirstEmpty
    <3>2. CASE FirstSegment(s)
      BY <3>2, GetTsSegFirstType DEF FirstSegment, TypeOK
    <3>3. QED BY <1>3, <3>1, <3>2 DEF First
  <2>2. /\ serving = s /\ serving' = None
        /\ UNCHANGED <<inPackets, packetCount, clients>>
    BY <1>3 DEF First, FirstEmpty, FirstSegment
  <2>3. /\ DOMAIN client' = Sessions /\ DOMAIN playlist' = Sessions
        /\ delivered' \in [Sessions -> Seq(Packet)]
        /\ \A t \in Sessions : IsClient(client'[t])
        /\ \A t \in Sessions \ {s} : playlist'[t] = playlist[t]
    BY <2>1, RespondEffect
  <2>4. \A t \in Sessions : t \notin clients' \/ t = serving' =>
                            playlist'[t] = None
    BY <2>2, <2>3 DEF TypeOK
  <2>5. QED BY <2>2, <2>3, <2>4 DEF TypeOK
<1>4. ASSUME NEW s \in Sessions, Reload(s) PROVE TypeOK'
  <2>1. PICK result : IsResult(result) /\ Respond(s, result)
    BY <1>4, GetTsSegFromType DEF Reload, TypeOK
  <2>2. /\ serving = None /\ s \in clients
        /\ UNCHANGED <<inPackets, packetCount, clients, serving>>
    BY <1>4 DEF Reload
  <2>3. /\ DOMAIN client' = Sessions /\ DOMAIN playlist' = Sessions
        /\ delivered' \in [Sessions -> Seq(Packet)]
        /\ \A t \in Sessions : IsClient(client'[t])
        /\ \A t \in Sessions \ {s} : playlist'[t] = playlist[t]
    BY <2>1, RespondEffect
  <2>4. \A t \in Sessions : t \notin clients' \/ t = serving' =>
                            playlist'[t] = None
    BY <2>2, <2>3 DEF TypeOK
  <2>5. QED BY <2>2, <2>3, <2>4 DEF TypeOK
<1>5. ASSUME NEW s \in Sessions, Expire(s) PROVE TypeOK'
  <2>1. IsClient(NoClient)
    BY NewClientType DEF NoClient
  <2>2. delivered' \in [Sessions -> Seq(Packet)]
    BY <1>5, EmptySeq DEF TypeOK, Expire
  <2>3. /\ DOMAIN client' = Sessions /\ DOMAIN playlist' = Sessions
        /\ \A t \in Sessions : IsClient(client'[t])
        /\ playlist'[s] = None
        /\ \A t \in Sessions \ {s} : playlist'[t] = playlist[t]
    BY <1>5, <2>1 DEF TypeOK, Expire
  <2>4. QED BY <1>5, <2>2, <2>3 DEF TypeOK, Expire
<1>6. CASE UNCHANGED vars
  BY <1>6 DEF vars, TypeOK
<1>7. QED BY <1>1, <1>2, <1>3, <1>4, <1>5, <1>6 DEF Next, Pull, Handle

(* Type correctness, whatever values the uninitialized fields of a new Client
   hold (Client.h:46-53, TSSegment.h:18-24): a cursor is never set from a
   packet GetTsSeg did not fill, and a session that is being opened or was
   deleted has no playlist. *)
THEOREM TypeCorrect == Spec => []TypeOK
BY InitType, NextType, PTL DEF Spec
-----------------------------------------------------------------------------
(* The window after CreateTs: its latest packets, at most InPacketsMaxSize. *)
LEMMA WindowStep ==
  ASSUME TypeOK, WindowIsLatest, NEW kind \in PacketKinds, CreateTs(kind)
  PROVE  WindowIsLatest'
<1> DEFINE packet == [index    |-> packetCount,   isKey   |-> kind.isKey,
                      duration |-> kind.duration, hasData |-> kind.hasData]
           grown  == Append(inPackets, packet)
           n      == Len(inPackets)
<1>1. inPackets' = IF Len(grown) > InPacketsMaxSize THEN Tail(grown) ELSE grown
  BY DEF CreateTs, AppendPacket
<1>2. inPackets \in Seq(Packet) /\ packet \in Packet /\ packet.index = packetCount
  BY HlsStreamAssumption DEF TypeOK, Packet
<1>counts. /\ packetCount \in Nat /\ n \in Nat /\ InPacketsMaxSize \in Nat
      /\ packetCount' = packetCount + 1
  BY <1>2, PacketWindowAssumption DEF TypeOK, CreateTs
<1>3. /\ grown \in Seq(Packet) /\ grown # <<>> /\ Len(grown) = n + 1
      /\ \A i \in 1..n : grown[i] = inPackets[i]
      /\ grown[n + 1] = packet
  <2> HIDE DEF packet
  <2>1. QED BY <1>counts, <1>2, AppendProperties
<1>4. \A i \in 1..n+1 : grown[i].index = packetCount - n + i - 1
  <2> HIDE DEF packet, grown
  <2>1. \A i \in 1..n : inPackets[i].index = packetCount - n + i - 1
    BY DEF WindowIsLatest
  <2>2. \A i \in 1..n : grown[i].index = packetCount - n + i - 1
    BY <1>3, <2>1
  <2>3. grown[n + 1].index = packetCount - n + (n + 1) - 1
    BY <1>counts, <1>2, <1>3
  <2>4. \A i \in 1..n+1 : i \in 1..n \/ i = n + 1
    BY <1>counts
  <2>5. QED BY <2>2, <2>3, <2>4
<1>5. CASE Len(grown) > InPacketsMaxSize
  <2>1. /\ Len(Tail(grown)) = n
        /\ \A i \in 1..n : Tail(grown)[i] = grown[i + 1]
    <3> HIDE DEF grown
    <3>1. QED BY <1>counts, <1>2, <1>3, HeadTailProperties
  <2>2. n = InPacketsMaxSize /\ packetCount >= InPacketsMaxSize
    BY <1>counts, <1>2, <1>3, <1>5 DEF WindowIsLatest
  <2>3. \A i \in 1..n : Tail(grown)[i].index = packetCount + 1 - n + i - 1
    <3> HIDE DEF grown
    <3>1. QED BY <1>counts, <1>2, <1>4, <2>1
  <2>4. inPackets' = Tail(grown)
    BY <1>1, <1>5
  <2> HIDE DEF grown
  <2>5. /\ Len(inPackets') = n
        /\ \A i \in 1..n : inPackets'[i].index = packetCount' - n + i - 1
    <3>1. packetCount' - n = packetCount + 1 - n
      BY <1>counts
    <3>2. Len(inPackets') = n
      BY <2>1, <2>4
    <3>3. ASSUME NEW i \in 1..n
          PROVE  inPackets'[i].index = packetCount' - n + i - 1
      BY Zenon, <2>3, <2>4, <3>1
    <3>4. QED BY <3>2, <3>3
  <2>6. n = IF packetCount' < InPacketsMaxSize
            THEN packetCount' ELSE InPacketsMaxSize
    BY <1>counts, <1>2, <2>2
  <2>7. QED BY <2>5, <2>6 DEF WindowIsLatest
<1>6. CASE ~(Len(grown) > InPacketsMaxSize)
  <2>1. inPackets' = grown
    BY <1>1, <1>6
  <2>2. n + 1 <= InPacketsMaxSize /\ n = packetCount
    BY <1>counts, <1>2, <1>3, <1>6 DEF WindowIsLatest
  <2> HIDE DEF grown
  <2>3. /\ Len(inPackets') = n + 1
        /\ \A i \in 1..n+1 :
             inPackets'[i].index = packetCount' - (n + 1) + i - 1
    <3>1. packetCount' - (n + 1) = packetCount - n
      BY <1>counts
    <3>2. Len(inPackets') = n + 1
      BY <1>3, <2>1
    <3>3. ASSUME NEW i \in 1..n+1
          PROVE  inPackets'[i].index = packetCount' - (n + 1) + i - 1
      BY Zenon, <1>4, <2>1, <3>1
    <3>4. QED BY <3>2, <3>3
  <2>4. n + 1 = IF packetCount' < InPacketsMaxSize
                THEN packetCount' ELSE InPacketsMaxSize
    BY <1>counts, <1>2, <2>2
  <2>5. QED BY <2>3, <2>4 DEF WindowIsLatest
<1>7. QED BY <1>5, <1>6

(* Every step keeps the window the latest packets. *)
LEMMA NextWindow == TypeOK /\ WindowIsLatest /\ [Next]_vars => WindowIsLatest'
<1> SUFFICES ASSUME TypeOK, WindowIsLatest, [Next]_vars PROVE WindowIsLatest'
  OBVIOUS
<1>1. CASE Pull
  BY <1>1, WindowStep DEF Pull
<1>2. CASE ~Pull
  <2>1. UNCHANGED <<inPackets, packetCount>>
    BY <1>2 DEF Next, Handle, Open, First, FirstEmpty, FirstSegment, Reload,
                Expire, vars
  <2>2. QED BY <2>1 DEF WindowIsLatest
<1>3. QED BY <1>1, <1>2

(* The window is the latest packets for every bound on its size: CreateTs
   (Camera.h:380-390) never leaves a hole, and an eviction removes exactly the
   oldest packet.  Both variants of GetTsSeg rest on it. *)
THEOREM WindowCorrect == Spec => []WindowIsLatest
<1>1. Init => WindowIsLatest
  BY PacketWindowAssumption, EmptySeq DEF Init, WindowIsLatest
<1>2. QED BY <1>1, NextWindow, TypeCorrect, PTL DEF Spec
-----------------------------------------------------------------------------
(* To a session the window is cut as the loops of GetTsSeg cut it. *)

(* GetTsSegFirst, by which the first playlist of a session is modelled, is
   what the two loops of GetTsSeg(packet) compute (Camera.h:252-301), for every
   window and whatever the index of the caller's packet held. *)
THEOREM FirstIsTheLoop == Spec => []FirstAgrees
<1>1. ASSUME TypeOK, NEW unset \in UninitIndex
      PROVE  GetTsSegFirst(inPackets) = FirstLoop(inPackets, unset)
  <2>1. inPackets \in Seq(PacketSet)
    BY <1>1 DEF TypeOK, Packet, PacketSet
  <2>2. unset \in Nat
    BY HlsStreamAssumption
  <2>3. QED BY <2>1, <2>2, FirstIsLoop
<1>2. TypeOK => FirstAgrees
  BY <1>1 DEF FirstAgrees
<1>3. QED BY <1>2, TypeCorrect, PTL

(* GetTsSegFrom, by which every later playlist is modelled, is what the loop of
   GetTsSeg(packet, from) computes (Camera.h:309-346), for every window of a
   stream, every cursor and every limit of a batch; that the packets above the
   cursor are the end of the window is the invariant WindowIsLatest. *)
THEOREM FromIsTheLoop == Spec => []FromAgrees
<1>1. ASSUME TypeOK, WindowIsLatest, NEW from \in 0..MaxPackets + 1,
             NEW unset \in UninitIndex
      PROVE  GetTsSegFrom(inPackets, from) = FromLoop(inPackets, from, unset)
  <2> DEFINE n == Len(inPackets)
  <2>1. inPackets \in Seq(PacketSet) /\ packetCount \in Nat /\ n \in Nat
    BY <1>1 DEF TypeOK, Packet, PacketSet
  <2>2. from \in Nat /\ unset \in Nat
    BY HlsStreamAssumption
  <2>3. \A i \in 1..n : inPackets[i].index = packetCount - n + i - 1
    BY <1>1 DEF WindowIsLatest
  <2>4. \A i, j \in 1..n : i < j => inPackets[i].index < inPackets[j].index
    <3> HIDE DEF n
    <3>1. QED BY <2>1, <2>3
  <2>5. QED BY <2>1, <2>2, <2>4, FromIsLoop
<1>2. TypeOK /\ WindowIsLatest => FromAgrees
  BY <1>1 DEF FromAgrees
<1>3. QED BY <1>2, TypeCorrect, WindowCorrect, PTL
-----------------------------------------------------------------------------
(* A list of segments: the latest of those made, at most SegCountMax, each
   with data. *)
ListIsLatest(cl) ==
  LET segs == cl.outTsSegs.segs
      n    == Len(segs)
  IN  /\ n <= SegCountMax
      /\ n <= cl.tsTotalCount
      /\ \A i \in 1..n : segs[i].name = cl.tsTotalCount - n + i - 1
      /\ \A i \in 1..n : HasData(segs[i].data)

(* What a request does to a Client: it pushes one segment with data or none,
   and announces a slide at once. *)
Pushes(cl, result, new) ==
  LET buf  == cl.outTsSegs
      full == Len(buf.segs) >= SegCountMax
      kept == IF full THEN Tail(buf.segs) ELSE buf.segs
  IN  /\ HasData(result.packets)
      /\ new.tsTotalCount = cl.tsTotalCount + 1
      /\ new.outTsSegs.segs
           = Append(kept, [name |-> cl.tsTotalCount, data |-> result.packets])
      /\ new.outTsSegs.sequence
           = IF buf.isSlide \/ full THEN buf.sequence + 1 ELSE buf.sequence

PushesNothing(cl, new) ==
  LET buf == cl.outTsSegs
  IN  /\ new.tsTotalCount = cl.tsTotalCount
      /\ new.outTsSegs.segs = buf.segs
      /\ new.outTsSegs.sequence
           = IF buf.isSlide THEN buf.sequence + 1 ELSE buf.sequence

(* A request pushes a segment or none, and leaves no slide to announce. *)
LEMMA RefreshedEffect ==
  ASSUME NEW cl, IsClient(cl), NEW result, IsResult(result)
  PROVE  LET new == Refreshed(cl, result)
         IN  /\ new.outTsSegs.isSlide = FALSE
             /\ Pushes(cl, result, new) \/ PushesNothing(cl, new)
<1> DEFINE taken == Take(cl, result)
           new   == Refreshed(cl, result)
<1>1. IsClient(taken) /\ IsBuffer(taken.outTsSegs)
  BY TakeType DEF IsClient
<1>2. /\ new.tsTotalCount = taken.tsTotalCount
      /\ new.outTsSegs = Refresh(taken.outTsSegs)
  <2> HIDE DEF taken
  <2>1. new = [taken EXCEPT !.outTsSegs = Refresh(@)]
    BY DEF Refreshed, taken
  <2>2. QED BY <1>1, <2>1 DEF IsClient
<1>3. /\ new.outTsSegs.isSlide = FALSE
      /\ new.outTsSegs.segs = taken.outTsSegs.segs
      /\ new.outTsSegs.sequence
           = IF taken.outTsSegs.isSlide
             THEN taken.outTsSegs.sequence + 1 ELSE taken.outTsSegs.sequence
  BY <1>1, <1>2, RefreshType
<1>4. CASE result.ok /\ HasData(result.packets)
  <2> DEFINE buf == cl.outTsSegs
  <2>1. /\ taken.outTsSegs = Push(buf, cl.tsTotalCount, result.packets)
        /\ taken.tsTotalCount = cl.tsTotalCount + 1
    BY <1>4 DEF Take
  <2>2. IsBuffer(buf) /\ cl.tsTotalCount \in Nat /\ result.packets \in Seq(Packet)
    BY DEF IsClient, IsResult
  <2>3. /\ taken.outTsSegs.sequence = buf.sequence
        /\ taken.outTsSegs.isSlide
             = (buf.isSlide \/ Len(buf.segs) >= SegCountMax)
    <3> HIDE DEF taken
    <3>1. QED BY <2>1, <2>2, PushType
  <2>4. taken.outTsSegs.segs
          = Append(IF Len(buf.segs) >= SegCountMax
                   THEN Tail(buf.segs) ELSE buf.segs,
                   [name |-> cl.tsTotalCount, data |-> result.packets])
    <3>1. Push(buf, cl.tsTotalCount, result.packets).segs
            = Append(IF Len(buf.segs) >= SegCountMax
                     THEN Tail(buf.segs) ELSE buf.segs,
                     [name |-> cl.tsTotalCount, data |-> result.packets])
      BY Zenon DEF Push
    <3>2. QED BY Zenon, <2>1, <3>1
  <2>5. Pushes(cl, result, new)
    <3> HIDE DEF taken, new
    <3>1. QED BY <1>2, <1>3, <1>4, <2>1, <2>3, <2>4 DEF Pushes
  <2>6. QED BY <1>3, <2>5
<1>5. CASE ~(result.ok /\ HasData(result.packets))
  <2>1. taken.outTsSegs = cl.outTsSegs /\ taken.tsTotalCount = cl.tsTotalCount
    BY <1>5 DEF Take, IsClient
  <2>2. PushesNothing(cl, new)
    <3> HIDE DEF taken, new
    <3>1. QED BY <1>2, <1>3, <2>1 DEF PushesNothing
  <2>3. QED BY <1>3, <2>2
<1>6. QED BY <1>4, <1>5

(* Either way the list stays the latest of those made. *)
LEMMA RefreshedList ==
  ASSUME NEW cl, IsClient(cl), ListIsLatest(cl), NEW result, IsResult(result)
  PROVE  ListIsLatest(Refreshed(cl, result))
<1> DEFINE new   == Refreshed(cl, result)
           segs  == cl.outTsSegs.segs
           n     == Len(segs)
           kept  == IF n >= SegCountMax THEN Tail(segs) ELSE segs
           entry == [name |-> cl.tsTotalCount, data |-> result.packets]
<1>1. CASE PushesNothing(cl, new)
  BY <1>1 DEF PushesNothing, ListIsLatest
<1>2. CASE Pushes(cl, result, new)
  <2>1. /\ segs \in Seq(Listed) /\ cl.tsTotalCount \in Nat
        /\ entry \in Listed /\ n \in Nat /\ SegCountMax \in Nat \ {0}
    BY TSSegmentAssumption DEF IsClient, IsBuffer, IsResult, Listed
  <2>2. /\ new.tsTotalCount = cl.tsTotalCount + 1
        /\ new.outTsSegs.segs = Append(kept, entry)
        /\ HasData(result.packets)
    BY <1>2 DEF Pushes
  <2> DEFINE m == Len(kept)
  <2>3. /\ kept \in Seq(Listed) /\ m \in Nat /\ m < SegCountMax
        /\ m <= cl.tsTotalCount
        /\ \A i \in 1..m : kept[i].name = cl.tsTotalCount - m + i - 1
        /\ \A i \in 1..m : HasData(kept[i].data)
    <3>1. CASE n >= SegCountMax
      <4>1. /\ segs # <<>> /\ Tail(segs) \in Seq(Listed)
            /\ Len(Tail(segs)) = n - 1
            /\ \A i \in 1..n-1 : Tail(segs)[i] = segs[i + 1]
        <5>1. segs # <<>>
          BY <2>1, <3>1, EmptySeq
        <5> HIDE DEF segs
        <5>2. QED BY <2>1, <5>1, HeadTailProperties
      <4>2. kept = Tail(segs)
        BY <3>1
      <4>3. n = SegCountMax /\ n <= cl.tsTotalCount
        BY <2>1, <3>1 DEF ListIsLatest
      <4>4. \A i \in 1..n : /\ segs[i].name = cl.tsTotalCount - n + i - 1
                           /\ HasData(segs[i].data)
        BY DEF ListIsLatest
      <4> HIDE DEF segs, kept, n
      <4>5. m = n - 1
        BY <4>1, <4>2
      <4>6. ASSUME NEW i \in 1..m
            PROVE  /\ kept[i].name = cl.tsTotalCount - m + i - 1
                   /\ HasData(kept[i].data)
        <5>1. i + 1 \in 1..n /\ i \in 1..n-1
          BY <2>1, <4>5
        <5>2. kept[i] = segs[i + 1]
          BY <4>1, <4>2, <5>1
        <5>3. segs[i + 1].name = cl.tsTotalCount - n + (i + 1) - 1
          BY <4>4, <5>1
        <5>4. HasData(segs[i + 1].data)
          BY <4>4, <5>1
        <5>5. QED BY <2>1, <4>5, <5>2, <5>3, <5>4
      <4>7. m \in Nat /\ m < SegCountMax /\ m <= cl.tsTotalCount
        BY <2>1, <4>3, <4>5
      <4>8. QED BY <4>1, <4>2, <4>6, <4>7
    <3>2. CASE ~(n >= SegCountMax)
      BY <2>1, <3>2 DEF ListIsLatest
    <3>3. QED BY <3>1, <3>2
  <2> DEFINE grown == Append(kept, entry)
  <2>4. /\ Len(grown) = m + 1 /\ grown[m + 1] = entry
        /\ \A i \in 1..m : grown[i] = kept[i]
    <3> HIDE DEF kept, entry
    <3>1. QED BY <2>1, <2>3, AppendProperties
  <2>5. ASSUME NEW i \in 1..m+1
        PROVE  /\ grown[i].name = (cl.tsTotalCount + 1) - (m + 1) + i - 1
               /\ HasData(grown[i].data)
    <3>1. CASE i \in 1..m
      <4> HIDE DEF kept, entry, grown
      <4>1. QED BY <2>1, <2>3, <2>4, <3>1
    <3>2. CASE i = m + 1
      <4>1. entry.name = cl.tsTotalCount /\ entry.data = result.packets
        OBVIOUS
      <4>2. cl.tsTotalCount = (cl.tsTotalCount + 1) - (m + 1) + i - 1
        <5> HIDE DEF kept, m
        <5>1. QED BY <2>1, <2>3, <3>2
      <4> HIDE DEF kept, entry, grown, m
      <4>3. QED BY <2>2, <2>4, <3>2, <4>1, <4>2
    <3>3. QED
      <4> HIDE DEF kept
      <4>1. QED BY <2>3, <3>1, <3>2
  <2>6. m + 1 <= SegCountMax /\ m + 1 <= cl.tsTotalCount + 1
    <3> HIDE DEF kept
    <3>1. QED BY <2>1, <2>3
  <2>7. QED
    <3> HIDE DEF kept, entry, grown, new, m
    <3>1. new.outTsSegs.segs = grown /\ Len(grown) = m + 1
      BY <2>2, <2>4 DEF grown
    <3>2. new.tsTotalCount = cl.tsTotalCount + 1
      BY <2>2
    <3>3. ListIsLatest(new)
      BY <2>5, <2>6, <3>1, <3>2 DEF ListIsLatest
    <3>4. QED BY <3>3 DEF new
<1>3. QED BY <1>1, <1>2, RefreshedEffect
-----------------------------------------------------------------------------
(* The inductive invariant about the sessions.  A list that was announced is
   what the last playlist printed, with no slide left to announce; a session
   whose first request is being handled has an empty list. *)
SessionOK(s) ==
  /\ ListIsLatest(client[s])
  /\ Answered(s) => /\ playlist[s] = M3u8(client[s].outTsSegs)
                    /\ client[s].outTsSegs.isSlide = FALSE
  /\ serving = s => /\ client[s].outTsSegs.segs = <<>>
                    /\ client[s].outTsSegs.sequence = 0
                    /\ client[s].tsTotalCount = 0

SessionsOK == \A s \in Sessions : SessionOK(s)

(* The list of a new Client is empty. *)
LEMMA NewClientList ==
  ASSUME NEW isSlide \in BOOLEAN, NEW target, NEW index
  PROVE  LET cl == NewClient(isSlide, target, index)
         IN  /\ ListIsLatest(cl)
             /\ cl.outTsSegs.segs = <<>>
             /\ cl.outTsSegs.sequence = 0
             /\ cl.tsTotalCount = 0
<1> DEFINE cl == NewClient(isSlide, target, index)
<1>1. /\ cl.outTsSegs.segs = <<>> /\ cl.outTsSegs.sequence = 0
      /\ cl.tsTotalCount = 0
  BY DEF NewClient, NewBuffer
<1> HIDE DEF cl
<1>2. Len(cl.outTsSegs.segs) = 0
  BY <1>1, EmptySeq
<1>3. ListIsLatest(cl)
  BY <1>1, <1>2, TSSegmentAssumption DEF ListIsLatest
<1>4. QED BY <1>1, <1>3 DEF cl

(* So is the list of a session that has no Client. *)
LEMMA NoClientList ==
  /\ NoClient.outTsSegs.segs = <<>>
  /\ NoClient.outTsSegs.sequence = 0
  /\ NoClient.tsTotalCount = 0
  /\ ListIsLatest(NoClient)
BY FALSE \in BOOLEAN, NewClientList DEF NoClient

(* At the start no session has a list. *)
LEMMA InitSessions == Init => SessionsOK
<1> SUFFICES ASSUME Init, NEW s \in Sessions PROVE SessionOK(s)
  BY DEF SessionsOK
<1>1. client[s] = NoClient /\ ~Answered(s) /\ serving # s
  BY HlsStreamAssumption DEF Init, Answered
<1>2. QED BY <1>1, NoClientList DEF SessionOK

(* Every request, the first and the later ones, is answered by a call of
   GetTsSeg and Respond. *)
LEMMA RequestIsAnswered ==
  ASSUME TypeOK, NEW s \in Sessions, First(s) \/ Reload(s)
  PROVE  /\ \E result : IsResult(result) /\ Respond(s, result)
         /\ clients' = clients /\ s \in clients
         /\ serving \in {s, None} /\ serving' = None
         /\ UNCHANGED <<inPackets, packetCount>>
<1> USE HlsStreamAssumption
<1>1. CASE FirstEmpty(s)
  BY <1>1, NoSegmentType DEF FirstEmpty, TypeOK
<1>2. CASE FirstSegment(s)
  BY <1>2, GetTsSegFirstType DEF FirstSegment, TypeOK
<1>3. CASE Reload(s)
  BY <1>3, GetTsSegFromType DEF Reload, TypeOK
<1>4. QED BY <1>1, <1>2, <1>3 DEF First

(* Every step keeps the invariant about the sessions. *)
LEMMA NextSessions == TypeOK /\ SessionsOK /\ [Next]_vars => SessionsOK'
<1> SUFFICES ASSUME TypeOK, SessionsOK, [Next]_vars, NEW t \in Sessions
             PROVE  SessionOK(t)'
  BY DEF SessionsOK
<1> USE HlsStreamAssumption
<1>1. SessionOK(t) /\ IsClient(client[t])
  BY DEF SessionsOK, TypeOK
<1>2. CASE Pull
  <2>1. UNCHANGED <<clients, client, serving, playlist>>
    BY <1>2 DEF Pull, CreateTs
  <2>2. QED BY <1>1, <2>1 DEF SessionOK, Answered
<1>3. ASSUME NEW s \in Sessions, NEW isSlide \in UninitSlide,
             NEW target \in UninitTarget, NEW index \in UninitIndex,
             Open(s, isSlide, target, index)
      PROVE  SessionOK(t)'
  <2>1. CASE t = s
    <3>1. /\ client'[t] = NewClient(isSlide, target, index)
          /\ serving' = t
      BY <1>3, <2>1 DEF Open, TypeOK
    <3>2. QED BY <3>1, NewClientList DEF SessionOK, Answered
  <2>2. CASE t # s
    <3>1. /\ client'[t] = client[t] /\ playlist'[t] = playlist[t]
          /\ serving' # t /\ serving # t /\ (t \in clients' <=> t \in clients)
      BY <1>3, <2>2 DEF Open, TypeOK
    <3>2. QED BY <1>1, <3>1 DEF SessionOK, Answered
  <2>3. QED BY <2>1, <2>2
<1>4. ASSUME NEW s \in Sessions, First(s) \/ Reload(s) PROVE SessionOK(t)'
  <2>1. PICK result : IsResult(result) /\ Respond(s, result)
    BY <1>4, RequestIsAnswered
  <2>2. /\ clients' = clients /\ s \in clients
        /\ serving \in {s, None} /\ serving' = None
    BY <1>4, RequestIsAnswered
  <2>3. CASE t = s
    <3>1. /\ client'[t] = Refreshed(client[t], result)
          /\ playlist'[t] = M3u8(client'[t].outTsSegs)
      BY <2>1, <2>3, RespondEffect
    <3>2. ListIsLatest(client'[t])
      BY <1>1, <2>1, <3>1, RefreshedList DEF SessionOK
    <3>3. client'[t].outTsSegs.isSlide = FALSE
      BY <1>1, <2>1, <3>1, RefreshedEffect
    <3>4. QED BY <2>2, <3>1, <3>2, <3>3 DEF SessionOK, Answered
  <2>4. CASE t # s
    <3>1. client'[t] = client[t] /\ playlist'[t] = playlist[t]
      BY <2>1, <2>4, RespondEffect
    <3>2. serving # t /\ serving' # t
      BY <2>2, <2>4
    <3>3. QED BY <1>1, <2>2, <3>1, <3>2 DEF SessionOK, Answered
  <2>5. QED BY <2>3, <2>4
<1>5. ASSUME NEW s \in Sessions, Expire(s) PROVE SessionOK(t)'
  <2>1. CASE t = s
    <3>1. client'[t] = NoClient /\ t \notin clients' /\ serving' # t
      BY <1>5, <2>1 DEF Expire, TypeOK
    <3>2. QED BY <3>1, NoClientList DEF SessionOK, Answered
  <2>2. CASE t # s
    <3>1. /\ client'[t] = client[t] /\ playlist'[t] = playlist[t]
          /\ serving' = serving /\ (t \in clients' <=> t \in clients)
      BY <1>5, <2>2 DEF Expire, TypeOK
    <3>2. QED BY <1>1, <3>1 DEF SessionOK, Answered
  <2>3. QED BY <2>1, <2>2
<1>6. CASE UNCHANGED vars
  BY <1>1, <1>6 DEF vars, SessionOK, Answered
<1>7. QED BY <1>2, <1>3, <1>4, <1>5, <1>6 DEF Next, Handle

(* It holds throughout. *)
LEMMA SessionsCorrect == Spec => [](TypeOK /\ SessionsOK)
<1>1. TypeOK /\ SessionsOK /\ [Next]_vars => (TypeOK /\ SessionsOK)'
  BY NextType, NextSessions
<1>2. QED BY <1>1, InitType, InitSessions, PTL DEF Spec

(* The names in a list are consecutive and the latest: no two segments of a
   list share a name, for every length of the list and however often the
   session reloads (Client.h:107-152, TSSegment.h:68-88). *)
THEOREM SegmentsCorrect == Spec => []SegmentsAreLatest
<1>1. SessionsOK => SegmentsAreLatest
  BY DEF SessionsOK, SessionOK, ListIsLatest, SegmentsAreLatest
<1>2. QED BY <1>1, SessionsCorrect, PTL

(* GetTs finds the segment that has the name, and no other. *)
LEMMA GetTsFinds ==
  ASSUME NEW cl, IsClient(cl), ListIsLatest(cl),
         NEW i \in 1..Len(cl.outTsSegs.segs)
  PROVE  GetTs(cl.outTsSegs, cl.outTsSegs.segs[i].name)
           = cl.outTsSegs.segs[i].data
<1> DEFINE segs  == cl.outTsSegs.segs
           n     == Len(segs)
           named == {j \in 1..Len(segs) : segs[j].name = segs[i].name}
<1>1. n \in Nat /\ cl.tsTotalCount \in Nat
  BY DEF IsClient, IsBuffer
<1>2. \A j \in 1..n : segs[j].name = cl.tsTotalCount - n + j - 1
  BY DEF ListIsLatest
<1>3. \A j \in named : j = i
  <2> HIDE DEF segs, n
  <2>1. SUFFICES ASSUME NEW j \in 1..n, segs[j].name = segs[i].name PROVE j = i
    BY DEF n
  <2>2. i \in 1..n
    BY DEF n, segs
  <2>3. cl.tsTotalCount - n + j - 1 = cl.tsTotalCount - n + i - 1
    BY <1>2, <2>1, <2>2
  <2>4. QED BY <1>1, <2>2, <2>3
<1>4. Min(named) = i
  <2>1. i \in named /\ named \in SUBSET Nat
    OBVIOUS
  <2> HIDE DEF named
  <2>2. QED BY <1>3, <2>1, MinIsLeast
<1>5. named # {}
  OBVIOUS
<1>6. GetTs(cl.outTsSegs, segs[i].name)
        = IF named = {} THEN <<>> ELSE segs[Min(named)].data
  BY Zenon DEF GetTs
<1>7. QED
  <2> HIDE DEF named
  <2>1. QED BY <1>4, <1>5, <1>6

(* Every segment a session was last told of is still there, has data, and
   lasts as long as the playlist says, for every length of the list: a request
   that evicts a segment (Push, TSSegment.h:73-82) also takes it out of the
   answer it sends (GetM3u8). *)
THEOREM PlaylistsCorrect == Spec => []PlaylistServable
<1>1. ASSUME TypeOK, SessionsOK PROVE PlaylistServable
  <2>1. SUFFICES ASSUME NEW s \in Sessions, playlist[s] # None,
                        NEW i \in 1..Len(playlist[s].entries)
                 PROVE  LET entry == playlist[s].entries[i]
                            data  == GetTs(client[s].outTsSegs, entry.name)
                        IN  HasData(data) /\ Duration(data) = entry.duration
    BY DEF PlaylistServable
  <2> DEFINE cl    == client[s]
             segs  == cl.outTsSegs.segs
             entry == playlist[s].entries[i]
  <2>2. /\ IsClient(cl) /\ ListIsLatest(cl)
        /\ playlist[s] = M3u8(cl.outTsSegs)
    BY <1>1, <2>1 DEF TypeOK, SessionsOK, SessionOK, Answered
  <2>3. Len(segs) \in Nat
    BY <2>2 DEF IsClient, IsBuffer
  <2>4. playlist[s].entries =
          [j \in 1..Len(segs) |-> [name     |-> segs[j].name,
                                   duration |-> Duration(segs[j].data)]]
    BY <2>2 DEF M3u8
  <2>5. /\ i \in 1..Len(segs)
        /\ entry.name = segs[i].name /\ entry.duration = Duration(segs[i].data)
    <3> HIDE DEF segs
    <3>1. Len(playlist[s].entries) = Len(segs)
      BY <2>3, <2>4
    <3>2. i \in 1..Len(segs)
      BY <2>1, <3>1
    <3>3. QED BY <2>4, <3>2
  <2>6. GetTs(cl.outTsSegs, entry.name) = segs[i].data
    BY <2>2, <2>5, GetTsFinds
  <2>7. HasData(segs[i].data)
    BY <2>2, <2>5 DEF ListIsLatest
  <2>8. QED BY <2>5, <2>6, <2>7
<1>2. QED BY <1>1, SessionsCorrect, PTL
-----------------------------------------------------------------------------
(* The duration of packets of a stream is a natural number. *)
LEMMA DurationIsNat ==
  ASSUME NEW packets \in Seq(Packet)
  PROVE  Duration(packets) \in Nat
<1>1. \A packet \in Packet : packet.duration \in Nat
  BY DEF Packet
<1>2. QED BY <1>1, DurationType

(* The cast of targetDuration + 1 to an int covers targetDuration, when the int
   can hold it. *)
LEMMA TargetSecondsCovers ==
  ASSUME NEW target \in Nat, TargetSeconds(target) # IntMin
  PROVE  /\ TargetSeconds(target) \in Int
         /\ target <= TargetSeconds(target) * TicksPerSecond
<1> DEFINE q == (target + TicksPerSecond) \div TicksPerSecond
           r == (target + TicksPerSecond) % TicksPerSecond
<1>1. TicksPerSecond \in Nat \ {0} /\ target # NaN
  BY TSSegmentAssumption
<1>2. TargetSeconds(target) = q
  <2>1. target + TicksPerSecond >= 0
    BY <1>1
  <2>2. QED BY <1>1, <2>1 DEF TargetSeconds
<1>3. /\ q \in Int /\ r \in 0..TicksPerSecond - 1
      /\ target + TicksPerSecond = TicksPerSecond * q + r
  BY <1>1
<1>4. TicksPerSecond * q = q * TicksPerSecond
  BY <1>1, <1>3
<1>5. TicksPerSecond * q \in Int
  BY <1>1, <1>3
<1>6. target <= TicksPerSecond * q
  <2> HIDE DEF q, r
  <2>1. QED BY <1>1, <1>3, <1>5
<1>7. QED BY <1>2, <1>3, <1>4, <1>6

(* targetDuration is at least the duration of every listed segment, unless it
   was found to be no number. *)
TargetOK(buf) ==
  /\ buf.targetDuration \in Int \cup {NaN}
  /\ buf.targetDuration # NaN =>
       \A i \in 1..Len(buf.segs) :
         Duration(buf.segs[i].data) <= buf.targetDuration

TargetsOK == \A s \in Sessions : TargetOK(client[s].outTsSegs)

(* Push keeps the target above what is listed: the new segment raises it, and
   the one that is dropped does not lower it. *)
LEMMA PushTarget ==
  ASSUME NEW buf, IsBuffer(buf), TargetOK(buf), NEW name \in Nat,
         NEW packets \in Seq(Packet)
  PROVE  TargetOK(Push(buf, name, packets))
<1> DEFINE segs   == buf.segs
           old    == buf.targetDuration
           d      == Duration(packets)
           new    == IF Exceeds(d, old) THEN d ELSE old
           kept   == IF Len(segs) >= SegCountMax THEN Tail(segs) ELSE segs
           pushed == Append(kept, [name |-> name, data |-> packets])
<1>1. /\ Push(buf, name, packets).targetDuration = new
      /\ Push(buf, name, packets).segs = pushed
  BY DEF Push
<1>2. kept \in Seq(Listed) /\ segs \in Seq(Listed) /\ Len(segs) \in Nat
  <2>1. kept \in Seq(Listed)
    BY PushSegs
  <2>2. segs \in Seq(Listed)
    BY DEF IsBuffer, Listed
  <2>3. QED BY <2>1, <2>2
<1>3. ASSUME NEW i \in 1..Len(kept)
      PROVE  \E j \in 1..Len(segs) : kept[i] = segs[j]
  <2>1. CASE Len(segs) >= SegCountMax
    <3>1. segs # <<>>
      BY <1>2, <2>1, TSSegmentAssumption, EmptySeq
    <3> HIDE DEF segs
    <3>2. /\ Len(Tail(segs)) = Len(segs) - 1
          /\ \A k \in 1..Len(segs)-1 : Tail(segs)[k] = segs[k + 1]
      BY <1>2, <3>1, HeadTailProperties
    <3>3. i \in 1..Len(segs)-1 /\ i + 1 \in 1..Len(segs)
      BY <1>2, <1>3, <2>1, <3>2
    <3>4. QED BY <2>1, <3>2, <3>3
  <2>2. QED BY <1>3, <2>1
<1>4. d \in Nat /\ old \in Int \cup {NaN}
  BY DurationIsNat DEF TargetOK
<1>5. new \in Int \cup {NaN}
  BY <1>4
<1>6. ASSUME new # NaN, NEW i \in 1..Len(pushed)
      PROVE  Duration(pushed[i].data) <= new
  <2>1. old # NaN /\ old \in Int /\ new \in Int /\ d <= new /\ old <= new
    BY <1>4, <1>6, TSSegmentAssumption DEF Exceeds
  <2>2. /\ [name |-> name, data |-> packets] \in Listed
        /\ Len(kept) \in Nat
    BY <1>2 DEF Listed
  <2>3. /\ Len(pushed) = Len(kept) + 1
        /\ pushed[Len(kept) + 1] = [name |-> name, data |-> packets]
        /\ \A k \in 1..Len(kept) : pushed[k] = kept[k]
    <3> HIDE DEF kept
    <3>1. QED BY <1>2, <2>2, AppendProperties
  <2>4. CASE i = Len(kept) + 1
    <3> HIDE DEF kept, new, old, pushed
    <3>1. pushed[i].data = packets
      BY <2>3, <2>4
    <3>2. QED BY <2>1, <3>1
  <2>5. CASE i \in 1..Len(kept)
    <3>1. PICK j \in 1..Len(segs) : kept[i] = segs[j]
      BY <1>3, <2>5
    <3>2. Duration(segs[j].data) <= old
      BY <2>1 DEF TargetOK
    <3>3. segs[j] \in Listed
      <4> HIDE DEF segs
      <4>1. QED BY <1>2
    <3>4. Duration(segs[j].data) \in Nat
      BY <3>3, DurationIsNat DEF Listed
    <3>5. pushed[i] = segs[j]
      <4> HIDE DEF kept, pushed
      <4>1. QED BY <2>3, <2>5, <3>1
    <3> HIDE DEF kept, new, old, pushed, segs
    <3>6. QED BY <2>1, <3>2, <3>4, <3>5
  <2>6. i \in 1..Len(kept) \/ i = Len(kept) + 1
    <3> HIDE DEF kept, pushed
    <3>1. QED BY <1>6, <2>2, <2>3
  <2>7. QED BY <2>4, <2>5, <2>6
<1>7. QED
  <2> HIDE DEF new, pushed
  <2>1. QED BY <1>1, <1>5, <1>6 DEF TargetOK

(* So does a whole request. *)
LEMMA RefreshedTarget ==
  ASSUME NEW cl, IsClient(cl), TargetOK(cl.outTsSegs),
         NEW result, IsResult(result)
  PROVE  TargetOK(Refreshed(cl, result).outTsSegs)
<1> DEFINE taken == Take(cl, result)
<1>1. TargetOK(taken.outTsSegs)
  <2>1. CASE result.ok /\ HasData(result.packets)
    <3>1. TargetOK(Push(cl.outTsSegs, cl.tsTotalCount, result.packets))
      BY PushTarget DEF IsClient, IsResult
    <3>2. QED BY <2>1, <3>1 DEF Take
  <2>2. CASE ~(result.ok /\ HasData(result.packets))
    <3>1. taken.outTsSegs = cl.outTsSegs
      BY <2>2 DEF Take, IsClient
    <3>2. QED BY <3>1
  <2>3. QED BY <2>1, <2>2
<1>2. /\ Refreshed(cl, result).outTsSegs = Refresh(taken.outTsSegs)
  <2>1. IsClient(taken)
    BY TakeType
  <2> HIDE DEF taken
  <2>2. Refreshed(cl, result) = [taken EXCEPT !.outTsSegs = Refresh(@)]
    BY DEF Refreshed, taken
  <2>3. QED BY <2>1, <2>2 DEF IsClient
<1>3. /\ Refresh(taken.outTsSegs).segs = taken.outTsSegs.segs
      /\ Refresh(taken.outTsSegs).targetDuration = taken.outTsSegs.targetDuration
  <2> HIDE DEF taken
  <2>1. QED BY DEF Refresh
<1>4. QED
  <2> HIDE DEF taken
  <2>1. QED BY <1>1, <1>2, <1>3 DEF TargetOK

(* A list that is empty is covered by anything. *)
LEMMA NewClientTarget ==
  ASSUME NEW isSlide, NEW target \in Int \cup {NaN}, NEW index
  PROVE  TargetOK(NewClient(isSlide, target, index).outTsSegs)
<1>1. 1..Len(<<>>) = {}
  BY EmptySeq
<1>2. QED BY <1>1 DEF NewClient, NewBuffer, TargetOK

(* Nor does a session without a Client list a segment. *)
LEMMA NoClientTarget == TargetOK(NoClient.outTsSegs)
<1>1. 0 \in Int \cup {NaN}
  OBVIOUS
<1>2. QED BY <1>1, NewClientTarget, Zenon DEF NoClient

(* At the start no segment is listed. *)
LEMMA InitTargets == Init => TargetsOK
BY NoClientTarget DEF Init, TargetsOK

(* Every step keeps the targets above what is listed. *)
LEMMA NextTargets == TypeOK /\ TargetsOK /\ [Next]_vars => TargetsOK'
<1> SUFFICES ASSUME TypeOK, TargetsOK, [Next]_vars, NEW t \in Sessions
             PROVE  TargetOK(client'[t].outTsSegs)
  BY DEF TargetsOK
<1>1. TargetOK(client[t].outTsSegs) /\ IsClient(client[t])
  BY DEF TargetsOK, TypeOK
<1>2. CASE Pull \/ UNCHANGED vars
  BY <1>1, <1>2 DEF Pull, CreateTs, vars
<1>3. ASSUME NEW s \in Sessions, NEW isSlide \in UninitSlide,
             NEW target \in UninitTarget, NEW index \in UninitIndex,
             Open(s, isSlide, target, index)
      PROVE  TargetOK(client'[t].outTsSegs)
  <2>1. client'[t] = IF t = s THEN NewClient(isSlide, target, index) ELSE client[t]
    BY <1>3 DEF Open, TypeOK
  <2>2. target \in Int \cup {NaN}
    BY HlsStreamAssumption
  <2>3. QED BY <1>1, <2>1, <2>2, NewClientTarget
<1>4. ASSUME NEW s \in Sessions, First(s) \/ Reload(s)
      PROVE  TargetOK(client'[t].outTsSegs)
  <2>1. PICK result : IsResult(result) /\ Respond(s, result)
    BY <1>4, RequestIsAnswered
  <2>2. client'[t] = IF t = s THEN Refreshed(client[t], result) ELSE client[t]
    BY <2>1, RespondEffect
  <2>3. TargetOK(Refreshed(client[t], result).outTsSegs)
    BY <1>1, <2>1, RefreshedTarget
  <2>4. QED BY <1>1, <2>2, <2>3
<1>5. ASSUME NEW s \in Sessions, Expire(s) PROVE TargetOK(client'[t].outTsSegs)
  <2>1. client'[t] = IF t = s THEN NoClient ELSE client[t]
    BY <1>5 DEF Expire, TypeOK
  <2>2. QED BY <1>1, <2>1, NoClientTarget
<1>6. QED BY <1>2, <1>3, <1>4, <1>5 DEF Next, Handle

(* No listed segment is longer than the #EXT-X-TARGETDURATION it is listed
   under, for every list, every segment and whatever value targetDuration was
   found to have that the cast to int can represent: Push keeps the greatest duration
   (TSSegment.h:83-86), an eviction only leaves the target too long, and the
   cast in GetM3u8 (TSSegment.h:104) drops less than the second it adds. *)
THEOREM TargetCorrect == Spec => []TargetCovers
<1>1. ASSUME TypeOK, SessionsOK, TargetsOK PROVE TargetCovers
  <2>1. SUFFICES ASSUME NEW s \in Sessions, playlist[s] # None,
                        playlist[s].target # IntMin,
                        NEW i \in 1..Len(playlist[s].entries)
                 PROVE  playlist[s].entries[i].duration
                          <= playlist[s].target * TicksPerSecond
    BY DEF TargetCovers
  <2> DEFINE buf    == client[s].outTsSegs
             segs   == buf.segs
             target == buf.targetDuration
  <2>2. IsBuffer(buf) /\ TargetOK(buf) /\ playlist[s] = M3u8(buf)
    BY <1>1, <2>1 DEF TypeOK, IsClient, SessionsOK, SessionOK, Answered, TargetsOK
  <2>3. segs \in Seq(Listed) /\ Len(segs) \in Nat
    BY <2>2 DEF IsBuffer, Listed
  <2>4. /\ playlist[s].target = TargetSeconds(target)
        /\ playlist[s].entries =
             [j \in 1..Len(segs) |-> [name     |-> segs[j].name,
                                      duration |-> Duration(segs[j].data)]]
    BY <2>2 DEF M3u8
  <2>5. i \in 1..Len(segs) /\ playlist[s].entries[i].duration = Duration(segs[i].data)
    <3> HIDE DEF segs
    <3>1. Len(playlist[s].entries) = Len(segs)
      BY <2>3, <2>4
    <3>2. i \in 1..Len(segs)
      BY <2>1, <3>1
    <3>3. QED BY <2>4, <3>2
  <2>6. target # NaN
    BY <2>1, <2>4 DEF TargetSeconds
  <2>7. target \in Int /\ Duration(segs[i].data) <= target
    BY <2>2, <2>5, <2>6 DEF TargetOK
  <2>8. segs[i] \in Listed
    <3> HIDE DEF segs
    <3>1. QED BY <2>3, <2>5
  <2>9. Duration(segs[i].data) \in Nat
    BY <2>8, DurationIsNat DEF Listed
  <2>10. target \in Nat
    <3> HIDE DEF target, segs
    <3>1. QED BY <2>7, <2>9
  <2>11. /\ TargetSeconds(target) \in Int
         /\ target <= TargetSeconds(target) * TicksPerSecond
    BY <2>1, <2>4, <2>10, TargetSecondsCovers
  <2>12. TargetSeconds(target) * TicksPerSecond \in Int
    <3> HIDE DEF target
    <3>1. QED BY <2>11, TSSegmentAssumption
  <2>13. QED
    <3> HIDE DEF target, segs
    <3> DEFINE bound == TargetSeconds(target) * TicksPerSecond
    <3>1. target <= bound /\ bound \in Int
      BY <2>11, <2>12
    <3> HIDE DEF bound
    <3>2. Duration(segs[i].data) <= bound
      BY <2>7, <2>9, <2>10, <3>1
    <3>3. QED BY <2>4, <2>5, <3>2 DEF bound
<1>2. QED BY <1>1, InitTargets, NextTargets, SessionsCorrect, PTL DEF Spec
-----------------------------------------------------------------------------
(* The refinement of LivePlaylist, one lemma for each kind of step. *)
LEMMA ViewDiffers ==
  ASSUME NEW first \in Int, NEW next \in Int, NEW sequence \in Int
  PROVE  [first |-> first, next |-> next, sequence |-> sequence] # None
BY ViewAssumption

(* A step that leaves a session alone leaves its view alone. *)
LEMMA SameView ==
  ASSUME NEW t \in Sessions, Answered(t)' <=> Answered(t),
         client'[t] = client[t], playlist'[t] = playlist[t]
  PROVE  View(t)' = View(t)
BY DEF View

(* A step that leaves all sessions but one alone changes one view. *)
LEMMA ViewChange ==
  ASSUME NEW s \in Sessions, \A t \in Sessions \ {s} : View(t)' = View(t)
  PROVE  Views' = [Views EXCEPT ![s] = View(s)']
BY DEF Views

(* At the start nothing was announced. *)
LEMMA RefinesInit == Init => Abstract!Init
<1> SUFFICES ASSUME Init, NEW s \in Sessions PROVE View(s) = None
  BY DEF Abstract!Init, Views
<1>1. QED BY DEF Init, View, Answered

(* A request changes the view of its session, and announces it. *)
LEMMA RequestViews ==
  ASSUME TypeOK, NEW s \in Sessions, First(s) \/ Reload(s)
  PROVE  /\ Views' = [Views EXCEPT ![s] = View(s)']
         /\ Answered(s)'
         /\ \E result : IsResult(result) /\ Respond(s, result)
<1>1. PICK result : IsResult(result) /\ Respond(s, result)
  BY RequestIsAnswered
<1>2. /\ clients' = clients /\ s \in clients
      /\ serving \in {s, None} /\ serving' = None
  BY RequestIsAnswered
<1>3. ASSUME NEW t \in Sessions \ {s} PROVE View(t)' = View(t)
  <2>1. client'[t] = client[t] /\ playlist'[t] = playlist[t]
    BY <1>1, RespondEffect
  <2>2. Answered(t)' <=> Answered(t)
    BY <1>2, HlsStreamAssumption DEF Answered
  <2>3. QED BY <2>1, <2>2, SameView
<1>4. Answered(s)'
  BY <1>2, HlsStreamAssumption DEF Answered
<1>5. QED BY <1>1, <1>3, <1>4, ViewChange

(* What the players see of a request: the buffer and the sequence it was left
   with. *)
LEMMA AnsweredView ==
  ASSUME TypeOK, NEW s \in Sessions, NEW result, IsResult(result),
         Respond(s, result), Answered(s)'
  PROVE  View(s)' = [first    |-> client'[s].tsTotalCount
                                    - Len(client'[s].outTsSegs.segs),
                     next     |-> client'[s].tsTotalCount,
                     sequence |-> client'[s].outTsSegs.sequence]
<1>1. playlist'[s].sequence = client'[s].outTsSegs.sequence
  <2>1. playlist'[s] = M3u8(client'[s].outTsSegs)
    BY RespondEffect
  <2>2. QED BY <2>1 DEF M3u8
<1>2. QED BY <1>1 DEF View

(* The first answer of a session opens its view. *)
LEMMA FirstRefines ==
  ASSUME TypeOK, SessionsOK, NEW s \in Sessions, First(s)
  PROVE  Abstract!Open(s)
<1> DEFINE cl  == client[s]
           new == client'[s]
<1>1. PICK result : IsResult(result) /\ Respond(s, result)
  BY RequestIsAnswered
<1>2. Views' = [Views EXCEPT ![s] = View(s)'] /\ Answered(s)'
  BY RequestViews
<1>3. serving = s
  BY DEF First, FirstEmpty, FirstSegment
<1>4. /\ cl.outTsSegs.segs = <<>> /\ cl.outTsSegs.sequence = 0
      /\ cl.tsTotalCount = 0 /\ IsClient(cl)
  BY <1>3 DEF SessionsOK, SessionOK, TypeOK
<1>5. new = Refreshed(cl, result)
  BY <1>1, RespondEffect
<1>6. Pushes(cl, result, new) \/ PushesNothing(cl, new)
  BY <1>1, <1>4, <1>5, RefreshedEffect
<1>7. /\ new.tsTotalCount \in {0, 1}
      /\ Len(new.outTsSegs.segs) = new.tsTotalCount
      /\ new.outTsSegs.sequence \in {0, 1}
  <2>1. CASE Pushes(cl, result, new)
    <3> DEFINE entry == [name |-> cl.tsTotalCount, data |-> result.packets]
    <3>1. ~(Len(cl.outTsSegs.segs) >= SegCountMax)
      BY <1>4, EmptySeq, TSSegmentAssumption
    <3>2. new.outTsSegs.segs = Append(<<>>, entry)
      BY <1>4, <2>1, <3>1 DEF Pushes
    <3>3. Len(new.outTsSegs.segs) = 1
      BY <3>2
    <3>4. new.tsTotalCount = 1 /\ new.outTsSegs.sequence \in {0, 1}
      BY <1>4, <2>1 DEF Pushes
    <3>5. QED BY <3>3, <3>4
  <2>2. CASE PushesNothing(cl, new)
    <3>1. /\ new.tsTotalCount = 0 /\ new.outTsSegs.segs = <<>>
          /\ new.outTsSegs.sequence \in {0, 1}
      BY <1>4, <2>2 DEF PushesNothing
    <3>2. QED BY <3>1, EmptySeq
  <2>3. QED BY <1>6, <2>1, <2>2
<1>8. View(s)' = [first |-> 0, next |-> new.tsTotalCount,
                  sequence |-> new.outTsSegs.sequence]
  <2>1. new.tsTotalCount - Len(new.outTsSegs.segs) = 0
    BY <1>7
  <2>2. QED BY <1>1, <1>2, <2>1, AnsweredView
<1>9. Views[s] = None
  BY <1>3 DEF Views, View, Answered
<1>10. QED BY <1>2, <1>7, <1>8, <1>9 DEF Abstract!Open

(* A later one extends the view, or leaves it. *)
LEMMA ReloadRefines ==
  ASSUME TypeOK, SessionsOK, NEW s \in Sessions, Reload(s)
  PROVE  Abstract!Extend(s) \/ Views' = Views
<1> DEFINE cl   == client[s]
           new  == client'[s]
           n    == Len(cl.outTsSegs.segs)
           full == n >= SegCountMax
           view == [first |-> cl.tsTotalCount - n, next |-> cl.tsTotalCount,
                    sequence |-> cl.outTsSegs.sequence]
<1>1. PICK result : IsResult(result) /\ Respond(s, result)
  BY RequestIsAnswered
<1>2. Views' = [Views EXCEPT ![s] = View(s)'] /\ Answered(s)'
  BY RequestViews
<1>3. Answered(s)
  BY HlsStreamAssumption DEF Reload, Answered
<1>4. /\ IsClient(cl) /\ playlist[s] = M3u8(cl.outTsSegs)
      /\ cl.outTsSegs.isSlide = FALSE
  BY <1>3 DEF SessionsOK, SessionOK, TypeOK
<1>5. Views[s] = view
  <2>1. playlist[s].sequence = cl.outTsSegs.sequence
    BY <1>4 DEF M3u8
  <2>2. QED BY <1>3, <2>1 DEF Views, View
<1>6. View(s)' = [first    |-> new.tsTotalCount - Len(new.outTsSegs.segs),
                  next     |-> new.tsTotalCount,
                  sequence |-> new.outTsSegs.sequence]
  BY <1>1, <1>2, AnsweredView
<1>7. new = Refreshed(cl, result)
  BY <1>1, RespondEffect
<1>8. Pushes(cl, result, new) \/ PushesNothing(cl, new)
  BY <1>1, <1>4, <1>7, RefreshedEffect
<1>9. CASE PushesNothing(cl, new)
  <2>1. View(s)' = view
    BY <1>4, <1>6, <1>9 DEF PushesNothing
  <2>2. QED
    <3> HIDE DEF view
    <3>1. QED BY <1>2, <1>5, <2>1 DEF Views
<1>10. CASE Pushes(cl, result, new)
  <2> DEFINE slide == IF full THEN 1 ELSE 0
  <2>1. /\ cl.tsTotalCount \in Nat /\ n \in Nat /\ SegCountMax \in Nat \ {0}
        /\ cl.outTsSegs.sequence \in Nat
        /\ cl.outTsSegs.segs \in Seq(Listed)
        /\ result.packets \in Seq(Packet)
    BY <1>1, <1>4, TSSegmentAssumption DEF IsClient, IsBuffer, IsResult, Listed
  <2>2. Len(new.outTsSegs.segs) = n + 1 - slide
    <3> DEFINE kept  == IF full THEN Tail(cl.outTsSegs.segs)
                        ELSE cl.outTsSegs.segs
               entry == [name |-> cl.tsTotalCount, data |-> result.packets]
    <3>1. new.outTsSegs.segs = Append(kept, entry)
      BY <1>10 DEF Pushes
    <3>2. entry \in Listed
      BY <2>1 DEF Listed
    <3>3. kept \in Seq(Listed) /\ Len(kept) = n - slide
      <4>1. CASE full
        <5>1. cl.outTsSegs.segs # <<>>
          BY <2>1, <4>1, EmptySeq
        <5>2. QED BY <2>1, <4>1, <5>1, HeadTailProperties
      <4>2. CASE ~full
        BY <2>1, <4>2
      <4>3. QED BY <4>1, <4>2
    <3>4. Len(Append(kept, entry)) = Len(kept) + 1
      <4> HIDE DEF kept, entry
      <4>1. QED BY <3>2, <3>3, AppendProperties
    <3>5. slide \in Int
      OBVIOUS
    <3> HIDE DEF kept, entry, n, slide, new, cl
    <3>6. QED BY <2>1, <3>1, <3>3, <3>4, <3>5
  <2>3. /\ new.tsTotalCount = cl.tsTotalCount + 1
        /\ new.outTsSegs.sequence = cl.outTsSegs.sequence + slide
    <3> HIDE DEF new, cl
    <3>1. QED BY <1>4, <1>10, <2>1 DEF Pushes
  <2>4. new.tsTotalCount - Len(new.outTsSegs.segs) = cl.tsTotalCount - n + slide
    <3>1. slide \in Int
      OBVIOUS
    <3> HIDE DEF n, slide
    <3>2. QED BY <2>1, <2>2, <2>3, <3>1
  <2>5. View(s)' = [first    |-> Views[s].first + slide,
                    next     |-> Views[s].next + 1,
                    sequence |-> Views[s].sequence + slide]
    BY <1>5, <1>6, <2>3, <2>4
  <2>6. slide = IF Views[s].next - Views[s].first >= SegCountMax THEN 1 ELSE 0
    BY <1>5, <2>1
  <2>7. Views[s] # None
    <3>1. /\ cl.tsTotalCount - n \in Int /\ cl.tsTotalCount \in Int
          /\ cl.outTsSegs.sequence \in Int
      BY <2>1
    <3>2. view # None
      <4> HIDE DEF cl, n
      <4>1. QED BY <3>1, ViewDiffers
    <3> HIDE DEF view
    <3>3. QED BY <1>5, <3>2
  <2>8. QED
    <3> HIDE DEF slide
    <3>1. QED BY <1>2, <2>5, <2>6, <2>7 DEF Abstract!Extend
<1>11. QED BY <1>8, <1>9, <1>10

(* A session that is not answered yet has no view. *)
LEMMA OpenRefines ==
  ASSUME TypeOK, NEW s \in Sessions, NEW isSlide, NEW target, NEW index,
         Open(s, isSlide, target, index)
  PROVE  Views' = Views
<1>1. ASSUME NEW t \in Sessions \ {s} PROVE View(t)' = View(t)
  <2>1. client'[t] = client[t] /\ playlist'[t] = playlist[t]
    BY DEF Open, TypeOK
  <2>2. Answered(t)' <=> Answered(t)
    BY HlsStreamAssumption DEF Open, Answered
  <2>3. QED BY <2>1, <2>2, SameView
<1>2. View(s) = None /\ View(s)' = None
  BY DEF Open, View, Answered
<1>3. QED BY <1>1, <1>2 DEF Views

(* The deletion of a session closes its view. *)
LEMMA ExpireRefines ==
  ASSUME TypeOK, SessionsOK, NEW s \in Sessions, Expire(s)
  PROVE  Abstract!Close(s)
<1>1. ASSUME NEW t \in Sessions \ {s} PROVE View(t)' = View(t)
  <2>1. client'[t] = client[t] /\ playlist'[t] = playlist[t]
    BY DEF Expire, TypeOK
  <2>2. Answered(t)' <=> Answered(t)
    BY DEF Expire, Answered
  <2>3. QED BY <2>1, <2>2, SameView
<1>2. View(s)' = None
  BY DEF Expire, View, Answered
<1>3. Views' = [Views EXCEPT ![s] = None]
  BY <1>1, <1>2, ViewChange
<1>4. Views[s] # None
  <2> DEFINE cl == client[s]
  <2>1. Answered(s)
    BY DEF Expire, Answered
  <2>2. /\ cl.tsTotalCount \in Nat /\ Len(cl.outTsSegs.segs) \in Nat
        /\ cl.outTsSegs.sequence \in Nat
        /\ playlist[s].sequence = cl.outTsSegs.sequence
    <3>1. IsClient(cl) /\ playlist[s] = M3u8(cl.outTsSegs)
      BY <2>1 DEF TypeOK, SessionsOK, SessionOK
    <3>2. QED BY <3>1 DEF IsClient, IsBuffer, M3u8
  <2>3. QED BY <2>1, <2>2, ViewDiffers DEF Views, View
<1>5. QED BY <1>3, <1>4 DEF Abstract!Close

(* Every step is one of LivePlaylist, or none. *)
LEMMA RefinesNext ==
  TypeOK /\ SessionsOK /\ [Next]_vars => [Abstract!Next]_Views
<1> SUFFICES ASSUME TypeOK, SessionsOK, [Next]_vars
             PROVE  Abstract!Next \/ Views' = Views
  OBVIOUS
<1>1. CASE Pull
  BY <1>1 DEF Pull, CreateTs, Views, View, Answered
<1>2. ASSUME NEW s \in Sessions, NEW isSlide \in UninitSlide,
             NEW target \in UninitTarget, NEW index \in UninitIndex,
             Open(s, isSlide, target, index)
      PROVE  Views' = Views
  BY <1>2, OpenRefines
<1>3. ASSUME NEW s \in Sessions, First(s) PROVE Abstract!Next
  BY <1>3, FirstRefines DEF Abstract!Next
<1>4. ASSUME NEW s \in Sessions, Reload(s)
      PROVE  Abstract!Next \/ Views' = Views
  BY <1>4, ReloadRefines DEF Abstract!Next
<1>5. ASSUME NEW s \in Sessions, Expire(s) PROVE Abstract!Next
  BY <1>5, ExpireRefines DEF Abstract!Next
<1>6. CASE UNCHANGED vars
  BY <1>6 DEF vars, Views, View, Answered
<1>7. QED BY <1>1, <1>2, <1>3, <1>4, <1>5, <1>6 DEF Next, Handle

(* HlsStream implements LivePlaylist, for every number of sessions, window,
   list length and stream: the media sequence of a session moves by exactly
   one when its list slides and never otherwise (Push and GetM3u8,
   TSSegment.h:68-126), whatever isSlide held when the Client was made. *)
THEOREM StreamRefines == Spec => ImplementsLivePlaylist
<1>1. Spec => [](TypeOK /\ SessionsOK)
  BY SessionsCorrect
<1>2. QED BY <1>1, RefinesInit, RefinesNext, PTL
          DEF Spec, ImplementsLivePlaylist, Abstract!Spec
=============================================================================
