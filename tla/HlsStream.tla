----------------------------- MODULE HlsStream -----------------------------
(***************************************************************************)
(* One camera and the sessions that play it: the pull thread muxes packets *)
(* into the window (Camera::CreateTs), the thread that handles HTTP        *)
(* requests (MongooseHelper::ev_handler) opens sessions and answers their  *)
(* playlist requests (ClientManage::AddClient, Client::ResponeM3u8), and   *)
(* the cleaner deletes sessions that have been idle too long.              *)
(*                                                                         *)
(* The two threads meet in inPackets only.  The steps of the handler are   *)
(* its critical sections of inPacketsLocker; what it does to its Client    *)
(* before and after one is part of the step, since no other thread touches *)
(* a Client that is being served.  (The cleaner of the code can; the       *)
(* module ClientManage is about that, and here it only deletes a session   *)
(* nobody is serving.)                                                     *)
(*                                                                         *)
(* A session is opened with the values its uninitialized fields happen to  *)
(* have: TsSegBuffer's isSlide and targetDuration, and                     *)
(* currentInPacketIndex.                                                   *)
(***************************************************************************)
EXTENDS TSSegment, PacketWindowLoops

CONSTANTS
  Sessions,     \* the session ids in the playlist URLs
  None,
  PacketKinds,  \* the records [isKey, duration, hasData] a read can yield
  UninitSlide,  \* what an uninitialized isSlide may hold
  UninitTarget, \* what an uninitialized targetDuration may hold
  UninitIndex,  \* what an uninitialized currentInPacketIndex may hold
  MaxPackets    \* bound on the packets the pull thread produces

ASSUME HlsStreamAssumption ==
  /\ None \notin Sessions
  /\ PacketKinds \subseteq
       [isKey : BOOLEAN, duration : Nat, hasData : BOOLEAN]
  /\ UninitSlide \subseteq BOOLEAN
  /\ UninitTarget \subseteq Int \cup {NaN}
  /\ UninitIndex \subseteq Nat
  /\ MaxPackets \in Nat

VARIABLES
  inPackets,    \* the window
  packetCount,  \* packets produced so far, the index of the next one
  clients,      \* the sessions that have a Client
  client,       \* its fields, for each session
  serving,      \* the session whose first request is being handled
  playlist,     \* the last playlist each session was sent
  delivered     \* the packets of all segments listed to each session so far

vars == <<inPackets, packetCount, clients, client, serving, playlist, delivered>>

Packet ==
  [index : Nat, isKey : BOOLEAN, duration : Nat, hasData : BOOLEAN]

NewClient(isSlide, target, index) ==
  [outTsSegs            |-> NewBuffer(isSlide, target),
   tsTotalCount         |-> 0,
   currentInPacketIndex |-> index]

NoClient == NewClient(FALSE, 0, 0)

Init ==
  /\ inPackets = <<>>
  /\ packetCount = 0
  /\ clients = {}
  /\ client = [s \in Sessions |-> NoClient]
  /\ serving = None
  /\ playlist = [s \in Sessions |-> None]
  /\ delivered = [s \in Sessions |-> <<>>]
-----------------------------------------------------------------------------
(* The pull thread muxes a frame it has read. *)
CreateTs(kind) ==
  /\ packetCount < MaxPackets
  /\ inPackets' = AppendPacket(inPackets,
                    [index    |-> packetCount,   isKey   |-> kind.isKey,
                     duration |-> kind.duration, hasData |-> kind.hasData])
  /\ packetCount' = packetCount + 1
  /\ UNCHANGED <<clients, client, serving, playlist, delivered>>

(* Mutants: the cursor ends one packet after, or before, the segment. *)
TakeCursorAhead(cl, result) ==
  IF ~result.ok
  THEN cl
  ELSE [outTsSegs            |-> IF HasData(result.packets)
                                 THEN Push(cl.outTsSegs, cl.tsTotalCount,
                                           result.packets)
                                 ELSE cl.outTsSegs,
        tsTotalCount         |-> cl.tsTotalCount + 1,
        currentInPacketIndex |-> result.index + 1]

TakeCursorBehind(cl, result) ==
  IF ~result.ok
  THEN cl
  ELSE [outTsSegs            |-> IF HasData(result.packets)
                                 THEN Push(cl.outTsSegs, cl.tsTotalCount,
                                           result.packets)
                                 ELSE cl.outTsSegs,
        tsTotalCount         |-> cl.tsTotalCount + 1,
        currentInPacketIndex |-> result.index - 1]

(* A Client after a call of GetTsSeg: a segment with data is pushed, and the
   cursor moves whether it had data or not; a failed call changes nothing. *)
Take(cl, result) ==
  IF ~result.ok
  THEN cl
  ELSE IF HasData(result.packets)
       THEN [outTsSegs            |-> Push(cl.outTsSegs, cl.tsTotalCount,
                                           result.packets),
             tsTotalCount         |-> cl.tsTotalCount + 1,
             currentInPacketIndex |-> result.index]
       ELSE [cl EXCEPT !.currentInPacketIndex = result.index]

(* Mutant: the answer is built before the new segment is pushed. *)
RespondThenPush(s, result) ==
  LET refreshed == [client[s] EXCEPT !.outTsSegs = Refresh(@)]
  IN  /\ client' = [client EXCEPT ![s] = Take(refreshed, result)]
      /\ playlist' = [playlist EXCEPT ![s] = M3u8(refreshed.outTsSegs)]
      /\ delivered' = [delivered EXCEPT ![s] =
                         IF result.ok /\ HasData(result.packets)
                         THEN @ \o result.packets ELSE @]

(* The rest of ResponeM3u8 once GetTsSeg has returned: the answer is built
   from the buffer after its refresh. *)
Respond(s, result) ==
  LET taken     == Take(client[s], result)
      refreshed == [taken EXCEPT !.outTsSegs = Refresh(@)]
  IN  /\ client' = [client EXCEPT ![s] = refreshed]
      /\ playlist' = [playlist EXCEPT ![s] = M3u8(refreshed.outTsSegs)]
      /\ delivered' = [delivered EXCEPT ![s] =
                         IF result.ok /\ HasData(result.packets)
                         THEN @ \o result.packets ELSE @]

(* A request of a session that is not known creates its Client.  It then asks
   whether the window is empty, without the lock, and takes the lock only if
   it is not.  A window that is not empty stays so, so nothing is lost by
   asking and taking in one step; packets may arrive before that step. *)
Open(s, isSlide, target, index) ==
  /\ serving = None
  /\ s \notin clients
  /\ clients' = clients \cup {s}
  /\ client' = [client EXCEPT ![s] = NewClient(isSlide, target, index)]
  /\ serving' = s
  /\ UNCHANGED <<inPackets, packetCount, playlist, delivered>>

FirstEmpty(s) ==
  /\ serving = s
  /\ inPackets = <<>>
  /\ Respond(s, NoSegment)
  /\ serving' = None
  /\ UNCHANGED <<inPackets, packetCount, clients>>

FirstSegment(s) ==
  /\ serving = s
  /\ inPackets # <<>>
  /\ Respond(s, GetTsSegFirst(inPackets))
  /\ serving' = None
  /\ UNCHANGED <<inPackets, packetCount, clients>>

(* Every later playlist request of the session. *)
Reload(s) ==
  /\ serving = None
  /\ s \in clients
  /\ Respond(s, GetTsSegFrom(inPackets, client[s].currentInPacketIndex))
  /\ UNCHANGED <<inPackets, packetCount, clients, serving>>

(* The cleaner deletes the session; the same URL may be used again later. *)
Expire(s) ==
  /\ s \in clients
  /\ serving # s
  /\ clients' = clients \ {s}
  /\ client' = [client EXCEPT ![s] = NoClient]
  /\ playlist' = [playlist EXCEPT ![s] = None]
  /\ delivered' = [delivered EXCEPT ![s] = <<>>]
  /\ UNCHANGED <<inPackets, packetCount, serving>>

Pull == \E kind \in PacketKinds : CreateTs(kind)

First(s) == FirstEmpty(s) \/ FirstSegment(s)

Handle(s) ==
  \/ \E isSlide \in UninitSlide, target \in UninitTarget, index \in UninitIndex :
       Open(s, isSlide, target, index)
  \/ First(s)
  \/ Reload(s)

Next ==
  \/ Pull
  \/ \E s \in Sessions : Handle(s)
  \/ \E s \in Sessions : Expire(s)

(* The handler finishes a request it has begun, and every session polls:
   the player's timer is what makes a live stream advance.  Nothing is
   assumed of the camera (it may stop sending) or of the cleaner. *)
Fairness ==
  \A s \in Sessions : WF_vars(First(s)) /\ SF_vars(Reload(s))

Spec == Init /\ [][Next]_vars
FairSpec == Spec /\ Fairness
-----------------------------------------------------------------------------
(* A buffer and a Client have their fields, each of its type.  The type of
   targetDuration, a sum or what was found in memory, is left open. *)
IsBuffer(buf) ==
  /\ buf = [segs           |-> buf.segs,    sequence |-> buf.sequence,
            isSlide        |-> buf.isSlide,
            targetDuration |-> buf.targetDuration]
  /\ buf.segs \in Seq([name : Nat, data : Seq(Packet)])
  /\ buf.sequence \in Nat
  /\ buf.isSlide \in BOOLEAN

IsClient(cl) ==
  /\ cl = [outTsSegs            |-> cl.outTsSegs,
           tsTotalCount         |-> cl.tsTotalCount,
           currentInPacketIndex |-> cl.currentInPacketIndex]
  /\ IsBuffer(cl.outTsSegs)
  /\ cl.tsTotalCount \in Nat
  /\ cl.currentInPacketIndex \in Nat

(* Every variable has its type, and what no session has is empty. *)
TypeOK ==
  /\ inPackets \in Seq(Packet)
  /\ packetCount \in Nat
  /\ clients \subseteq Sessions
  /\ serving \in clients \cup {None}
  /\ DOMAIN client = Sessions
  /\ DOMAIN playlist = Sessions
  /\ delivered \in [Sessions -> Seq(Packet)]
  /\ \A s \in Sessions :
       /\ IsClient(client[s])
       /\ s \notin clients \/ s = serving => playlist[s] = None

(* The window holds the latest packets, in the order they were muxed, with no
   hole: CreateTs appends one and evicts the oldest of a window at its limit. *)
WindowIsLatest ==
  LET n == Len(inPackets)
  IN  /\ n = IF packetCount < InPacketsMaxSize
             THEN packetCount ELSE InPacketsMaxSize
      /\ \A i \in 1..n : inPackets[i].index = packetCount - n + i - 1

(* The names in a session's list are consecutive, end with the last one made,
   and are never more than segCountMax: so no two segments share a name, and
   GetTs cannot answer with another segment's data. *)
SegmentsAreLatest ==
  \A s \in Sessions :
    LET segs == client[s].outTsSegs.segs
        n    == Len(segs)
    IN  /\ n <= SegCountMax
        /\ n <= client[s].tsTotalCount
        /\ \A i \in 1..n : segs[i].name = client[s].tsTotalCount - n + i - 1

(* Whatever a session was last told exists can still be downloaded, and lasts
   as long as its #EXTINF says: a reload that drops a segment (Push) drops it
   from the same answer (GetM3u8). *)
PlaylistServable ==
  \A s \in Sessions : playlist[s] # None =>
    \A i \in 1..Len(playlist[s].entries) :
      LET entry == playlist[s].entries[i]
          data  == GetTs(client[s].outTsSegs, entry.name)
      IN  HasData(data) /\ Duration(data) = entry.duration

(* No listed segment is longer than the #EXT-X-TARGETDURATION of its playlist,
   however the field started, as long as the cast to int can give the one
   printed: it cannot when the field started as no number, or as one larger
   than an int. *)
TargetCovers ==
  \A s \in Sessions : playlist[s] # None /\ playlist[s].target # IntMin =>
    \A i \in 1..Len(playlist[s].entries) :
      playlist[s].entries[i].duration <= playlist[s].target * TicksPerSecond

(* A session receives packets in the order they were muxed, and only the
   packet at the seam of two segments can come twice: GetTsSeg leaves its loop
   before it records the index of the packet that filled the batch. *)
DeliveredInOrder ==
  \A s \in Sessions : \A i, j \in 1..Len(delivered[s]) :
    i < j => \/ delivered[s][i].index < delivered[s][j].index
             \/ j = i + 1 /\ delivered[s][i] = delivered[s][j]

(* A reload never skips a packet that is still in the window: what a session
   has missed between two packets it received was evicted before it asked, or
   had no data. *)
SkipsNothing(s) ==
  LET old == delivered[s]
      new == delivered'[s]
  IN  old # <<>> /\ Len(new) > Len(old) =>
        \A i \in 1..Len(inPackets) :
          LET packet == inPackets[i]
          IN  /\ packet.hasData
              /\ Last(old).index < packet.index
              /\ packet.index < Last(new).index
              => \E j \in Len(old)+1..Len(new) : new[j] = packet

NothingSkipped == [][\A s \in Sessions : SkipsNothing(s)]_vars

(* GetTsSegFirst is the two loops of GetTsSeg(packet), whatever the index of
   the caller's packet held. *)
FirstAgrees ==
  \A unset \in UninitIndex :
    GetTsSegFirst(inPackets) = FirstLoop(inPackets, unset)

(* GetTsSegFrom is the loop of GetTsSeg(packet, from), for every cursor: one
   behind the window, in it, at its end, and one no packet has reached. *)
FromAgrees ==
  \A from \in 0..MaxPackets + 1, unset \in UninitIndex :
    GetTsSegFrom(inPackets, from) = FromLoop(inPackets, from, unset)

(* A segment cut at a cursor starts with the first packet above it that is
   left, and the next cursor is never behind: so a session that reloads
   makes progress, and what it skips is what the window lost. *)
CursorAdvances ==
  \A from \in 0..MaxPackets + 1 :
    LET result == GetTsSegFrom(inPackets, from)
    IN  result.ok =>
          /\ result.index > from
          /\ \A i \in 1..Len(inPackets) :
               inPackets[i].index > from =>
                 result.packets[1].index <= inPackets[i].index

(* A session that keeps polling, with a cursor a successful request has set,
   receives every packet with data that is in the window and is not its newest
   one, unless the window moves past it or the session expires. *)
Received(s, n) == \E i \in 1..Len(delivered[s]) : delivered[s][i].index = n

DeliversOrEvicts ==
  \A s \in Sessions : \A n \in 1..MaxPackets-1 :
    (/\ s \in clients
     /\ delivered[s] # <<>>
     /\ Last(delivered[s]).index < n
     /\ \E i \in 1..Len(inPackets)-1 :
          inPackets[i].index = n /\ inPackets[i].hasData)
    ~> \/ Received(s, n)
       \/ s \notin clients
       \/ \A i \in 1..Len(inPackets) : inPackets[i].index # n
-----------------------------------------------------------------------------
(* What comments of the code say, and the code does not do. *)

(* Client.h:51 calls currentInPacketIndex the current packet index, and
   GetTsSeg's own trace (Camera.h:338) calls the value it is set to the index
   the segment goes to: so the next segment begins after the last packet of
   this one, and no packet is sent twice to a session. *)
NoDuplicates ==
  \A s \in Sessions : \A i, j \in 1..Len(delivered[s]) :
    delivered[s][i].index = delivered[s][j].index => i = j

(* TSSegment.h:21-23: the media sequence tells the player that the list
   changed, and isSlide says whether it slid: a list that has never lost a
   segment is still at media sequence 0. *)
SequenceCountsSlides ==
  \A s \in Sessions : playlist[s] # None =>
    LET cl == client[s]
    IN  cl.tsTotalCount = Len(cl.outTsSegs.segs) => playlist[s].sequence = 0

(* README.md:2: once a stream is added, pressing play is enough to play it;
   Client.h:51 calls currentInPacketIndex the current packet index.  So a
   session whose cursor is the index of no packet, beyond all that were muxed,
   is served too, when the stream has gone on as long as the model lets it and
   the window again has a key frame that others have followed. *)
Playable ==
  \E i \in 1..Len(inPackets)-2 :
    /\ inPackets[i].isKey
    /\ \A j \in i..Len(inPackets) : inPackets[j].hasData

PollerIsServed ==
  \A s \in Sessions :
    (/\ s \in clients
     /\ serving # s
     /\ client[s].currentInPacketIndex > packetCount
     /\ packetCount = MaxPackets
     /\ Playable)
    ~> (s \notin clients \/ delivered[s] # <<>>)
=============================================================================
