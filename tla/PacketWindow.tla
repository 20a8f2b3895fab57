---------------------------- MODULE PacketWindow ----------------------------
(***************************************************************************)
(* The in-memory window of muxed packets a Camera keeps (Camera.h,         *)
(* inPackets): what CreateTs does to it, and the two ways a Client cuts a  *)
(* segment out of it.  Every operator is the body of one critical section  *)
(* of inPacketsLocker, so each is applied in a single step.                *)
(*                                                                         *)
(* A packet is a record [index, isKey, duration, hasData].  Its bytes are  *)
(* not modelled: the bytes of a segment are the bytes of the packets it    *)
(* was cut from, in that order, so a segment carries those packets.        *)
(* hasData is FALSE for a packet whose muxing produced no byte at all.     *)
(***************************************************************************)
EXTENDS Integers, Sequences, SequencesExt

CONSTANTS
  InPacketsMaxSize,  \* inPacketsMaxSize, 100 in the code
  BatchLimit         \* the 30 of "count++ > 30" in GetTsSeg(packet, from)

ASSUME PacketWindowAssumption ==
  /\ InPacketsMaxSize \in Nat \ {0}
  /\ BatchLimit \in Nat

(* The bytes of a run of packets are not empty (data.size() > 0). *)
HasData(packets) == \E i \in 1..Len(packets) : packets[i].hasData

(* The durations of a run of packets, summed up one by one. *)
Duration(packets) ==
  LET sum[i \in 0..Len(packets)] ==
        IF i = 0 THEN 0 ELSE sum[i - 1] + packets[i].duration
  IN  sum[Len(packets)]

(* Mutant: the test of the size is made with >=. *)
AppendPacketEarlyErase(window, packet) ==
  LET grown == Append(window, packet)
  IN  IF Len(grown) >= InPacketsMaxSize THEN Tail(grown) ELSE grown

(* push_back, then erase the oldest packet when the window is over-full. *)
AppendPacket(window, packet) ==
  LET grown == Append(window, packet)
  IN  IF Len(grown) > InPacketsMaxSize THEN Tail(grown) ELSE grown

(* What a GetTsSeg call returns: its result and the packet it filled.  The
   caller reads index and packets only when ok is TRUE. *)
Segment(packets, index) == [ok |-> TRUE, index |-> index, packets |-> packets]
NoSegment == [ok |-> FALSE, index |-> 0, packets |-> <<>>]

(* Mutant: from the oldest key packet. *)
GetTsSegOldest(window) ==
  LET keys == {i \in 1..Len(window) : window[i].isKey}
  IN  IF keys = {}
      THEN NoSegment
      ELSE Segment(SubSeq(window, Min(keys), Len(window)),
                   window[Len(window)].index)

(* GetTsSeg(packet): from the newest key packet to the end of the window. *)
GetTsSegFirst(window) ==
  LET keys == {i \in 1..Len(window) : window[i].isKey}
  IN  IF keys = {}
      THEN NoSegment
      ELSE Segment(SubSeq(window, Max(keys), Len(window)),
                   window[Len(window)].index)

(* What the loop of GetTsSeg(packet, from) takes when the first packet above
   from is at start.  It leaves as soon as it has taken BatchLimit + 2 packets,
   before it records the index of the last one it took. *)
Batch(window, start) ==
  LET full == start + BatchLimit + 1
  IN  IF full <= Len(window)
      THEN Segment(SubSeq(window, start, full), window[full - 1].index)
      ELSE Segment(SubSeq(window, start, Len(window)),
                   window[Len(window)].index)

(* Mutants: >= from instead of > from; count < 3 instead of count < 2; only
   the newest packets of a long batch are taken. *)
GetTsSegFromInclusive(window, from) ==
  LET newer == {i \in 1..Len(window) : window[i].index >= from}
  IN  IF Len(window) <= 1 \/ newer = {} \/ Min(newer) = Len(window)
      THEN NoSegment ELSE Batch(window, Min(newer))

GetTsSegFromThree(window, from) ==
  LET newer == {i \in 1..Len(window) : window[i].index > from}
  IN  IF Len(window) <= 1 \/ newer = {} \/ Min(newer) + 1 >= Len(window)
      THEN NoSegment ELSE Batch(window, Min(newer))

GetTsSegFromNewest(window, from) ==
  LET newer  == {i \in 1..Len(window) : window[i].index > from}
      newest == Len(window) - BatchLimit - 1
  IN  IF Len(window) <= 1 \/ newer = {} \/ Min(newer) = Len(window)
      THEN NoSegment
      ELSE Batch(window, IF newest > Min(newer) THEN newest ELSE Min(newer))

(* GetTsSeg(packet, from): the packets with an index above from, which are
   the end of the window since its indices increase; at least two of them
   (the code tests count < 2). *)
GetTsSegFrom(window, from) ==
  LET newer == {i \in 1..Len(window) : window[i].index > from}
  IN  IF Len(window) <= 1 \/ newer = {} \/ Min(newer) = Len(window)
      THEN NoSegment ELSE Batch(window, Min(newer))
=============================================================================
