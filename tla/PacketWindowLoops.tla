-------------------------- MODULE PacketWindowLoops --------------------------
(***************************************************************************)
(* The loops of Camera::GetTsSeg as they are written, one iteration at a   *)
(* time: what the operators of PacketWindow must compute.  A loop is a     *)
(* function from the positions it has been through to the state it has     *)
(* then.                                                                   *)
(*                                                                         *)
(* The caller passes a packet whose index is not initialized: unset is     *)
(* what it happens to hold.                                                *)
(***************************************************************************)
EXTENDS PacketWindow

(* GetTsSeg(packet): walk back to a key packet, then forward to the end. *)
BackToKey(window) ==
  LET back[it \in 0..Len(window)] ==
        IF it = 0 THEN 0
        ELSE IF window[it].isKey THEN it ELSE back[it - 1]
  IN  back[Len(window)]

TakeToEnd(window, key, unset) ==
  LET packet[it \in 0..Len(window)] ==
        IF it < key
        THEN [index |-> unset, packets |-> <<>>]
        ELSE [index   |-> window[it].index,
              packets |-> Append(packet[it - 1].packets, window[it])]
  IN  packet[Len(window)]

FirstLoop(window, unset) ==
  LET key == BackToKey(window)
  IN  IF key = 0 THEN NoSegment
      ELSE LET packet == TakeToEnd(window, key, unset)
           IN  Segment(packet.packets, packet.index)

(* GetTsSeg(packet, from): one pass over the window.  count is only increased
   by a packet that is taken, and the index of the packet at which the loop
   breaks is not recorded. *)
TakeNewer(window, from, unset) ==
  LET loop[it \in 0..Len(window)] ==
        IF it = 0
        THEN [count |-> 0, broken |-> FALSE, index |-> unset, packets |-> <<>>]
        ELSE LET before == loop[it - 1]
                 newer  == window[it].index > from
                 full   == before.count > BatchLimit
             IN  IF before.broken THEN before
                 ELSE [count   |-> IF newer THEN before.count + 1
                                   ELSE before.count,
                       broken  |-> newer /\ full,
                       index   |-> IF newer /\ full THEN before.index
                                   ELSE window[it].index,
                       packets |-> IF newer
                                   THEN Append(before.packets, window[it])
                                   ELSE before.packets]
  IN  loop[Len(window)]

FromLoop(window, from, unset) ==
  LET packet == TakeNewer(window, from, unset)
  IN  IF Len(window) <= 1 \/ packet.count < 2
      THEN NoSegment
      ELSE Segment(packet.packets, packet.index)
=============================================================================
