---------------------------- MODULE LivePlaylist ----------------------------
(***************************************************************************)
(* What the sessions of a live stream are promised, whatever the camera    *)
(* and the buffers behind them do: the view of a session is the range of   *)
(* segments its last playlist lists, first..next-1, and the media sequence *)
(* number in its header.                                                   *)
(*                                                                         *)
(* Segments are numbered in the order they were made.  A playlist is only  *)
(* ever extended by the next segment and shortened by its oldest one, and  *)
(* never grows over SegCountMax; the media sequence moves in step with the *)
(* oldest segment, which is how a player that reloads knows the segments   *)
(* it has seen.  (The sequence may start at 1 instead of 0: the promise is *)
(* about its changes.)                                                     *)
(***************************************************************************)
EXTENDS Integers

CONSTANTS Sessions, SegCountMax, Closed

VARIABLE view

Init == view = [s \in Sessions |-> Closed]

(* The first playlist of a session lists one segment, or none. *)
Open(s) ==
  /\ view[s] = Closed
  /\ \E next, sequence \in {0, 1} :
       view' = [view EXCEPT ![s] =
                  [first |-> 0, next |-> next, sequence |-> sequence]]

(* A new segment, which pushes the oldest one out of a full list. *)
Extend(s) ==
  /\ view[s] # Closed
  /\ LET slide == IF view[s].next - view[s].first >= SegCountMax THEN 1 ELSE 0
     IN  view' = [view EXCEPT ![s] =
                    [first    |-> view[s].first + slide,
                     next     |-> view[s].next + 1,
                     sequence |-> view[s].sequence + slide]]

Close(s) ==
  /\ view[s] # Closed
  /\ view' = [view EXCEPT ![s] = Closed]

Next == \E s \in Sessions : Open(s) \/ Extend(s) \/ Close(s)

Spec == Init /\ [][Next]_view
=============================================================================
