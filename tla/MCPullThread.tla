---------------------------- MODULE MCPullThread ----------------------------
(***************************************************************************)
(* A small instance of PullThread.  The frames: a key frame that fills the *)
(* buffer of the muxer more than once, a frame of which the filter makes   *)
(* two packets, and one it drops.                                          *)
(***************************************************************************)
EXTENDS PullThread

MCFrames ==
  {[isKey |-> TRUE,  yields |-> <<[duration |-> 1, bytes |-> 5]>>],
   [isKey |-> FALSE, yields |-> <<[duration |-> 1, bytes |-> 1],
                                  [duration |-> 2, bytes |-> 2]>>],
   [isKey |-> FALSE, yields |-> <<>>]}
=============================================================================
