---------------------------- MODULE MCHlsStream ----------------------------
(***************************************************************************)
(* Small instances of HlsStream.  The packets a camera sends: key frames   *)
(* and other frames, and frames that were muxed to nothing (the TS muxer   *)
(* drops them).  Durations are in half seconds.                            *)
(***************************************************************************)
EXTENDS HlsStreamRefinement

MCKinds ==
  {[isKey |-> TRUE,  duration |-> 3, hasData |-> TRUE],
   [isKey |-> FALSE, duration |-> 1, hasData |-> TRUE],
   [isKey |-> FALSE, duration |-> 1, hasData |-> FALSE]}

MCPlainKinds ==
  {[isKey |-> TRUE,  duration |-> 3, hasData |-> TRUE],
   [isKey |-> FALSE, duration |-> 1, hasData |-> TRUE]}

MCTwoKinds ==
  {[isKey |-> TRUE,  duration |-> 1, hasData |-> TRUE],
   [isKey |-> FALSE, duration |-> 1, hasData |-> FALSE]}

MCOneKind == {[isKey |-> TRUE,  duration |-> 1, hasData |-> TRUE]}

(* Memory as a debug build fills it: a hugely negative float, and an index no
   packet will reach; and as a fresh page is: zeroes; and what else a float can
   be: small, negative, larger than an int (the instances have IntMax = 15
   seconds), and a NaN. *)
MCNegative == -5
MCHuge == 100
MCTargets == {0, 20, MCNegative, MCHuge, -MCHuge, NaN}
MCZeroTarget == {0}
MCIndices == {0, 1000}
=============================================================================
