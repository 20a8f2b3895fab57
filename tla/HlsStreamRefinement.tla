------------------------ MODULE HlsStreamRefinement ------------------------
(***************************************************************************)
(* HlsStream implements LivePlaylist.  A session is open for a player once *)
(* its first request was answered, and from then on its view is the names  *)
(* its buffer holds and the sequence GetM3u8 printed.                      *)
(***************************************************************************)
EXTENDS HlsStream

Answered(s) == s \in clients /\ serving # s

View(s) ==
  LET cl == client[s]
  IN  IF Answered(s)
      THEN [first    |-> cl.tsTotalCount - Len(cl.outTsSegs.segs),
            next     |-> cl.tsTotalCount,
            sequence |-> playlist[s].sequence]
      ELSE None

Views == [s \in Sessions |-> View(s)]

ASSUME ViewAssumption == None \notin [first : Int, next : Int, sequence : Int]

Abstract == INSTANCE LivePlaylist WITH Closed <- None, view <- Views

(* Every behaviour of the two threads and the cleaner is, for the players, a
   behaviour of LivePlaylist: the uninitialized isSlide can spoil the first
   sequence number only, and a slide is announced by exactly one step of the
   sequence (Push sets isSlide at most once between two calls of GetM3u8). *)
ImplementsLivePlaylist == Abstract!Spec
=============================================================================
