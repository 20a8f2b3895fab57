------------------------------ MODULE TSSegment ------------------------------
(***************************************************************************)
(* TsSegBuffer (TSSegment.h): the sliding list of segments one session     *)
(* serves.  A buffer is a record [segs, sequence, isSlide,                 *)
(* targetDuration].  pushCount is left out: GetM3u8 only uses it to choose *)
(* between two identical branches.                                         *)
(*                                                                         *)
(* The constructor of Client does not initialize isSlide and               *)
(* targetDuration: NewBuffer takes the values found in the memory.         *)
(* Durations are integers, in ticks of 1/TicksPerSecond of a second.       *)
(***************************************************************************)
EXTENDS PacketWindow

CONSTANTS
  SegCountMax,      \* segCountMax, 10 in the code (ClientManage::AddClient)
  TicksPerSecond,
  IntMax,           \* the greatest int, 2147483647 in the code
  NaN               \* a float that is no number

ASSUME TSSegmentAssumption ==
  /\ SegCountMax \in Nat \ {0}
  /\ TicksPerSecond \in Nat \ {0}
  /\ IntMax \in Nat
  /\ NaN \notin Int

NewBuffer(isSlide, targetDuration) ==
  [segs |-> <<>>, sequence |-> 0,
   isSlide |-> isSlide, targetDuration |-> targetDuration]

(* targetDuration < duration, which is false when targetDuration is NaN. *)
Exceeds(duration, target) == target # NaN /\ target < duration

(* Mutant: the list is full when it is larger than segCountMax. *)
PushLateSlide(buf, name, packets) ==
  LET full == Len(buf.segs) > SegCountMax
      kept == IF full THEN Tail(buf.segs) ELSE buf.segs
      d    == Duration(packets)
  IN  [segs           |-> Append(kept, [name |-> name, data |-> packets]),
       sequence       |-> buf.sequence,
       isSlide        |-> buf.isSlide \/ full,
       targetDuration |-> IF Exceeds(d, buf.targetDuration)
                          THEN d ELSE buf.targetDuration]

(* Push: drop the oldest segment of a full list and remember the slide, add
   the new one, and keep the greatest duration. *)
Push(buf, name, packets) ==
  LET full == Len(buf.segs) >= SegCountMax
      kept == IF full THEN Tail(buf.segs) ELSE buf.segs
      d    == Duration(packets)
  IN  [segs           |-> Append(kept, [name |-> name, data |-> packets]),
       sequence       |-> buf.sequence,
       isSlide        |-> buf.isSlide \/ full,
       targetDuration |-> IF Exceeds(d, buf.targetDuration)
                          THEN d ELSE buf.targetDuration]

(* Mutant: isSlide is not reset. *)
RefreshKeepsSlide(buf) ==
  [segs           |-> buf.segs,
   sequence       |-> IF buf.isSlide THEN buf.sequence + 1 ELSE buf.sequence,
   isSlide        |-> buf.isSlide,
   targetDuration |-> buf.targetDuration]

(* The state change of GetM3u8: a slide since the last call moves the media
   sequence by one, however often the list slid. *)
Refresh(buf) ==
  [segs           |-> buf.segs,
   sequence       |-> IF buf.isSlide THEN buf.sequence + 1 ELSE buf.sequence,
   isSlide        |-> FALSE,
   targetDuration |-> buf.targetDuration]

(* What a cast to int gives for a value that does not fit (cvttss2si). *)
IntMin == -IntMax - 1

(* Mutant: (int)targetDuration. *)
TargetSecondsTruncated(target) ==
  IF target = NaN \/ target \div TicksPerSecond \notin IntMin..IntMax
  THEN IntMin
  ELSE target \div TicksPerSecond

(* (int)(targetDuration + 1): the cast drops the fraction. *)
TargetSeconds(target) ==
  LET plusOne == target + TicksPerSecond
      seconds == IF plusOne >= 0
                 THEN plusOne \div TicksPerSecond
                 ELSE -((-plusOne) \div TicksPerSecond)
  IN  IF target = NaN \/ seconds \notin IntMin..IntMax THEN IntMin ELSE seconds

(* What GetM3u8 prints: the two header values and one entry per segment. *)
M3u8(buf) ==
  [sequence |-> buf.sequence,
   target   |-> TargetSeconds(buf.targetDuration),
   entries  |-> [i \in 1..Len(buf.segs) |->
                   [name     |-> buf.segs[i].name,
                    duration |-> Duration(buf.segs[i].data)]]]

(* GetTs: the data of the segment of that name, nothing when there is none. *)
GetTs(buf, name) ==
  LET named == {i \in 1..Len(buf.segs) : buf.segs[i].name = name}
  IN  IF named = {} THEN <<>> ELSE buf.segs[Min(named)].data
=============================================================================
