---------------------- MODULE HlsStreamDeliveryProofs ----------------------
(***************************************************************************)
(* Proofs about what a session of HlsStream receives, for every window     *)
(* size, batch limit, number of sessions and length of the stream: packets *)
(* come in order, only the packet at a seam comes twice, and a reload      *)
(* skips nothing that is still in the window.                              *)
(***************************************************************************)
EXTENDS HlsStreamProofs
-----------------------------------------------------------------------------
(* The window's packets have consecutive indices, all below packetCount. *)
LEMMA WindowIndices ==
  ASSUME TypeOK, WindowIsLatest
  PROVE  /\ Len(inPackets) \in Nat
         /\ \A i \in 1..Len(inPackets) :
              /\ inPackets[i] \in Packet
              /\ inPackets[i].index \in Nat
              /\ inPackets[i].index = packetCount - Len(inPackets) + i - 1
              /\ inPackets[i].index < packetCount
<1> DEFINE n == Len(inPackets)
<1>1. n \in Nat /\ packetCount \in Nat
  BY DEF TypeOK
<1>2. \A i \in 1..n : inPackets[i] \in Packet
  BY DEF TypeOK
<1>3. \A i \in 1..n : inPackets[i].index = packetCount - n + i - 1
  BY DEF WindowIsLatest
<1>4. \A i \in 1..n : inPackets[i].index \in Nat
  BY <1>2 DEF Packet
<1> HIDE DEF n
<1>5. \A i \in 1..n : packetCount - n + i - 1 < packetCount
  BY <1>1
<1>6. \A i \in 1..n : inPackets[i].index < packetCount
  BY <1>3, <1>5
<1>7. QED BY <1>1, <1>2, <1>3, <1>4, <1>6 DEF n

(* A result that is a run of the window, from position i to position j: the
   cursor it sets is the index of its last packet, or of the one before. *)
IsCut(result, i, j) ==
  /\ i \in 1..Len(inPackets)
  /\ j \in i..Len(inPackets)
  /\ result.packets = SubSeq(inPackets, i, j)
  /\ result.index \in {inPackets[j].index - 1, inPackets[j].index}

(* A run cut at a cursor: it has at least two packets, all above the cursor,
   and every packet before it is not. *)
IsCutAbove(result, i, j, at) ==
  /\ IsCut(result, i, j)
  /\ i < j
  /\ inPackets[i].index > at
  /\ \A k \in 1..i-1 : inPackets[k].index <= at

(* GetTsSeg(packet) cuts a run of the window. *)
LEMMA FirstIsCut ==
  ASSUME TypeOK, WindowIsLatest, GetTsSegFirst(inPackets).ok
  PROVE  \E i, j \in 1..Len(inPackets) : IsCut(GetTsSegFirst(inPackets), i, j)
<1> DEFINE keys   == {i \in 1..Len(inPackets) : inPackets[i].isKey}
           result == GetTsSegFirst(inPackets)
           n      == Len(inPackets)
<1>1. keys # {}
  BY DEF GetTsSegFirst, NoSegment
<1>2. Max(keys) \in 1..n
  BY <1>1, MaxIsGreatest, WindowIndices, keys \in SUBSET (1..Len(inPackets))
<1>3. result = Segment(SubSeq(inPackets, Max(keys), n), inPackets[n].index)
  BY <1>1 DEF GetTsSegFirst
<1>4. /\ result.packets = SubSeq(inPackets, Max(keys), n)
      /\ result.index = inPackets[n].index
  <2> HIDE DEF keys, result, n
  <2>1. QED BY <1>3 DEF Segment
<1>5. n \in 1..n /\ n \in Max(keys)..n
  <2> HIDE DEF keys
  <2>1. QED BY <1>2, WindowIndices
<1>6. IsCut(result, Max(keys), n)
  <2> HIDE DEF keys, result
  <2>1. QED BY <1>2, <1>4, <1>5 DEF IsCut
<1>7. QED BY <1>2, <1>5, <1>6

(* GetTsSeg(packet, from) cuts a run that begins with the first packet above
   its cursor. *)
LEMMA FromIsCut ==
  ASSUME TypeOK, WindowIsLatest, NEW at \in Nat,
         GetTsSegFrom(inPackets, at).ok
  PROVE  \E i, j \in 1..Len(inPackets) :
           IsCutAbove(GetTsSegFrom(inPackets, at), i, j, at)
<1> USE PacketWindowAssumption
<1> DEFINE n      == Len(inPackets)
           newer  == {i \in 1..Len(inPackets) : inPackets[i].index > at}
           result == GetTsSegFrom(inPackets, at)
           i      == Min(newer)
           full   == i + BatchLimit + 1
<1>1. newer # {} /\ i # n
  BY DEF GetTsSegFrom, NoSegment
<1>2. result = Batch(inPackets, i)
  BY DEF GetTsSegFrom, NoSegment
<1>3. i \in newer /\ \A y \in newer : i <= y
  <2>1. newer \in SUBSET Nat
    OBVIOUS
  <2> HIDE DEF newer
  <2>2. QED BY <1>1, <2>1, MinIsLeast
<1>4. i \in 1..n /\ inPackets[i].index > at
  BY <1>3
<1>5. n \in Nat /\ i < n
  <2>1. n \in Nat
    BY WindowIndices
  <2> HIDE DEF i, n
  <2>2. QED BY <1>1, <1>4, <2>1
<1>6. \A k \in 1..i-1 : inPackets[k].index <= at
  <2>1. SUFFICES ASSUME NEW k \in 1..i-1 PROVE inPackets[k].index <= at
    OBVIOUS
  <2>2. k \in 1..n /\ ~(i <= k)
    <3> HIDE DEF i, n
    <3>1. QED BY <1>4, <1>5
  <2>3. k \notin newer
    <3> HIDE DEF newer, i
    <3>1. QED BY <1>3, <2>2
  <2>4. ~(inPackets[k].index > at)
    BY <2>2, <2>3
  <2>5. inPackets[k].index \in Nat
    BY <2>2, WindowIndices
  <2>6. QED BY <2>4, <2>5
<1> HIDE DEF newer, i
<1>7. PICK j \in i..n : IsCut(result, i, j) /\ i < j
  <2>1. CASE full <= n
    <3>1. full \in i..n /\ i < full /\ full - 1 \in 1..n /\ full \in 1..n
      BY <1>4, <1>5, <2>1
    <3>2. /\ result.packets = SubSeq(inPackets, i, full)
          /\ result.index = inPackets[full - 1].index
      <4>1. result = Segment(SubSeq(inPackets, i, full),
                             inPackets[full - 1].index)
        BY <1>2, <2>1 DEF Batch
      <4> HIDE DEF full, result
      <4>2. QED BY <4>1 DEF Segment
    <3>3. inPackets[full - 1].index = inPackets[full].index - 1
      <4>1. /\ inPackets[full - 1].index = packetCount - n + (full - 1) - 1
            /\ inPackets[full].index = packetCount - n + full - 1
        <5> HIDE DEF full
        <5>1. QED BY <3>1, WindowIndices
      <4>2. packetCount \in Nat /\ full \in Nat
        BY <1>4 DEF TypeOK
      <4> HIDE DEF full, n
      <4>3. QED BY <1>5, <4>1, <4>2
    <3>4. IsCut(result, i, full)
      <4> HIDE DEF full, result
      <4>1. QED BY <1>4, <3>1, <3>2, <3>3 DEF IsCut
    <3>5. QED BY <3>1, <3>4
  <2>2. CASE ~(full <= n)
    <3>1. n \in i..n /\ i < n
      BY <1>4, <1>5
    <3>2. /\ result.packets = SubSeq(inPackets, i, n)
          /\ result.index = inPackets[n].index
      <4>1. result = Segment(SubSeq(inPackets, i, n), inPackets[n].index)
        BY <1>2, <2>2 DEF Batch
      <4> HIDE DEF n, result
      <4>2. QED BY <4>1 DEF Segment
    <3>3. IsCut(result, i, n)
      <4> HIDE DEF result
      <4>1. QED BY <1>4, <3>1, <3>2 DEF IsCut
    <3>4. QED BY <3>1, <3>3
  <2>3. QED BY <2>1, <2>2
<1>8. j \in 1..n
  BY <1>4, <1>5
<1>9. IsCutAbove(result, i, j, at)
  <2> HIDE DEF result
  <2>1. QED BY <1>4, <1>6, <1>7 DEF IsCutAbove
<1>10. QED BY <1>4, <1>8, <1>9

(* The packets of a cut, one by one: their indices are consecutive. *)
LEMMA CutPackets ==
  ASSUME TypeOK, WindowIsLatest, NEW result, NEW i, NEW j, IsCut(result, i, j)
  PROVE  /\ i \in Nat /\ j \in Nat /\ 1 <= i /\ i <= j /\ j <= Len(inPackets)
         /\ result.packets \in Seq(Packet)
         /\ Len(result.packets) = j - i + 1
         /\ \A k \in 1..Len(result.packets) :
              /\ i + k - 1 \in 1..Len(inPackets)
              /\ result.packets[k] = inPackets[i + k - 1]
<1> DEFINE n == Len(inPackets)
<1>1. inPackets \in Seq(Packet) /\ n \in Nat
  BY DEF TypeOK
<1>2. i \in 1..n /\ j \in i..n
  BY DEF IsCut
<1>3. i \in Nat /\ j \in Nat /\ 1 <= i /\ i <= j /\ j <= n
  <2> HIDE DEF n
  <2>1. QED BY <1>1, <1>2
<1>4. result.packets = SubSeq(inPackets, i, j)
  BY DEF IsCut
<1>5. /\ SubSeq(inPackets, i, j) \in Seq(Packet)
      /\ Len(SubSeq(inPackets, i, j)) = j - i + 1
      /\ \A k \in 1..j-i+1 : SubSeq(inPackets, i, j)[k] = inPackets[i + k - 1]
  <2>1. i \in 1..Len(inPackets)+1 /\ j \in i-1..Len(inPackets)
    <3> HIDE DEF n
    <3>1. QED BY <1>1, <1>3 DEF n
  <2>2. QED BY <1>1, <1>3, <2>1, SubSeqProperties
<1>6. \A k \in 1..j-i+1 : i + k - 1 \in 1..n
  <2> HIDE DEF n
  <2>1. QED BY <1>1, <1>3
<1>7. QED BY <1>3, <1>4, <1>5, <1>6
-----------------------------------------------------------------------------
(* The order of what a session was delivered, and the stronger fact about its
   last packet that survives another delivery. *)
Ordered(got) ==
  \A i, j \in 1..Len(got) :
    i < j => \/ got[i].index < got[j].index
             \/ j = i + 1 /\ got[i] = got[j]

EndsAhead(got) ==
  \A i \in 1..Len(got)-1 : got[i].index < got[Len(got)].index

Increasing(got) ==
  \A i, j \in 1..Len(got) : i < j => got[i].index < got[j].index

(* A run of increasing packets delivered after others keeps the order when it
   starts with a newer packet, or with the last one again. *)
LEMMA OrderKept ==
  ASSUME NEW old \in Seq(Packet), NEW seg \in Seq(Packet),
         Ordered(old), EndsAhead(old), Increasing(seg), Len(seg) >= 1,
         old # <<>> =>
           /\ Len(seg) >= 2
           /\ \/ old[Len(old)].index < seg[1].index
              \/ old[Len(old)] = seg[1]
  PROVE  /\ Ordered(old \o seg)
         /\ EndsAhead(old \o seg)
         /\ old \o seg \in Seq(Packet)
         /\ old \o seg # <<>>
         /\ Len(old \o seg) = Len(old) + Len(seg)
         /\ (old \o seg)[Len(old) + Len(seg)] = seg[Len(seg)]
<1> DEFINE n   == Len(old)
           m   == Len(seg)
           new == old \o seg
<1>1. /\ n \in Nat /\ m \in Nat /\ m >= 1
      /\ n > 0 => old # <<>>
  BY EmptySeq
<1>2. /\ new \in Seq(Packet) /\ Len(new) = n + m
      /\ \A i \in 1..n : new[i] = old[i]
      /\ \A i \in n+1..n+m : new[i] = seg[i - n]
  BY ConcatProperties
<1>3. /\ \A i \in 1..n : old[i] \in Packet /\ old[i].index \in Nat
      /\ \A i \in 1..m : seg[i] \in Packet /\ seg[i].index \in Nat
  <2>1. \A packet \in Packet : packet.index \in Nat
    BY DEF Packet
  <2>2. /\ \A i \in 1..n : old[i] \in Packet
        /\ \A i \in 1..m : seg[i] \in Packet
    OBVIOUS
  <2> HIDE DEF n, m
  <2>3. QED BY <2>1, <2>2
<1>4. /\ \A i, j \in 1..n : i < j => \/ old[i].index < old[j].index
                                     \/ j = i + 1 /\ old[i] = old[j]
      /\ \A i \in 1..n-1 : old[i].index < old[n].index
      /\ \A i, j \in 1..m : i < j => seg[i].index < seg[j].index
  BY DEF Ordered, EndsAhead, Increasing
<1>5. n > 0 => /\ m >= 2
               /\ \/ old[n].index < seg[1].index
                  \/ old[n] = seg[1]
  BY <1>1
<1>6. new # <<>> /\ new[n + m] = seg[m]
  <2> HIDE DEF n, m, new
  <2>1. n + m \in n+1..n+m /\ n + m - n = m /\ n + m > 0
    BY <1>1
  <2>2. new # <<>>
    <3>1. SUFFICES ASSUME new = <<>> PROVE FALSE
      OBVIOUS
    <3>2. Len(new) = 0
      BY <3>1, EmptySeq
    <3>3. Len(new) = n + m
      BY <1>2
    <3>4. QED BY <2>1, <3>2, <3>3
  <2>3. new[n + m] = seg[n + m - n]
    BY <1>1, <1>2, <2>1
  <2>4. QED BY <1>1, <2>1, <2>2, <2>3
<1> HIDE DEF n, m, new
(* An old packet and one of the run. *)
<1>7. ASSUME NEW i \in 1..n, NEW k \in 1..m
      PROVE  \/ old[i].index < seg[k].index
             \/ i = n /\ k = 1 /\ old[i] = seg[k]
  <2>1. n > 0 /\ n \in 1..n /\ 1 \in 1..m
    BY <1>1
  <2>2. old[i].index \in Nat /\ old[n].index \in Nat
        /\ seg[k].index \in Nat /\ seg[1].index \in Nat
    BY <1>3, <2>1
  <2>3. i = n \/ old[i].index < old[n].index
    <3>1. i = n \/ i \in 1..n-1
      BY <1>1
    <3>2. QED BY <1>4, <3>1
  <2>4. k = 1 \/ seg[1].index < seg[k].index
    <3>1. k = 1 \/ 1 < k
      OBVIOUS
    <3>2. QED BY <1>4, <2>1, <3>1
  <2>5. old[n].index < seg[1].index \/ old[n] = seg[1]
    BY <1>5, <2>1
  <2>6. QED BY <2>2, <2>3, <2>4, <2>5
<1>8. Ordered(new)
  <2>1. SUFFICES ASSUME NEW i \in 1..n+m, NEW j \in 1..n+m, i < j
                 PROVE  \/ new[i].index < new[j].index
                        \/ j = i + 1 /\ new[i] = new[j]
    BY <1>2 DEF Ordered
  <2>2. CASE j \in 1..n
    <3>1. i \in 1..n
      BY <1>1, <2>1, <2>2
    <3>2. QED BY <1>2, <1>4, <2>1, <2>2, <3>1
  <2>3. CASE i \in 1..n /\ j \in n+1..n+m
    <3>1. j - n \in 1..m /\ (j - n = 1 /\ i = n => j = i + 1)
      BY <1>1, <2>3
    <3>2. new[i] = old[i] /\ new[j] = seg[j - n]
      BY <1>2, <2>3
    <3>3. \/ old[i].index < seg[j - n].index
          \/ i = n /\ j - n = 1 /\ old[i] = seg[j - n]
      BY <1>7, <2>3, <3>1
    <3>4. QED BY <3>1, <3>2, <3>3
  <2>4. CASE i \in n+1..n+m
    <3>1. j \in n+1..n+m /\ i - n \in 1..m /\ j - n \in 1..m /\ i - n < j - n
      BY <1>1, <2>1, <2>4
    <3>2. new[i] = seg[i - n] /\ new[j] = seg[j - n]
      BY <1>2, <2>4, <3>1
    <3>3. QED BY <1>4, <3>1, <3>2
  <2>5. \/ j \in 1..n
        \/ i \in 1..n /\ j \in n+1..n+m
        \/ i \in n+1..n+m
    BY <1>1, <2>1
  <2>6. QED BY <2>2, <2>3, <2>4, <2>5
<1>9. EndsAhead(new)
  <2>0. Len(new) = n + m /\ new[n + m] = seg[m]
    BY <1>2, <1>6
  <2>1. SUFFICES ASSUME NEW i \in 1..n+m-1
                 PROVE  new[i].index < seg[m].index
    BY <1>1, <2>0 DEF EndsAhead
  <2>2. CASE i \in 1..n
    <3>1. n > 0 /\ m >= 2 /\ m \in 1..m
      BY <1>1, <1>5, <2>2
    <3>2. old[i].index < seg[m].index
      BY <1>7, <2>2, <3>1
    <3>3. QED BY <1>2, <2>2, <3>2
  <2>3. CASE i \in n+1..n+m-1
    <3>1. i \in n+1..n+m /\ i - n \in 1..m /\ m \in 1..m /\ i - n < m
      BY <1>1, <2>3
    <3>2. QED BY <1>2, <1>4, <3>1
  <2>4. i \in 1..n \/ i \in n+1..n+m-1
    BY <1>1, <2>1
  <2>5. QED BY <2>2, <2>3, <2>4
<1>10. QED BY <1>2, <1>6, <1>8, <1>9 DEF n, m, new

(* A cut is a run of increasing packets, up to the packet its last position
   holds. *)
LEMMA CutIncreasing ==
  ASSUME TypeOK, WindowIsLatest, NEW result, NEW i, NEW j, IsCut(result, i, j)
  PROVE  /\ Increasing(result.packets)
         /\ Len(result.packets) >= 1
         /\ result.packets[1] = inPackets[i]
         /\ result.packets[Len(result.packets)] = inPackets[j]
<1> DEFINE packets == result.packets
           m       == Len(result.packets)
<1>1. /\ i \in Nat /\ j \in Nat /\ i <= j
      /\ m = j - i + 1
      /\ \A k \in 1..m : /\ i + k - 1 \in 1..Len(inPackets)
                         /\ packets[k] = inPackets[i + k - 1]
  BY CutPackets
<1> HIDE DEF packets, m
<1>2. packetCount \in Nat /\ Len(inPackets) \in Nat
  BY WindowIndices DEF TypeOK
<1>3. 1 \in 1..m /\ m \in 1..m /\ i + 1 - 1 = i /\ i + m - 1 = j
  BY <1>1
<1>4. \A k \in 1..m :
        packets[k].index = packetCount - Len(inPackets) + (i + k - 1) - 1
  BY <1>1, WindowIndices
<1>5. ASSUME NEW k \in 1..m, NEW l \in 1..m, k < l
      PROVE  packets[k].index < packets[l].index
  BY <1>1, <1>2, <1>4, <1>5
<1>6. packets[1] = inPackets[i] /\ packets[m] = inPackets[j]
  BY <1>1, <1>3
<1>7. QED BY <1>1, <1>3, <1>5, <1>6 DEF Increasing, packets, m
-----------------------------------------------------------------------------
(* The inductive invariant.  The cursor of a session that was delivered
   something stands at the last packet it was delivered, one before it, or
   further on with no data in between; a packet that is still in the window
   is the one that was delivered under its index; and a session that is not
   known, or whose first request is being handled, was delivered nothing. *)
CursorAt(last, at) ==
  /\ last.index < packetCount
  /\ at < packetCount
  /\ last.index <= at + 1
  /\ \A i \in 1..Len(inPackets) :
       /\ inPackets[i].index = last.index => inPackets[i] = last
       /\ last.index < inPackets[i].index /\ inPackets[i].index <= at
            => ~inPackets[i].hasData

DeliveryOK(s) ==
  /\ s \notin clients \/ s = serving => delivered[s] = <<>>
  /\ Ordered(delivered[s])
  /\ EndsAhead(delivered[s])
  /\ delivered[s] # <<>> =>
       CursorAt(delivered[s][Len(delivered[s])], client[s].currentInPacketIndex)

DeliveriesOK == \A s \in Sessions : DeliveryOK(s)

(* A session that has received nothing satisfies the invariant. *)
LEMMA NothingDelivered ==
  ASSUME NEW s, delivered[s] = <<>>
  PROVE  DeliveryOK(s)
<1>1. Len(delivered[s]) = 0
  BY EmptySeq
<1>2. Ordered(delivered[s]) /\ EndsAhead(delivered[s])
  BY <1>1 DEF Ordered, EndsAhead
<1>3. QED BY <1>2 DEF DeliveryOK

(* The last packet delivered is a packet. *)
LEMMA LastIsPacket ==
  ASSUME NEW got \in Seq(Packet), got # <<>>
  PROVE  /\ Len(got) \in Nat /\ Len(got) >= 1
         /\ got[Len(got)] \in Packet
         /\ got[Len(got)].index \in Nat
<1>1. Len(got) \in Nat /\ Len(got) >= 1
  BY EmptySeq
<1>2. got[Len(got)] \in Packet
  BY <1>1
<1>3. QED BY <1>1, <1>2 DEF Packet

(* A packet of the new window is one of the old one, or the new packet. *)
LEMMA AppendedPackets ==
  ASSUME TypeOK, NEW kind \in PacketKinds, CreateTs(kind),
         NEW i \in 1..Len(inPackets')
  PROVE  \/ \E k \in 1..Len(inPackets) : inPackets'[i] = inPackets[k]
         \/ inPackets'[i].index = packetCount
<1> DEFINE packet == [index    |-> packetCount,   isKey   |-> kind.isKey,
                      duration |-> kind.duration, hasData |-> kind.hasData]
           grown  == Append(inPackets, packet)
           n      == Len(inPackets)
<1>1. inPackets' = IF Len(grown) > InPacketsMaxSize THEN Tail(grown) ELSE grown
  BY DEF CreateTs, AppendPacket
<1>2. inPackets \in Seq(Packet) /\ n \in Nat
      /\ packet \in Packet /\ packet.index = packetCount
  BY HlsStreamAssumption DEF TypeOK, Packet
<1> HIDE DEF packet
<1>3. /\ grown \in Seq(Packet) /\ grown # <<>> /\ Len(grown) = n + 1
      /\ \A k \in 1..n : grown[k] = inPackets[k]
      /\ grown[n + 1] = packet
  BY <1>2, AppendProperties
<1>4. \A k \in 1..n+1 : \/ k \in 1..n /\ grown[k] = inPackets[k]
                        \/ grown[k].index = packetCount
  <2> HIDE DEF grown, n
  <2>1. TAKE k \in 1..n+1
  <2>2. k \in 1..n \/ k = n + 1
    BY <1>2
  <2>3. QED BY <1>2, <1>3, <2>2
<1>5. \E k \in 1..n+1 : inPackets'[i] = grown[k]
  <2>1. CASE Len(grown) > InPacketsMaxSize
    <3>1. /\ Len(Tail(grown)) = n
          /\ \A k \in 1..n : Tail(grown)[k] = grown[k + 1]
      <4> HIDE DEF grown, n
      <4>1. QED BY <1>2, <1>3, HeadTailProperties
    <3>2. inPackets' = Tail(grown)
      BY <1>1, <2>1
    <3> HIDE DEF grown
    <3>3. i \in 1..n
      BY <3>1, <3>2
    <3> HIDE DEF n
    <3>4. i + 1 \in 1..n+1
      BY <1>2, <3>3
    <3>5. QED BY <3>1, <3>2, <3>3, <3>4
  <2>2. CASE ~(Len(grown) > InPacketsMaxSize)
    <3>1. inPackets' = grown
      BY <1>1, <2>2
    <3> HIDE DEF grown
    <3>2. QED BY <1>3, <3>1
  <2>3. QED BY <2>1, <2>2
<1> HIDE DEF grown
<1>6. QED BY <1>4, <1>5

(* A packet that is muxed keeps the invariant: its index is above all others.
   *)
LEMMA CreateTsDelivery ==
  ASSUME TypeOK, NEW kind \in PacketKinds, CreateTs(kind),
         NEW s \in Sessions, DeliveryOK(s)
  PROVE  DeliveryOK(s)'
<1> DEFINE last == delivered[s][Len(delivered[s])]
           at   == client[s].currentInPacketIndex
<1>1. /\ UNCHANGED <<clients, client, serving, delivered>>
      /\ packetCount' = packetCount + 1
  BY DEF CreateTs
<1>2. CASE delivered[s] = <<>>
  <2>1. (delivered[s] = <<>>)'
    BY <1>1, <1>2
  <2>2. QED BY <1>1, <1>2 DEF DeliveryOK
<1>3. CASE delivered[s] # <<>>
  <2>1. /\ last \in Packet /\ last.index \in Nat /\ at \in Nat
        /\ packetCount \in Nat
    <3>1. delivered[s] \in Seq(Packet) /\ IsClient(client[s])
      BY DEF TypeOK
    <3>2. QED BY <1>3, <3>1, LastIsPacket DEF TypeOK, IsClient
  <2>2. CursorAt(last, at)
    BY <1>3 DEF DeliveryOK
  <2> HIDE DEF last, at
  <2>3. ASSUME NEW i \in 1..Len(inPackets')
        PROVE  /\ inPackets'[i].index = last.index => inPackets'[i] = last
               /\ last.index < inPackets'[i].index /\ inPackets'[i].index <= at
                    => ~inPackets'[i].hasData
    <3>1. CASE \E k \in 1..Len(inPackets) : inPackets'[i] = inPackets[k]
      BY <2>2, <3>1 DEF CursorAt
    <3>2. CASE inPackets'[i].index = packetCount
      BY <2>1, <2>2, <3>2 DEF CursorAt
    <3>3. QED BY <3>1, <3>2, AppendedPackets
  <2>4. /\ last.index < packetCount'
        /\ at < packetCount'
        /\ last.index <= at + 1
    BY <1>1, <2>1, <2>2 DEF CursorAt
  <2>5. /\ last' = last /\ at' = at
    BY <1>1 DEF last, at
  <2>6. CursorAt(last, at)'
    BY <2>3, <2>4, <2>5 DEF CursorAt
  <2>7. QED BY <1>1, <2>6 DEF DeliveryOK, last, at
<1>4. QED BY <1>2, <1>3
-----------------------------------------------------------------------------
(* What a cut adds to what was delivered: with data it is appended, without
   it only the cursor moves, over packets that have none. *)
After(s, result) ==
  IF result.ok /\ HasData(result.packets)
  THEN delivered[s] \o result.packets ELSE delivered[s]

(* A cut above the cursor of a session has two packets or more, and begins
   after the last packet delivered, or with it. *)
LEMMA CutAboveLast ==
  ASSUME TypeOK, WindowIsLatest, NEW s \in Sessions, DeliveryOK(s),
         delivered[s] # <<>>, NEW result, NEW i, NEW j,
         IsCutAbove(result, i, j, client[s].currentInPacketIndex)
  PROVE  LET last == delivered[s][Len(delivered[s])]
         IN  /\ Len(result.packets) >= 2
             /\ \/ last.index < inPackets[i].index
                \/ last = inPackets[i]
<1> DEFINE last == delivered[s][Len(delivered[s])]
           at   == client[s].currentInPacketIndex
<1>1. IsCut(result, i, j) /\ i < j /\ inPackets[i].index > at
  BY DEF IsCutAbove
<1>2. /\ i \in Nat /\ j \in Nat /\ 1 <= i /\ i <= j /\ j <= Len(inPackets)
      /\ Len(result.packets) = j - i + 1
  BY <1>1, CutPackets
<1>3. /\ last.index \in Nat /\ at \in Nat
  <2>1. delivered[s] \in Seq(Packet) /\ IsClient(client[s])
    BY DEF TypeOK
  <2>2. QED BY <2>1, LastIsPacket DEF IsClient
<1>4. CursorAt(last, at)
  BY DEF DeliveryOK
<1>5. i \in 1..Len(inPackets) /\ inPackets[i].index \in Nat
  BY <1>1, WindowIndices DEF IsCut
<1> HIDE DEF last, at
<1>6. last.index < inPackets[i].index \/ last.index = inPackets[i].index
  BY <1>1, <1>3, <1>4, <1>5 DEF CursorAt
<1>7. last.index = inPackets[i].index => last = inPackets[i]
  BY <1>4, <1>5 DEF CursorAt
<1>8. Len(result.packets) >= 2
  BY <1>1, <1>2
<1>9. QED BY <1>6, <1>7, <1>8 DEF last

(* So what was delivered, and the cut after it, are in order. *)
LEMMA CutOrder ==
  ASSUME TypeOK, WindowIsLatest, NEW s \in Sessions, DeliveryOK(s),
         NEW result, NEW i, NEW j, IsCut(result, i, j),
         \/ delivered[s] = <<>>
         \/ IsCutAbove(result, i, j, client[s].currentInPacketIndex)
  PROVE  LET new == delivered[s] \o result.packets
         IN  /\ Ordered(new) /\ EndsAhead(new) /\ new # <<>>
             /\ Len(new) = Len(delivered[s]) + Len(result.packets)
             /\ new[Len(new)] = inPackets[j]
<1> DEFINE old == delivered[s]
           seg == result.packets
<1>1. /\ old \in Seq(Packet) /\ seg \in Seq(Packet)
      /\ Ordered(old) /\ EndsAhead(old)
  BY CutPackets DEF TypeOK, DeliveryOK
<1>2. /\ Increasing(seg) /\ Len(seg) >= 1
      /\ seg[1] = inPackets[i] /\ seg[Len(seg)] = inPackets[j]
  BY CutIncreasing
<1>3. old # <<>> => /\ Len(seg) >= 2
                    /\ \/ old[Len(old)].index < seg[1].index
                       \/ old[Len(old)] = seg[1]
  BY <1>2, CutAboveLast
<1> HIDE DEF old, seg
<1>4. /\ Ordered(old \o seg) /\ EndsAhead(old \o seg) /\ old \o seg # <<>>
      /\ Len(old \o seg) = Len(old) + Len(seg)
      /\ (old \o seg)[Len(old) + Len(seg)] = seg[Len(seg)]
  BY <1>1, <1>2, <1>3, OrderKept
<1>5. QED BY <1>2, <1>4 DEF old, seg

(* And the cursor is again at the last packet, or at the one before. *)
LEMMA CutCursor ==
  ASSUME TypeOK, WindowIsLatest, NEW s \in Sessions, DeliveryOK(s),
         NEW result, IsResult(result), result.ok,
         NEW i, NEW j, IsCut(result, i, j),
         \/ delivered[s] = <<>>
         \/ IsCutAbove(result, i, j, client[s].currentInPacketIndex),
         After(s, result) # <<>>
  PROVE  CursorAt(After(s, result)[Len(After(s, result))], result.index)
<1> DEFINE last == delivered[s][Len(delivered[s])]
           at   == client[s].currentInPacketIndex
           n    == Len(inPackets)
<1>1. /\ i \in 1..n /\ j \in 1..n /\ i \in Nat /\ j \in Nat /\ i <= j
      /\ result.index \in {inPackets[j].index - 1, inPackets[j].index}
      /\ result.index \in Nat /\ n \in Nat
  BY CutPackets, WindowIndices DEF IsCut, IsResult
<1>2. \A k \in 1..n : /\ inPackets[k].index \in Nat
                      /\ inPackets[k].index = packetCount - n + k - 1
                      /\ inPackets[k].index < packetCount
  BY WindowIndices
<1>3. packetCount \in Nat
  BY DEF TypeOK
<1> HIDE DEF n
<1>4. result.index < packetCount
  BY <1>1, <1>2, <1>3
<1>5. CASE HasData(result.packets)
  <2>1. After(s, result)[Len(After(s, result))] = inPackets[j]
    BY <1>5, CutOrder DEF After
  <2>2. inPackets[j].index <= result.index + 1
    BY <1>1, <1>2
  <2>3. ASSUME NEW k \in 1..n, inPackets[k].index = inPackets[j].index
        PROVE  inPackets[k] = inPackets[j]
    <3>1. k = j
      BY <1>1, <1>2, <1>3, <2>3
    <3>2. QED BY <3>1
  <2>4. ASSUME NEW k \in 1..n, inPackets[j].index < inPackets[k].index,
               inPackets[k].index <= result.index
        PROVE  FALSE
    BY <1>1, <1>2, <2>4
  <2>5. CursorAt(inPackets[j], result.index)
    BY <1>1, <1>2, <1>4, <2>2, <2>3, <2>4 DEF CursorAt, n
  <2>6. QED BY <2>1, <2>5
<1>6. CASE ~HasData(result.packets)
  <2>1. After(s, result) = delivered[s] /\ delivered[s] # <<>>
    BY <1>6 DEF After
  <2>2. /\ IsCutAbove(result, i, j, at)
        /\ CursorAt(last, at)
    BY <2>1 DEF DeliveryOK
  <2>3. /\ last.index \in Nat /\ at \in Nat
    <3>1. delivered[s] \in Seq(Packet) /\ IsClient(client[s])
      BY DEF TypeOK
    <3>2. QED BY <2>1, <3>1, LastIsPacket DEF IsClient
  <2> HIDE DEF last, at
  <2>4. /\ inPackets[i].index > at
        /\ \A k \in 1..i-1 : inPackets[k].index <= at
        /\ i < j
    BY <2>2 DEF IsCutAbove
  <2>5. /\ last.index < packetCount /\ last.index <= at + 1
        /\ \A k \in 1..n :
             /\ inPackets[k].index = last.index => inPackets[k] = last
             /\ last.index < inPackets[k].index /\ inPackets[k].index <= at
                  => ~inPackets[k].hasData
    BY <2>2 DEF CursorAt, n
  <2>6. at <= result.index
    BY <1>1, <1>2, <1>3, <2>3, <2>4
  <2>7. ASSUME NEW k \in 1..n, last.index < inPackets[k].index,
               inPackets[k].index <= result.index
        PROVE  ~inPackets[k].hasData
    <3>1. CASE inPackets[k].index <= at
      BY <2>5, <2>7, <3>1
    <3>2. CASE ~(inPackets[k].index <= at)
      <4>1. k >= i
        <5>1. ~(k \in 1..i-1)
          BY <2>4, <3>2
        <5>2. QED BY <1>1, <5>1
      <4>2. k <= j
        <5>1. inPackets[k].index <= inPackets[j].index
          BY <1>1, <1>2, <2>7
        <5>2. QED BY <1>1, <1>2, <1>3, <5>1
      <4>3. /\ Len(result.packets) = j - i + 1
            /\ \A l \in 1..Len(result.packets) :
                 result.packets[l] = inPackets[i + l - 1]
        BY CutPackets
      <4>4. k - i + 1 \in 1..Len(result.packets) /\ i + (k - i + 1) - 1 = k
        BY <1>1, <4>1, <4>2, <4>3
      <4>5. result.packets[k - i + 1] = inPackets[k]
        BY <4>3, <4>4
      <4>6. QED BY <1>6, <4>4, <4>5 DEF HasData
    <3>3. QED BY <3>1, <3>2
  <2>8. last.index <= result.index + 1
    BY <1>1, <2>3, <2>5, <2>6
  <2>9. CursorAt(last, result.index)
    BY <1>4, <2>5, <2>7, <2>8 DEF CursorAt, n
  <2>10. QED BY <2>1, <2>9 DEF last
<1>7. QED BY <1>5, <1>6
-----------------------------------------------------------------------------
(* Answering a request sets the cursor when the call succeeded, and adds to
   what that session was delivered, and to nothing else. *)
LEMMA RefreshedCursor ==
  ASSUME NEW cl, IsClient(cl), NEW result, IsResult(result)
  PROVE  Refreshed(cl, result).currentInPacketIndex
           = IF result.ok THEN result.index ELSE cl.currentInPacketIndex
<1> DEFINE taken == Take(cl, result)
<1>1. IsClient(taken)
  BY TakeType
<1>2. taken.currentInPacketIndex
        = IF result.ok THEN result.index ELSE cl.currentInPacketIndex
  <2>1. CASE result.ok /\ HasData(result.packets)
    BY <2>1 DEF Take
  <2>2. CASE result.ok /\ ~HasData(result.packets)
    BY <2>2 DEF Take, IsClient
  <2>3. CASE ~result.ok
    BY <2>3 DEF Take
  <2>4. QED BY <2>1, <2>2, <2>3
<1>3. Refreshed(cl, result) = [taken EXCEPT !.outTsSegs = Refresh(@)]
  BY Zenon DEF Refreshed
<1> HIDE DEF taken
<1>4. Refreshed(cl, result).currentInPacketIndex = taken.currentInPacketIndex
  BY <1>1, <1>3 DEF IsClient
<1>5. QED BY <1>2, <1>4

(* A request delivers to its own session only, and moves its cursor if
   GetTsSeg succeeded. *)
LEMMA RespondDelivers ==
  ASSUME TypeOK, NEW s \in Sessions, NEW result, IsResult(result),
         Respond(s, result)
  PROVE  /\ delivered'[s] = After(s, result)
         /\ client'[s].currentInPacketIndex
              = IF result.ok THEN result.index ELSE client[s].currentInPacketIndex
         /\ \A t \in Sessions \ {s} :
              delivered'[t] = delivered[t] /\ client'[t] = client[t]
<1>1. delivered' = [delivered EXCEPT ![s] = After(s, result)]
  BY Zenon DEF Respond, After
<1>2. /\ client'[s] = Refreshed(client[s], result)
      /\ \A t \in Sessions \ {s} : client'[t] = client[t]
  BY RespondEffect
<1>3. /\ delivered'[s] = After(s, result)
      /\ \A t \in Sessions \ {s} : delivered'[t] = delivered[t]
  BY <1>1 DEF TypeOK
<1>4. client'[s].currentInPacketIndex
        = IF result.ok THEN result.index ELSE client[s].currentInPacketIndex
  BY <1>2, RefreshedCursor DEF TypeOK
<1>5. QED BY <1>2, <1>3, <1>4

(* What a request is answered with: no segment, or a cut of the window, above
   the cursor once the session was delivered something. *)
LEMMA RequestCuts ==
  ASSUME TypeOK, WindowIsLatest, NEW s \in Sessions, DeliveryOK(s),
         First(s) \/ Reload(s)
  PROVE  \E result :
           /\ IsResult(result) /\ Respond(s, result)
           /\ \/ ~result.ok
              \/ /\ result.ok
                 /\ \E i, j \in 1..Len(inPackets) :
                      /\ IsCut(result, i, j)
                      /\ \/ delivered[s] = <<>>
                         \/ IsCutAbove(result, i, j,
                                       client[s].currentInPacketIndex)
<1>1. CASE FirstEmpty(s)
  <2>1. ~NoSegment.ok /\ Respond(s, NoSegment)
    BY <1>1 DEF FirstEmpty, NoSegment
  <2>2. QED BY <2>1, NoSegmentType
<1>2. CASE FirstSegment(s)
  <2> DEFINE result == GetTsSegFirst(inPackets)
  <2>1. /\ IsResult(result) /\ Respond(s, result) /\ result.ok \in BOOLEAN
        /\ serving = s
    BY <1>2, GetTsSegFirstType DEF FirstSegment, TypeOK, IsResult
  <2>2. delivered[s] = <<>>
    BY <2>1 DEF DeliveryOK
  <2>3. result.ok => \E i, j \in 1..Len(inPackets) : IsCut(result, i, j)
    BY FirstIsCut
  <2> HIDE DEF result
  <2>4. QED BY <2>1, <2>2, <2>3
<1>3. CASE Reload(s)
  <2> DEFINE at     == client[s].currentInPacketIndex
             result == GetTsSegFrom(inPackets, at)
  <2>1. IsResult(result) /\ Respond(s, result) /\ result.ok \in BOOLEAN
    BY <1>3, GetTsSegFromType DEF Reload, TypeOK, IsResult
  <2>2. at \in Nat
    BY DEF TypeOK, IsClient
  <2>3. result.ok => \E i, j \in 1..Len(inPackets) : IsCutAbove(result, i, j, at)
    BY <2>2, FromIsCut
  <2> HIDE DEF result
  <2>4. QED BY <2>1, <2>3 DEF IsCutAbove
<1>4. QED BY <1>1, <1>2, <1>3 DEF First

(* A request keeps the invariant. *)
LEMMA RequestDelivery ==
  ASSUME TypeOK, WindowIsLatest, DeliveriesOK, NEW s \in Sessions,
         First(s) \/ Reload(s), NEW t \in Sessions
  PROVE  DeliveryOK(t)'
<1> USE HlsStreamAssumption
<1>1. DeliveryOK(s) /\ DeliveryOK(t)
  BY DEF DeliveriesOK
<1>2. /\ clients' = clients /\ s \in clients
      /\ serving \in {s, None} /\ serving' = None
      /\ UNCHANGED <<inPackets, packetCount>>
  BY RequestIsAnswered
<1>3. PICK result :
        /\ IsResult(result) /\ Respond(s, result)
        /\ \/ ~result.ok
           \/ /\ result.ok
              /\ \E i, j \in 1..Len(inPackets) :
                   /\ IsCut(result, i, j)
                   /\ \/ delivered[s] = <<>>
                      \/ IsCutAbove(result, i, j,
                                    client[s].currentInPacketIndex)
  BY <1>1, RequestCuts
<1>4. /\ delivered'[s] = After(s, result)
      /\ client'[s].currentInPacketIndex
           = IF result.ok THEN result.index ELSE client[s].currentInPacketIndex
      /\ \A u \in Sessions \ {s} :
           delivered'[u] = delivered[u] /\ client'[u] = client[u]
  BY <1>3, RespondDelivers
<1>5. CASE t = s
  <2>1. CASE ~result.ok
    <3>1. delivered'[t] = delivered[t] /\ client'[t].currentInPacketIndex
                                            = client[t].currentInPacketIndex
      BY <1>4, <1>5, <2>1 DEF After
    <3>2. QED BY <1>1, <1>2, <1>5, <3>1 DEF DeliveryOK, CursorAt
  <2>2. CASE result.ok
    <3>1. PICK i \in 1..Len(inPackets), j \in 1..Len(inPackets) :
            /\ IsCut(result, i, j)
            /\ \/ delivered[s] = <<>>
               \/ IsCutAbove(result, i, j, client[s].currentInPacketIndex)
      BY <1>3, <2>2
    <3>new. PICK new : new = After(s, result)
      OBVIOUS
    <3>2. Ordered(new) /\ EndsAhead(new)
      <4>1. CASE HasData(result.packets)
        BY <1>1, <2>2, <3>1, <3>new, <4>1, CutOrder DEF After
      <4>2. CASE ~HasData(result.packets)
        BY <1>1, <3>new, <4>2 DEF After, DeliveryOK
      <4>3. QED BY <4>1, <4>2
    <3>3. new # <<>> => CursorAt(new[Len(new)], result.index)
      BY <1>1, <1>3, <2>2, <3>1, <3>new, CutCursor
    <3>4. /\ delivered'[t] = new
          /\ client'[t].currentInPacketIndex = result.index
      BY <1>4, <1>5, <2>2, <3>new
    <3>5. ~(t \notin clients' \/ t = serving')
      BY <1>2, <1>5
    <3>6. new # <<>> =>
            CursorAt(new[Len(new)], client[t].currentInPacketIndex)'
      BY <1>2, <3>3, <3>4 DEF CursorAt
    <3>7. QED BY <3>2, <3>4, <3>5, <3>6 DEF DeliveryOK
  <2>3. QED BY <2>1, <2>2
<1>6. CASE t # s
  <2>1. delivered'[t] = delivered[t] /\ client'[t] = client[t]
    BY <1>4, <1>6
  <2>2. t # serving /\ t # serving'
    BY <1>2, <1>6
  <2>3. QED BY <1>1, <1>2, <2>1, <2>2 DEF DeliveryOK, CursorAt
<1>7. QED BY <1>5, <1>6

(* Every step does. *)
LEMMA NextDelivery ==
  TypeOK /\ WindowIsLatest /\ DeliveriesOK /\ [Next]_vars => DeliveriesOK'
<1> SUFFICES ASSUME TypeOK, WindowIsLatest, DeliveriesOK, [Next]_vars,
                    NEW t \in Sessions
             PROVE  DeliveryOK(t)'
  BY DEF DeliveriesOK
<1> USE HlsStreamAssumption
<1>1. DeliveryOK(t)
  BY DEF DeliveriesOK
<1>2. CASE Pull
  BY <1>1, <1>2, CreateTsDelivery DEF Pull
<1>3. ASSUME NEW s \in Sessions, NEW isSlide \in UninitSlide,
             NEW target \in UninitTarget, NEW index \in UninitIndex,
             Open(s, isSlide, target, index)
      PROVE  DeliveryOK(t)'
  <2>1. UNCHANGED <<inPackets, packetCount, delivered>>
    BY <1>3 DEF Open
  <2>2. CASE t = s
    <3>1. delivered[t] = <<>>
      BY <1>1, <1>3, <2>2 DEF Open, DeliveryOK
    <3>2. (delivered[t] = <<>>)'
      BY <2>1, <3>1
    <3>3. Ordered(delivered[t])' /\ EndsAhead(delivered[t])'
      BY <1>1, <2>1 DEF DeliveryOK
    <3>4. QED BY <3>2, <3>3 DEF DeliveryOK
  <2>3. CASE t # s
    <3>1. /\ client'[t] = client[t]
          /\ t # serving' /\ (t \in clients' <=> t \in clients)
      BY <1>3, <2>3 DEF Open, TypeOK
    <3>2. QED BY <1>1, <2>1, <3>1 DEF DeliveryOK, CursorAt
  <2>4. QED BY <2>2, <2>3
<1>4. ASSUME NEW s \in Sessions, First(s) \/ Reload(s) PROVE DeliveryOK(t)'
  BY <1>4, RequestDelivery
<1>5. ASSUME NEW s \in Sessions, Expire(s) PROVE DeliveryOK(t)'
  <2>1. UNCHANGED <<inPackets, packetCount, serving>>
    BY <1>5 DEF Expire
  <2>2. CASE t = s
    <3>1. delivered'[t] = <<>>
      BY <1>5, <2>2 DEF Expire, TypeOK
    <3>2. Len(delivered'[t]) = 0
      BY <3>1, EmptySeq
    <3>3. Ordered(delivered[t])' /\ EndsAhead(delivered[t])'
      BY <3>2 DEF Ordered, EndsAhead
    <3>4. QED BY <3>1, <3>3 DEF DeliveryOK
  <2>3. CASE t # s
    <3>1. /\ client'[t] = client[t] /\ delivered'[t] = delivered[t]
          /\ (t \in clients' <=> t \in clients)
      BY <1>5, <2>3 DEF Expire, TypeOK
    <3>2. QED BY <1>1, <2>1, <3>1 DEF DeliveryOK, CursorAt
  <2>4. QED BY <2>2, <2>3
<1>6. CASE UNCHANGED vars
  BY <1>1, <1>6 DEF vars, DeliveryOK, CursorAt
<1>7. QED BY <1>2, <1>3, <1>4, <1>5, <1>6 DEF Next, Handle

(* The inductive invariant of the deliveries, in every reachable state. *)
LEMMA DeliveriesCorrect == Spec => [](TypeOK /\ WindowIsLatest /\ DeliveriesOK)
<1>1. Init => DeliveriesOK
  BY NothingDelivered DEF Init, DeliveriesOK
<1>2. TypeOK /\ WindowIsLatest /\ DeliveriesOK /\ [Next]_vars => DeliveriesOK'
  BY NextDelivery
<1>3. QED BY <1>1, <1>2, TypeCorrect, WindowCorrect, PTL DEF Spec

(* A session receives packets in the order they were muxed, and only the
   packet at a seam twice, for every size of the window and of a batch, and
   whatever its cursor held before the first request (Camera.h:252-346,
   Client.h:107-140). *)
THEOREM DeliveryCorrect == Spec => []DeliveredInOrder
<1>1. DeliveriesOK => DeliveredInOrder
  BY DEF DeliveriesOK, DeliveryOK, Ordered, DeliveredInOrder
<1>2. QED BY <1>1, DeliveriesCorrect, PTL
-----------------------------------------------------------------------------
(* A reload that delivers something delivers every packet with data that is
   left of the window between the last one it had delivered before and the
   last one it delivers now. *)
LEMMA CutSkipsNothing ==
  ASSUME TypeOK, WindowIsLatest, NEW s \in Sessions, DeliveryOK(s),
         delivered[s] # <<>>, NEW result, NEW i, NEW j,
         IsCutAbove(result, i, j, client[s].currentInPacketIndex),
         NEW k \in 1..Len(inPackets), inPackets[k].hasData,
         Last(delivered[s]).index < inPackets[k].index,
         inPackets[k].index < Last(delivered[s] \o result.packets).index
  PROVE  \E l \in Len(delivered[s])+1..Len(delivered[s] \o result.packets) :
           (delivered[s] \o result.packets)[l] = inPackets[k]
<1> DEFINE old == delivered[s]
           got == delivered[s] \o result.packets
           at  == client[s].currentInPacketIndex
           n   == Len(inPackets)
<1>1. IsCut(result, i, j)
  BY DEF IsCutAbove
<1>2. Len(got) = Len(old) + Len(result.packets)
  BY <1>1, CutOrder
<1>3. got[Len(got)] = inPackets[j]
  BY <1>1, CutOrder
<1>4. /\ old \in Seq(Packet) /\ result.packets \in Seq(Packet)
      /\ Len(old) \in Nat
      /\ i \in Nat /\ j \in Nat /\ 1 <= i /\ i <= j /\ j <= n
      /\ Len(result.packets) = j - i + 1
      /\ \A l \in 1..Len(result.packets) :
           result.packets[l] = inPackets[i + l - 1]
  BY <1>1, CutPackets DEF TypeOK
<1>5. /\ n \in Nat /\ k \in 1..n
      /\ packetCount \in Nat
      /\ \A l \in 1..n : /\ inPackets[l].index \in Nat
                         /\ inPackets[l].index = packetCount - n + l - 1
  BY WindowIndices DEF TypeOK
<1>6. CursorAt(Last(old), at)
  BY DEF DeliveryOK, Last
<1>7. at \in Nat
  BY DEF TypeOK, IsClient
<1>8. inPackets[k].index > at
  BY <1>5, <1>6, <1>7 DEF CursorAt
<1>9. k >= i
  <2>1. \A l \in 1..i-1 : inPackets[l].index <= at
    BY DEF IsCutAbove
  <2>2. ~(k \in 1..i-1)
    BY <1>5, <1>7, <1>8, <2>1
  <2>3. QED BY <1>4, <2>2
<1>10. k <= j
  <2>1. inPackets[k].index < inPackets[j].index
    BY <1>3 DEF Last
  <2>2. j \in 1..n
    <3> HIDE DEF n
    <3>1. QED BY <1>4, <1>5
  <2> HIDE DEF n
  <2>3. QED BY <1>4, <1>5, <2>1, <2>2
<1> HIDE DEF n
<1>11. k - i + 1 \in 1..Len(result.packets) /\ i + (k - i + 1) - 1 = k
  BY <1>4, <1>9, <1>10
<1>12. result.packets[k - i + 1] = inPackets[k]
  BY <1>4, <1>11
<1>13. PICK m \in 1..Len(result.packets) : result.packets[m] = inPackets[k]
  BY <1>11, <1>12
<1>14. got[Len(old) + m] = result.packets[m]
  <2>1. Len(old) + m \in Len(old)+1..Len(old)+Len(result.packets)
        /\ Len(old) + m - Len(old) = m
    <3>1. Len(result.packets) \in Nat /\ Len(old) \in Nat
      BY <1>4
    <3>2. m \in 1..Len(result.packets)
      BY <1>13
    <3> HIDE DEF old
    <3>3. QED BY <3>1, <3>2
  <2>2. (old \o result.packets)[Len(old) + m]
           = result.packets[Len(old) + m - Len(old)]
    <3> HIDE DEF old
    <3>1. QED BY <1>4, <2>1, ConcatProperties
  <2>3. QED BY <2>1, <2>2
<1>15. Len(old) + m \in Len(old)+1..Len(got)
  <2> HIDE DEF old, got
  <2>1. QED BY <1>2, <1>4, <1>13
<1>16. QED BY <1>13, <1>14, <1>15

(* No step skips a packet that is left, for any session. *)
LEMMA StepSkipsNothing ==
  ASSUME TypeOK, WindowIsLatest, DeliveriesOK, Next, NEW t \in Sessions
  PROVE  SkipsNothing(t)
<1> USE HlsStreamAssumption
<1>1. DeliveryOK(t) /\ Len(delivered[t]) \in Nat
  BY DEF DeliveriesOK, TypeOK
<1>2. ASSUME delivered'[t] = delivered[t] \/ delivered'[t] = <<>>
      PROVE  SkipsNothing(t)
  <2>1. ~(Len(delivered'[t]) > Len(delivered[t]))
    BY <1>1, <1>2, EmptySeq
  <2>2. QED BY <2>1 DEF SkipsNothing
<1>3. ASSUME NEW s \in Sessions, First(s) \/ Reload(s) PROVE SkipsNothing(t)
  <2>1. DeliveryOK(s)
    BY DEF DeliveriesOK
  <2>2. PICK result :
          /\ IsResult(result) /\ Respond(s, result)
          /\ \/ ~result.ok
             \/ /\ result.ok
                /\ \E i, j \in 1..Len(inPackets) :
                     /\ IsCut(result, i, j)
                     /\ \/ delivered[s] = <<>>
                        \/ IsCutAbove(result, i, j,
                                      client[s].currentInPacketIndex)
    BY <1>3, <2>1, RequestCuts
  <2>3. /\ delivered'[s] = After(s, result)
        /\ \A u \in Sessions \ {s} : delivered'[u] = delivered[u]
    BY <2>2, RespondDelivers
  <2>4. CASE t # s
    BY <1>2, <2>3, <2>4
  <2>5. CASE t = s /\ ~(result.ok /\ HasData(result.packets))
    BY <1>2, <2>3, <2>5 DEF After
  <2>6. CASE t = s /\ result.ok /\ HasData(result.packets)
    <3>1. delivered'[t] = delivered[t] \o result.packets
      BY <2>3, <2>6 DEF After
    <3>2. PICK i \in 1..Len(inPackets), j \in 1..Len(inPackets) :
            /\ IsCut(result, i, j)
            /\ \/ delivered[s] = <<>>
               \/ IsCutAbove(result, i, j, client[s].currentInPacketIndex)
      BY <2>2, <2>6
    <3>3. CASE delivered[t] = <<>>
      BY <3>3 DEF SkipsNothing
    <3>4. CASE delivered[t] # <<>>
      <4>1. \A k \in 1..Len(inPackets) :
              (/\ inPackets[k].hasData
               /\ Last(delivered[t]).index < inPackets[k].index
               /\ inPackets[k].index < Last(delivered[t] \o result.packets).index)
              => \E l \in Len(delivered[t])+1
                            ..Len(delivered[t] \o result.packets) :
                   (delivered[t] \o result.packets)[l] = inPackets[k]
        <5>1. IsCutAbove(result, i, j, client[t].currentInPacketIndex)
          BY <2>6, <3>2, <3>4
        <5>2. QED BY <1>1, <3>4, <5>1, CutSkipsNothing
      <4>2. QED BY Zenon, <3>1, <4>1 DEF SkipsNothing
    <3>5. QED BY <3>3, <3>4
  <2>7. QED BY <2>4, <2>5, <2>6
<1>4. ASSUME Pull PROVE SkipsNothing(t)
  BY <1>2, <1>4 DEF Pull, CreateTs
<1>5. ASSUME NEW s \in Sessions, Expire(s) PROVE SkipsNothing(t)
  BY <1>2, <1>5 DEF Expire, TypeOK
<1>6. ASSUME NEW s \in Sessions, NEW isSlide, NEW target, NEW index,
             Open(s, isSlide, target, index)
      PROVE  SkipsNothing(t)
  BY <1>2, <1>6 DEF Open
<1>7. QED BY <1>3, <1>4, <1>5, <1>6 DEF Next, Handle

(* A reload never skips a packet that is still in the window, for every size
   of the window and of a batch: the index GetTsSeg records when it leaves its
   loop is never past a packet it did not take (Camera.h:309-346). *)
THEOREM NothingIsSkipped == Spec => NothingSkipped
<1>1. TypeOK /\ WindowIsLatest /\ DeliveriesOK /\ [Next]_vars =>
        [\A s \in Sessions : SkipsNothing(s)]_vars
  BY StepSkipsNothing
<1>2. QED BY <1>1, DeliveriesCorrect, PTL DEF Spec, NothingSkipped

(* Whatever cursor a request brings, the one it leaves is further on, and the
   segment starts with the oldest packet above it that is left
   (Camera.h:309-346). *)
THEOREM CursorCorrect == Spec => []CursorAdvances
<1>1. ASSUME TypeOK, WindowIsLatest, NEW from \in Nat,
             GetTsSegFrom(inPackets, from).ok
      PROVE  LET result == GetTsSegFrom(inPackets, from)
             IN  /\ result.index > from
                 /\ \A k \in 1..Len(inPackets) :
                      inPackets[k].index > from =>
                        result.packets[1].index <= inPackets[k].index
  <2> DEFINE result == GetTsSegFrom(inPackets, from)
             n      == Len(inPackets)
  <2>1. PICK i \in 1..n, j \in 1..n : IsCutAbove(result, i, j, from)
    BY <1>1, FromIsCut
  <2>2. /\ IsCut(result, i, j) /\ i < j /\ inPackets[i].index > from
        /\ \A k \in 1..i-1 : inPackets[k].index <= from
    BY <2>1 DEF IsCutAbove
  <2>3. result.packets[1] = inPackets[i]
    BY <1>1, <2>2, CutIncreasing
  <2>4. result.index \in {inPackets[j].index - 1, inPackets[j].index}
    BY <2>2 DEF IsCut
  <2>5. /\ n \in Nat /\ packetCount \in Nat
        /\ \A k \in 1..n : /\ inPackets[k].index \in Nat
                           /\ inPackets[k].index = packetCount - n + k - 1
    BY <1>1, WindowIndices DEF TypeOK
  <2> HIDE DEF result, n
  <2>6. result.index > from
    BY <1>1, <2>1, <2>2, <2>4, <2>5
  <2>7. ASSUME NEW k \in 1..n, inPackets[k].index > from
        PROVE  inPackets[i].index <= inPackets[k].index
    <3>1. ~(k \in 1..i-1)
      BY <1>1, <2>2, <2>5, <2>7
    <3>2. k >= i
      BY <2>1, <2>5, <3>1
    <3>3. QED BY <2>1, <2>5, <3>2
  <2>8. QED BY <2>3, <2>6, <2>7 DEF result, n
<1>2. TypeOK /\ WindowIsLatest => CursorAdvances
  <2>1. 0..MaxPackets + 1 \in SUBSET Nat
    BY HlsStreamAssumption
  <2>2. QED BY <1>1, <2>1 DEF CursorAdvances
<1>3. QED BY <1>2, TypeCorrect, WindowCorrect, PTL
=============================================================================
