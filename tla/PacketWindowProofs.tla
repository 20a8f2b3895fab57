------------------------- MODULE PacketWindowProofs -------------------------
(***************************************************************************)
(* Lemmas about the operators on the packets of a window, for windows of   *)
(* any length: the least and the greatest of a set of positions, loops     *)
(* over positions, the duration of a run of packets, and that the cuts of  *)
(* PacketWindow are what the loops of GetTsSeg compute.                    *)
(***************************************************************************)
EXTENDS PacketWindowLoops, SequenceTheorems, WellFoundedInduction, TLAPS

(* The least element of a set of natural numbers is one of its elements, and
   none of the others is less. *)
LEMMA MinIsLeast ==
  ASSUME NEW S \in SUBSET Nat, S # {}
  PROVE  Min(S) \in S /\ \A y \in S : Min(S) <= y
<1>1. PICK x \in S : \A y \in S : <<y, x>> \notin OpToRel(<, Nat)
  BY NatLessThanWellFounded, WFMin
<1>2. \A y \in S : x <= y
  <2>1. SUFFICES ASSUME NEW y \in S, ~(x <= y) PROVE FALSE
    OBVIOUS
  <2>2. <<y, x>> \in OpToRel(<, Nat)
    BY <2>1 DEF OpToRel
  <2>3. QED BY <1>1, <2>2
<1>3. QED BY <1>2 DEF Min

(* The same for the greatest of the positions of a sequence: the position is
   least when it is counted from the end. *)
LEMMA MaxIsGreatest ==
  ASSUME NEW n \in Nat, NEW S \in SUBSET (1..n), S # {}
  PROVE  Max(S) \in S /\ \A y \in S : Max(S) >= y
<1> DEFINE R == {n - i : i \in S}
<1>1. R \in SUBSET Nat /\ R # {}
  <2>1. \A i \in S : i \in Int /\ n - i \in Nat
    OBVIOUS
  <2>2. PICK i \in S : TRUE
    OBVIOUS
  <2>3. n - i \in R
    BY <2>2
  <2>4. QED BY <2>1, <2>3
<1>2. PICK m \in R : \A r \in R : m <= r
  BY <1>1, MinIsLeast
<1>3. PICK x \in S : m = n - x
  BY <1>2
<1>4. \A y \in S : x >= y
  <2>1. TAKE y \in S
  <2>2. n - y \in R
    OBVIOUS
  <2>3. QED BY <1>2, <1>3, <2>2
<1>5. QED BY <1>4 DEF Max
-----------------------------------------------------------------------------
(* Induction along 0..n, over a set: the library's theorem takes a predicate
   as a parameter. *)
LEMMA IntervalInduction ==
  ASSUME NEW n \in Nat, NEW S, 0 \in S,
         \A i \in 0..n : i # n /\ i \in S => i + 1 \in S
  PROVE  \A i \in 0..n : i \in S
<1> DEFINE Bad == {i \in 0..n : i \notin S}
<1>1. SUFFICES ASSUME Bad # {} PROVE FALSE
  OBVIOUS
<1>2. Bad \in SUBSET Nat
  OBVIOUS
<1>3. Min(Bad) \in Bad /\ \A y \in Bad : Min(Bad) <= y
  BY <1>1, <1>2, MinIsLeast
<1>4. PICK m \in Bad : \A y \in Bad : m <= y
  BY <1>3
<1>5. m \in 0..n /\ m # 0 /\ m - 1 \in 0..n /\ m - 1 # n /\ ~(m <= m - 1)
  <2>1. m \in 0..n /\ m \notin S
    OBVIOUS
  <2>2. m # 0
    BY <2>1
  <2>3. QED BY <2>1, <2>2
<1>6. m - 1 \in S
  BY <1>4, <1>5
<1>7. (m - 1) + 1 \in S
  BY <1>5, <1>6
<1>8. (m - 1) + 1 = m
  BY <1>5
<1>9. QED BY <1>7, <1>8

(* f holds the states of a loop over m positions: first before it, and after
   the iteration at i what step makes of the state before it. *)
IsLoop(f, m, first, step) ==
  \A i \in 0..m : f[i] = IF i = 0 THEN first ELSE step[i][f[i - 1]]

(* A loop that is started has a state after each of its iterations: the
   recursive function that defines it exists. *)
LEMMA LoopExists ==
  ASSUME NEW n \in Nat, NEW T, NEW first \in T,
         NEW step \in [1..n -> [T -> T]]
  PROVE  \E f \in [0..n -> T] : IsLoop(f, n, first, step)
<1> DEFINE Built ==
             {m \in 0..n : \E f \in [0..m -> T] : IsLoop(f, m, first, step)}
<1>1. 0 \in Built
  <2>1. [i \in 0..0 |-> first] \in [0..0 -> T]
    OBVIOUS
  <2>2. IsLoop([i \in 0..0 |-> first], 0, first, step)
    BY DEF IsLoop
  <2>3. QED BY <2>1, <2>2
<1>2. ASSUME NEW m \in 0..n, m # n, m \in Built PROVE m + 1 \in Built
  <2>1. PICK f \in [0..m -> T] : IsLoop(f, m, first, step)
    BY <1>2
  <2>2. m \in 0..m /\ m \in Nat /\ m + 1 \in 1..n
    BY <1>2
  <2>3. f[m] \in T
    BY <2>1, <2>2
  <2>4. step[m + 1][f[m]] \in T
    <3>1. step[m + 1] \in [T -> T]
      BY <2>2
    <3>2. QED BY <2>3, <3>1
  <2> DEFINE g == [i \in 0..m+1 |-> IF i = m + 1 THEN step[m + 1][f[m]] ELSE f[i]]
  <2>5. g \in [0..m+1 -> T]
    BY <2>2, <2>1, <2>4
  <2>6. ASSUME NEW i \in 0..m+1
        PROVE  g[i] = IF i = 0 THEN first ELSE step[i][g[i - 1]]
    <3>1. CASE i = m + 1
      <4>1. /\ g[i] = step[m + 1][f[m]] /\ i - 1 = m /\ i # 0
            /\ i - 1 \in 0..m+1 /\ i - 1 # m + 1
        BY <2>2, <3>1
      <4>2. g[i - 1] = f[m]
        BY <4>1
      <4> HIDE DEF g
      <4>3. QED BY <3>1, <4>1, <4>2
    <3>2. CASE i # m + 1
      <4>1. i \in 0..m /\ g[i] = f[i]
        BY <2>2, <3>2
      <4>2. f[i] = IF i = 0 THEN first ELSE step[i][f[i - 1]]
        BY <2>1, <4>1 DEF IsLoop
      <4>3. ASSUME i # 0 PROVE g[i - 1] = f[i - 1]
        <5>1. i - 1 \in 0..m+1 /\ i - 1 # m + 1
          BY <2>2, <4>1, <4>3
        <5>2. QED BY <5>1
      <4>4. QED BY <4>1, <4>2, <4>3
    <3>3. QED BY <3>1, <3>2
  <2>7. IsLoop(g, m + 1, first, step)
    BY <2>6 DEF IsLoop
  <2>8. m + 1 \in 0..n
    BY <1>2
  <2>9. QED
    <3> HIDE DEF g
    <3>1. QED BY <2>5, <2>7, <2>8
<1>3. n \in Built
  <2> HIDE DEF Built
  <2>1. \A i \in 0..n : i \in Built
    BY <1>1, <1>2, IntervalInduction
  <2>2. QED BY <2>1
<1>4. QED BY <1>3

(* The sums the loop of GetTsSeg adds up on its way to the duration. *)
Sums(packets) ==
  LET sum[i \in 0..Len(packets)] ==
        IF i = 0 THEN 0 ELSE sum[i - 1] + packets[i].duration
  IN  sum

(* The sums are natural numbers, each the one before and a duration more, and
   the last is the duration of the run. *)
LEMMA DurationSums ==
  ASSUME NEW S, \A packet \in S : packet.duration \in Nat,
         NEW packets \in Seq(S)
  PROVE  /\ Sums(packets) \in [0..Len(packets) -> Nat]
         /\ Sums(packets)[0] = 0
         /\ \A i \in 1..Len(packets) :
              Sums(packets)[i] = Sums(packets)[i - 1] + packets[i].duration
         /\ Duration(packets) = Sums(packets)[Len(packets)]
<1> DEFINE n == Len(packets)
           step == [i \in 1..n |-> [d \in Nat |-> d + packets[i].duration]]
           sum == Sums(packets)
<1>1. n \in Nat /\ \A i \in 1..n : packets[i].duration \in Nat
  <2>1. \A i \in 1..n : packets[i] \in S
    OBVIOUS
  <2>2. QED BY <2>1
<1>2. step \in [1..n -> [Nat -> Nat]]
  <2>1. ASSUME NEW i \in 1..n
        PROVE  [d \in Nat |-> d + packets[i].duration] \in [Nat -> Nat]
    <3>1. packets[i].duration \in Nat
      BY <1>1
    <3>2. QED BY <3>1
  <2>2. QED BY <2>1
<1>3. PICK f \in [0..n -> Nat] : IsLoop(f, n, 0, step)
  <2> HIDE DEF step, n
  <2>1. QED BY <1>1, <1>2, LoopExists
<1>4. f = [i \in 0..n |-> IF i = 0 THEN 0 ELSE f[i - 1] + packets[i].duration]
  <2> HIDE DEF n
  <2>1. ASSUME NEW i \in 0..n, i # 0
        PROVE  step[i][f[i - 1]] = f[i - 1] + packets[i].duration
    <3>1. i \in 1..n /\ i - 1 \in 0..n
      BY <1>1, <2>1
    <3>2. f[i - 1] \in Nat
      BY <1>3, <3>1
    <3>3. QED BY <3>1, <3>2
  <2>2. \A i \in 0..n :
          f[i] = IF i = 0 THEN 0 ELSE f[i - 1] + packets[i].duration
    <3> HIDE DEF step
    <3>1. QED BY <1>3, <2>1 DEF IsLoop
  <2>3. QED BY <2>2
<1>5. sum = [i \in 0..n |-> IF i = 0 THEN 0 ELSE sum[i - 1] + packets[i].duration]
  BY <1>4 DEF Sums
<1>6. Duration(packets) = sum[n]
  BY DEF Duration, Sums
<1> HIDE DEF sum, n
<1>7. /\ sum[0] = 0
      /\ \A i \in 1..n : sum[i] = sum[i - 1] + packets[i].duration
  <2>1. 0 \in 0..n /\ \A i \in 1..n : i \in 0..n /\ i # 0
    BY <1>1
  <2>2. QED BY <1>5, <2>1
<1> DEFINE Typed == {i \in 0..n : sum[i] \in Nat}
<1>8. 0 \in Typed
  BY <1>1, <1>7
<1>9. ASSUME NEW i \in 0..n, i # n, i \in Typed PROVE i + 1 \in Typed
  <2>1. i + 1 \in 1..n /\ i + 1 \in 0..n /\ (i + 1) - 1 = i
    BY <1>1, <1>9
  <2>2. sum[i + 1] = sum[i] + packets[i + 1].duration
    BY <1>7, <2>1
  <2>3. sum[i] \in Nat /\ packets[i + 1].duration \in Nat
    BY <1>1, <1>9, <2>1
  <2>4. QED BY <2>1, <2>2, <2>3
<1>10. \A i \in 0..n : sum[i] \in Nat
  <2> HIDE DEF Typed
  <2>1. \A i \in 0..n : i \in Typed
    BY <1>1, <1>8, <1>9, IntervalInduction
  <2>2. QED BY <2>1 DEF Typed
<1>11. sum \in [0..n -> Nat]
  <2>1. sum = [i \in 0..n |-> sum[i]]
    BY <1>5
  <2>2. QED BY <1>10, <2>1
<1>12. QED BY <1>6, <1>7, <1>11 DEF sum, n

(* The duration of a run of packets is a natural number. *)
LEMMA DurationType ==
  ASSUME NEW S, \A packet \in S : packet.duration \in Nat,
         NEW packets \in Seq(S)
  PROVE  Duration(packets) \in Nat
<1> DEFINE sum == Sums(packets)
           n   == Len(packets)
<1>1. sum \in [0..n -> Nat] /\ Duration(packets) = sum[n]
  BY DurationSums
<1>2. n \in 0..n
  OBVIOUS
<1> HIDE DEF sum, n
<1>3. QED BY <1>1, <1>2
-----------------------------------------------------------------------------
(* The packets of a window. *)
PacketSet == [index : Nat, isKey : BOOLEAN, duration : Nat, hasData : BOOLEAN]

(* What stands at a position of the window is a packet. *)
LEMMA PacketAt ==
  ASSUME NEW window \in Seq(PacketSet), NEW i \in 1..Len(window)
  PROVE  /\ window[i] \in PacketSet
         /\ window[i].index \in Nat /\ window[i].isKey \in BOOLEAN
<1>1. window[i] \in PacketSet
  OBVIOUS
<1>2. QED BY <1>1 DEF PacketSet

(* The first loop of GetTsSeg(packet) stops at the newest key packet. *)
LEMMA BackToKeyFinds ==
  ASSUME NEW window \in Seq(PacketSet)
  PROVE  LET keys == {i \in 1..Len(window) : window[i].isKey}
         IN  BackToKey(window) = IF keys = {} THEN 0 ELSE Max(keys)
<1> DEFINE n == Len(window)
           keys == {i \in 1..n : window[i].isKey}
           step == [it \in 1..n |-> [before \in Nat |->
                      IF window[it].isKey THEN it ELSE before]]
           back == CHOOSE f : f = [it \in 0..n |->
                     IF it = 0 THEN 0
                     ELSE IF window[it].isKey THEN it ELSE f[it - 1]]
<1>1. n \in Nat
  OBVIOUS
<1>2. step \in [1..n -> [Nat -> Nat]]
  <2>1. ASSUME NEW it \in 1..n
        PROVE  [before \in Nat |-> IF window[it].isKey THEN it ELSE before]
                 \in [Nat -> Nat]
    <3>1. it \in Nat
      BY <1>1
    <3>2. QED BY <3>1
  <2>2. QED BY <2>1
<1>3. PICK f \in [0..n -> Nat] : IsLoop(f, n, 0, step)
  <2> HIDE DEF step, n
  <2>1. QED BY <1>1, <1>2, LoopExists
<1>4. f = [it \in 0..n |-> IF it = 0 THEN 0
                           ELSE IF window[it].isKey THEN it ELSE f[it - 1]]
  <2> HIDE DEF n
  <2>1. ASSUME NEW it \in 0..n, it # 0
        PROVE  step[it][f[it - 1]] = IF window[it].isKey THEN it ELSE f[it - 1]
    <3>1. it \in 1..n /\ it - 1 \in 0..n
      BY <1>1, <2>1
    <3>2. f[it - 1] \in Nat
      BY <1>3, <3>1
    <3>3. QED BY <3>1, <3>2
  <2>2. \A it \in 0..n :
          f[it] = IF it = 0 THEN 0
                  ELSE IF window[it].isKey THEN it ELSE f[it - 1]
    <3> HIDE DEF step
    <3>1. QED BY <1>3, <2>1 DEF IsLoop
  <2>3. QED BY <2>2
<1>5. back = [it \in 0..n |-> IF it = 0 THEN 0
                              ELSE IF window[it].isKey THEN it ELSE back[it - 1]]
  BY <1>4
<1>6. BackToKey(window) = back[n]
  BY DEF BackToKey
<1> HIDE DEF back
<1> DEFINE Stops(i) ==
             \/ back[i] = 0 /\ \A k \in 1..i : k \notin keys
             \/ back[i] \in keys /\ \A k \in keys : k <= i => k <= back[i]
           Good == {i \in 0..n : Stops(i)}
<1>7. 0 \in Good
  <2>1. 0 \in 0..n /\ back[0] = 0
    BY <1>1, <1>5
  <2>2. 1..0 = {}
    OBVIOUS
  <2>3. QED BY <2>1, <2>2
<1>8. ASSUME NEW i \in 0..n, i # n, i \in Good PROVE i + 1 \in Good
  <2>1. i + 1 \in 0..n /\ i + 1 \in 1..n /\ i + 1 # 0 /\ (i + 1) - 1 = i
    BY <1>1, <1>8
  <2>2. back[i + 1] = IF window[i + 1].isKey THEN i + 1 ELSE back[i]
    BY <1>5, <2>1
  <2>3. Stops(i)
    BY <1>8
  <2>4. CASE window[i + 1].isKey
    <3>1. back[i + 1] = i + 1 /\ i + 1 \in keys
      BY <2>1, <2>2, <2>4
    <3>2. \A k \in keys : k <= i + 1 => k <= back[i + 1]
      BY <3>1
    <3>3. QED BY <2>1, <3>1, <3>2
  <2>5. CASE ~window[i + 1].isKey
    <3>1. back[i + 1] = back[i] /\ i + 1 \notin keys
      BY <2>2, <2>5
    <3>2. CASE back[i] = 0 /\ \A k \in 1..i : k \notin keys
      <4>1. \A k \in 1..i+1 : k \in 1..i \/ k = i + 1
        BY <2>1
      <4>2. \A k \in 1..i+1 : k \notin keys
        BY <3>1, <3>2, <4>1
      <4>3. QED BY <2>1, <3>1, <3>2, <4>2
    <3>3. CASE back[i] \in keys /\ \A k \in keys : k <= i => k <= back[i]
      <4>1. \A k \in keys : k <= i + 1 => k <= i \/ k = i + 1
        BY <2>1
      <4>2. \A k \in keys : k <= i + 1 => k <= back[i + 1]
        BY <3>1, <3>3, <4>1
      <4>3. QED BY <2>1, <3>1, <3>3, <4>2
    <3>4. QED BY <2>3, <3>2, <3>3
  <2>6. QED BY <2>4, <2>5
<1>9. Stops(n)
  <2> HIDE DEF Good, Stops, n
  <2>1. \A i \in 0..n : i \in Good
    BY <1>1, <1>7, <1>8, IntervalInduction
  <2>2. QED BY <1>1, <2>1 DEF Good
<1>10. CASE keys = {}
  BY <1>6, <1>9, <1>10
<1>11. CASE keys # {}
  <2>1. Max(keys) \in keys /\ \A k \in keys : Max(keys) >= k
    <3> HIDE DEF n
    <3>1. QED BY <1>1, <1>11, MaxIsGreatest
  <2>2. back[n] \in keys /\ \A k \in keys : k <= n => k <= back[n]
    BY <1>9, <1>11
  <2>3. keys \subseteq 1..n
    OBVIOUS
  <2> HIDE DEF keys, n
  <2>4. back[n] = Max(keys)
    BY <1>1, <2>1, <2>2, <2>3
  <2>5. QED BY <1>6, <1>11, <2>4 DEF keys, n
<1>12. QED BY <1>10, <1>11

(* One packet more is one position more. *)
LEMMA SubSeqGrows ==
  ASSUME NEW S, NEW window \in Seq(S), NEW i \in 1..Len(window),
         NEW j \in 1..Len(window), i <= j
  PROVE  /\ SubSeq(window, i, i - 1) = <<>>
         /\ Append(SubSeq(window, i, j - 1), window[j]) = SubSeq(window, i, j)
<1> DEFINE before == SubSeq(window, i, j - 1)
           grown  == Append(before, window[j])
           all    == SubSeq(window, i, j)
<1>1. /\ i \in Nat /\ j \in Nat /\ j - 1 \in 0..Len(window) /\ i - 1 \in 0..Len(window)
      /\ j \in 0..Len(window) /\ window[j] \in S
  OBVIOUS
<1>2. /\ before \in Seq(S) /\ Len(before) = j - i
      /\ \A k \in 1..j-i : before[k] = window[i + k - 1]
  BY <1>1, SubSeqProperties
<1>3. /\ all \in Seq(S) /\ Len(all) = j - i + 1
      /\ \A k \in 1..j-i+1 : all[k] = window[i + k - 1]
  BY <1>1, SubSeqProperties
<1>4. SubSeq(window, i, i - 1) = <<>>
  <2>1. /\ SubSeq(window, i, i - 1) \in Seq(S)
        /\ Len(SubSeq(window, i, i - 1)) = 0
    BY <1>1, SubSeqProperties
  <2>2. QED BY <2>1, EmptySeq
<1> HIDE DEF before, all
<1>5. /\ grown \in Seq(S) /\ Len(grown) = j - i + 1
      /\ \A k \in 1..j-i : grown[k] = before[k]
      /\ grown[j - i + 1] = window[j]
  BY <1>1, <1>2, AppendProperties
<1> HIDE DEF grown
<1>6. \A k \in 1..j-i+1 : grown[k] = all[k]
  <2>1. TAKE k \in 1..j-i+1
  <2>2. CASE k = j - i + 1
    <3>1. i + k - 1 = j
      BY <1>1, <2>2
    <3>2. all[k] = window[j]
      BY <1>3, <3>1
    <3>3. QED BY <1>5, <2>2, <3>2
  <2>3. CASE k # j - i + 1
    <3>1. k \in 1..j-i
      BY <1>1, <2>3
    <3>2. QED BY <1>2, <1>3, <1>5, <3>1
  <2>4. QED BY <2>2, <2>3
<1>7. grown = all
  BY <1>3, <1>5, <1>6, SeqEqual
<1>8. QED BY <1>4, <1>7 DEF grown, before, all

(* The second loop takes the packets from the key packet to the end. *)
LEMMA TakeToEndTakes ==
  ASSUME NEW window \in Seq(PacketSet), NEW key \in 1..Len(window),
         NEW unset \in Nat
  PROVE  TakeToEnd(window, key, unset)
           = [index   |-> window[Len(window)].index,
              packets |-> SubSeq(window, key, Len(window))]
<1> DEFINE n == Len(window)
           T == [index : Nat, packets : Seq(PacketSet)]
           start == [index |-> unset, packets |-> <<>>]
           taken(before, it) ==
             [index   |-> window[it].index,
              packets |-> Append(before.packets, window[it])]
           step == [it \in 1..n |-> [before \in T |->
                      IF it < key THEN start ELSE taken(before, it)]]
           packet == CHOOSE f : f = [it \in 0..n |->
                       IF it < key
                       THEN [index |-> unset, packets |-> <<>>]
                       ELSE [index   |-> window[it].index,
                             packets |-> Append(f[it - 1].packets, window[it])]]
<1>1. n \in Nat /\ key \in Nat /\ key \in 1..n
  OBVIOUS
<1>2. start \in T
  OBVIOUS
<1>3. step \in [1..n -> [T -> T]]
  <2>1. ASSUME NEW it \in 1..n, NEW before \in T
        PROVE  taken(before, it) \in T
    <3>1. before.packets \in Seq(PacketSet)
      OBVIOUS
    <3>2. /\ window[it] \in PacketSet /\ window[it].index \in Nat
      BY PacketAt
    <3>3. Append(before.packets, window[it]) \in Seq(PacketSet)
      BY <3>1, <3>2, AppendProperties
    <3>4. QED BY <3>2, <3>3
  <2> HIDE DEF T, start, taken, n
  <2>2. ASSUME NEW it \in 1..n
        PROVE  [before \in T |-> IF it < key THEN start ELSE taken(before, it)]
                 \in [T -> T]
    BY <1>2, <2>1
  <2>3. QED BY <2>2
<1>4. PICK f \in [0..n -> T] : IsLoop(f, n, start, step)
  <2> HIDE DEF step, n, T, start
  <2>1. QED BY <1>1, <1>2, <1>3, LoopExists
<1>5. f = [it \in 0..n |->
             IF it < key
             THEN [index |-> unset, packets |-> <<>>]
             ELSE [index   |-> window[it].index,
                   packets |-> Append(f[it - 1].packets, window[it])]]
  <2> HIDE DEF n, T
  <2>1. ASSUME NEW it \in 0..n, it # 0
        PROVE  step[it][f[it - 1]]
                 = IF it < key THEN start ELSE taken(f[it - 1], it)
    <3>1. it \in 1..n /\ it - 1 \in 0..n
      BY <1>1, <2>1
    <3>2. f[it - 1] \in T
      BY <1>4, <3>1
    <3> HIDE DEF start, taken
    <3>3. QED BY <3>1, <3>2
  <2>2. \A it \in 0..n :
          f[it] = IF it < key THEN start ELSE taken(f[it - 1], it)
    <3> HIDE DEF step, start, taken
    <3>1. ASSUME NEW it \in 0..n
          PROVE  f[it] = IF it < key THEN start ELSE taken(f[it - 1], it)
      <4>1. it = 0 => it < key
        BY <1>1
      <4>2. f[it] = IF it = 0 THEN start ELSE step[it][f[it - 1]]
        BY <1>4 DEF IsLoop
      <4>3. QED BY <2>1, <4>1, <4>2
    <3>2. QED BY <3>1
  <2>3. QED BY <2>2
<1>6. packet = [it \in 0..n |->
                  IF it < key
                  THEN [index |-> unset, packets |-> <<>>]
                  ELSE [index   |-> window[it].index,
                        packets |-> Append(packet[it - 1].packets, window[it])]]
  BY <1>5
<1>7. TakeToEnd(window, key, unset) = packet[n]
  BY DEF TakeToEnd
<1> HIDE DEF packet
<1> DEFINE Took(i) ==
             IF i < key
             THEN packet[i].packets = <<>>
             ELSE packet[i] = [index   |-> window[i].index,
                               packets |-> SubSeq(window, key, i)]
           Good == {i \in 0..n : Took(i)}
<1>8. 0 \in Good
  <2>1. 0 \in 0..n /\ 0 < key
    BY <1>1
  <2>2. packet[0].packets = <<>>
    BY <1>6, <2>1
  <2>3. QED BY <2>1, <2>2
<1>9. ASSUME NEW i \in 0..n, i # n, i \in Good PROVE i + 1 \in Good
  <2>1. i \in Nat /\ i + 1 \in 0..n /\ i + 1 \in 1..n /\ (i + 1) - 1 = i
    BY <1>1, <1>9
  <2>2. packet[i + 1] = IF i + 1 < key
                        THEN [index |-> unset, packets |-> <<>>]
                        ELSE taken(packet[i], i + 1)
    BY <1>6, <2>1
  <2>3. CASE i + 1 < key
    <3>1. packet[i + 1].packets = <<>>
      BY <2>2, <2>3
    <3>2. QED BY <2>1, <2>3, <3>1
  <2>4. CASE ~(i + 1 < key)
    <3>1. packet[i].packets = SubSeq(window, key, i)
      <4>1. CASE i < key
        <5>1. i = key - 1 /\ packet[i].packets = <<>>
          BY <1>1, <1>9, <2>1, <2>4, <4>1
        <5>2. SubSeq(window, key, key - 1) = <<>>
          BY SubSeqGrows
        <5>3. QED BY <5>1, <5>2
      <4>2. CASE ~(i < key)
        BY <1>9, <4>2
      <4>3. QED BY <4>1, <4>2
    <3>2. Append(SubSeq(window, key, i), window[i + 1]) = SubSeq(window, key, i + 1)
      <4>1. key <= i + 1
        BY <1>1, <2>1, <2>4
      <4>2. QED BY <2>1, <4>1, SubSeqGrows
    <3>3. packet[i + 1] = [index   |-> window[i + 1].index,
                           packets |-> SubSeq(window, key, i + 1)]
      BY <2>2, <2>4, <3>1, <3>2
    <3>4. QED BY <2>1, <2>4, <3>3
  <2>5. QED BY <2>3, <2>4
<1>10. Took(n)
  <2> HIDE DEF Good, Took, n
  <2>1. \A i \in 0..n : i \in Good
    BY <1>1, <1>8, <1>9, IntervalInduction
  <2>2. QED BY <1>1, <2>1 DEF Good
<1>11. ~(n < key)
  BY <1>1
<1>12. QED BY <1>7, <1>10, <1>11

(* GetTsSegFirst is what the two loops of GetTsSeg(packet) compute. *)
LEMMA FirstIsLoop ==
  ASSUME NEW window \in Seq(PacketSet), NEW unset \in Nat
  PROVE  GetTsSegFirst(window) = FirstLoop(window, unset)
<1> DEFINE n == Len(window)
           keys == {i \in 1..n : window[i].isKey}
<1>1. BackToKey(window) = IF keys = {} THEN 0 ELSE Max(keys)
  BY BackToKeyFinds
<1>2. CASE keys = {}
  <2>1. GetTsSegFirst(window) = NoSegment
    BY <1>2 DEF GetTsSegFirst
  <2>2. FirstLoop(window, unset) = NoSegment
    BY <1>1, <1>2 DEF FirstLoop
  <2>3. QED BY <2>1, <2>2
<1>3. CASE keys # {}
  <2>1. Max(keys) \in keys /\ keys \subseteq 1..n /\ n \in Nat
    <3>1. n \in Nat /\ keys \in SUBSET (1..n)
      OBVIOUS
    <3> HIDE DEF n, keys
    <3>2. QED BY <1>3, <3>1, MaxIsGreatest
  <2> DEFINE key == BackToKey(window)
  <2>2. key = Max(keys) /\ key \in 1..n /\ key # 0
    <3>1. key = Max(keys)
      BY <1>1, <1>3
    <3> HIDE DEF n, keys, key
    <3>2. key \in 1..n /\ n \in Nat
      BY <2>1, <3>1
    <3>3. key # 0
      BY <3>2
    <3>4. QED BY <3>1, <3>2, <3>3
  <2>3. GetTsSegFirst(window)
          = Segment(SubSeq(window, key, n), window[n].index)
    BY <1>3, <2>2 DEF GetTsSegFirst
  <2>4. TakeToEnd(window, key, unset)
          = [index |-> window[n].index, packets |-> SubSeq(window, key, n)]
    <3> HIDE DEF key
    <3>1. QED BY <2>2, TakeToEndTakes
  <2>5. FirstLoop(window, unset)
          = Segment(TakeToEnd(window, key, unset).packets,
                    TakeToEnd(window, key, unset).index)
    BY <2>2 DEF FirstLoop
  <2>6. QED BY <2>3, <2>4, <2>5
<1>4. QED BY <1>2, <1>3
-----------------------------------------------------------------------------
(* One iteration of the loop of GetTsSeg(packet, from). *)
Pass(before, packet, from) ==
  LET newer == packet.index > from
      full  == before.count > BatchLimit
  IN  IF before.broken THEN before
      ELSE [count   |-> IF newer THEN before.count + 1 ELSE before.count,
            broken  |-> newer /\ full,
            index   |-> IF newer /\ full THEN before.index ELSE packet.index,
            packets |-> IF newer THEN Append(before.packets, packet)
                        ELSE before.packets]

PassStates == [count : Nat, broken : BOOLEAN, index : Nat, packets : Seq(PacketSet)]

(* An iteration leads from a state of the loop to a state of the loop. *)
LEMMA PassType ==
  ASSUME NEW before \in PassStates, NEW packet \in PacketSet, NEW from \in Nat
  PROVE  Pass(before, packet, from) \in PassStates
<1>1. /\ before.count \in Nat /\ before.broken \in BOOLEAN
      /\ before.index \in Nat /\ before.packets \in Seq(PacketSet)
  BY DEF PassStates
<1>2. packet.index \in Nat
  BY DEF PacketSet
<1>3. Append(before.packets, packet) \in Seq(PacketSet)
  BY <1>1, AppendProperties
<1>4. CASE before.broken
  BY <1>4 DEF Pass
<1>5. CASE ~before.broken
  <2> DEFINE newer == packet.index > from
             full  == before.count > BatchLimit
  <2>1. newer \in BOOLEAN /\ full \in BOOLEAN
    OBVIOUS
  <2>2. (IF newer THEN before.count + 1 ELSE before.count) \in Nat
    BY <1>1
  <2>3. (IF newer /\ full THEN before.index ELSE packet.index) \in Nat
    BY <1>1, <1>2
  <2>4. (IF newer THEN Append(before.packets, packet) ELSE before.packets)
          \in Seq(PacketSet)
    BY <1>1, <1>3
  <2>5. (newer /\ full) \in BOOLEAN
    OBVIOUS
  <2>6. Pass(before, packet, from)
          = [count   |-> IF newer THEN before.count + 1 ELSE before.count,
             broken  |-> newer /\ full,
             index   |-> IF newer /\ full THEN before.index ELSE packet.index,
             packets |-> IF newer THEN Append(before.packets, packet)
                         ELSE before.packets]
    BY <1>5 DEF Pass
  <2> HIDE DEF newer, full
  <2>7. QED BY <2>2, <2>3, <2>4, <2>5, <2>6 DEF PassStates
<1>6. QED BY <1>4, <1>5

(* The states the loop goes through. *)
LEMMA TakeNewerPasses ==
  ASSUME NEW window \in Seq(PacketSet), NEW from \in Nat, NEW unset \in Nat
  PROVE  \E loop :
           /\ loop[0] = [count |-> 0, broken |-> FALSE, index |-> unset,
                         packets |-> <<>>]
           /\ \A it \in 1..Len(window) :
                loop[it] = Pass(loop[it - 1], window[it], from)
           /\ TakeNewer(window, from, unset) = loop[Len(window)]
<1> DEFINE n == Len(window)
           start == [count |-> 0, broken |-> FALSE, index |-> unset, packets |-> <<>>]
           step == [it \in 1..n |-> [before \in PassStates |->
                                       Pass(before, window[it], from)]]
           loop == CHOOSE f : f = [it \in 0..n |->
        IF it = 0
        THEN [count |-> 0, broken |-> FALSE, index |-> unset, packets |-> <<>>]
        ELSE LET before == f[it - 1]
                 newer  == window[it].index > from
                 full   == before.count > BatchLimit
             IN  IF before.broken THEN before
                 ELSE [count   |-> IF newer THEN before.count + 1
                                   ELSE before.count,
                       broken  |-> newer /\ full,
                       index   |-> IF newer /\ full THEN before.index
                                   ELSE window[it].index,
                       packets |-> IF newer
                                   THEN Append(before.packets, window[it])
                                   ELSE before.packets]]
<1>1. n \in Nat
  OBVIOUS
<1>2. start \in PassStates
  BY DEF PassStates
<1>3. step \in [1..n -> [PassStates -> PassStates]]
  <2>1. ASSUME NEW it \in 1..n
        PROVE  [before \in PassStates |-> Pass(before, window[it], from)]
                 \in [PassStates -> PassStates]
    BY PacketAt, PassType
  <2>2. QED BY <2>1
<1>4. PICK f \in [0..n -> PassStates] : IsLoop(f, n, start, step)
  <2> HIDE DEF step, n, start
  <2>1. QED BY <1>1, <1>2, <1>3, LoopExists
<1>5. f = [it \in 0..n |->
             IF it = 0 THEN start ELSE Pass(f[it - 1], window[it], from)]
  <2> HIDE DEF n, start
  <2>1. ASSUME NEW it \in 0..n, it # 0
        PROVE  step[it][f[it - 1]] = Pass(f[it - 1], window[it], from)
    <3>1. it \in 1..n /\ it - 1 \in 0..n
      BY <1>1, <2>1
    <3>2. f[it - 1] \in PassStates
      BY <1>4, <3>1
    <3>3. QED BY <3>1, <3>2
  <2>2. \A it \in 0..n :
          f[it] = IF it = 0 THEN start ELSE Pass(f[it - 1], window[it], from)
    <3> HIDE DEF step
    <3>1. QED BY <1>4, <2>1 DEF IsLoop
  <2>3. QED BY <2>2
<1>6. loop = [it \in 0..n |->
                IF it = 0 THEN start ELSE Pass(loop[it - 1], window[it], from)]
  BY <1>5 DEF Pass
<1>7. TakeNewer(window, from, unset) = loop[n]
  BY DEF TakeNewer
<1> HIDE DEF loop
<1>8. loop[0] = start
  BY <1>1, <1>6
<1>9. \A it \in 1..n : loop[it] = Pass(loop[it - 1], window[it], from)
  <2>1. \A it \in 1..n : it \in 0..n /\ it # 0
    BY <1>1
  <2>2. QED BY <1>6, <2>1
<1>10. QED BY <1>7, <1>8, <1>9

(* In a window whose packets above from are those from the position start on,
   the loop takes them one by one, and breaks with the one after BatchLimit + 1
   others, whose index it does not record. *)
LEMMA TakeNewerTakes ==
  ASSUME NEW window \in Seq(PacketSet), NEW from \in Nat, NEW unset \in Nat,
         NEW start \in Nat \ {0},
         \A i \in 1..Len(window) : window[i].index > from <=> start <= i
  PROVE  LET n      == Len(window)
             full   == start + BatchLimit + 1
             packet == TakeNewer(window, from, unset)
         IN  /\ n < start => packet.count = 0
             /\ start <= n /\ n < full =>
                  /\ packet.count = n - start + 1
                  /\ packet.index = window[n].index
                  /\ packet.packets = SubSeq(window, start, n)
             /\ full <= n =>
                  /\ packet.count = BatchLimit + 2
                  /\ packet.index = window[full - 1].index
                  /\ packet.packets = SubSeq(window, start, full)
<1> DEFINE n    == Len(window)
           full == start + BatchLimit + 1
<1>1. n \in Nat /\ BatchLimit \in Nat /\ full \in Nat /\ start < full
  BY PacketWindowAssumption
<1>2. PICK loop :
        /\ loop[0] = [count |-> 0, broken |-> FALSE, index |-> unset,
                      packets |-> <<>>]
        /\ \A it \in 1..n : loop[it] = Pass(loop[it - 1], window[it], from)
        /\ TakeNewer(window, from, unset) = loop[n]
  BY TakeNewerPasses
<1> DEFINE Before(i) == /\ loop[i].count = 0 /\ loop[i].broken = FALSE
                        /\ loop[i].packets = <<>>
           Inside(i) == /\ loop[i].count = i - start + 1 /\ loop[i].broken = FALSE
                        /\ loop[i].index = window[i].index
                        /\ loop[i].packets = SubSeq(window, start, i)
           After(i)  == /\ loop[i].count = BatchLimit + 2 /\ loop[i].broken = TRUE
                        /\ loop[i].index = window[full - 1].index
                        /\ loop[i].packets = SubSeq(window, start, full)
           Good == {i \in 0..n : /\ i < start => Before(i)
                                 /\ start <= i /\ i < full => Inside(i)
                                 /\ full <= i => After(i)}
<1>3. 0 \in Good
  <2>1. 0 \in 0..n /\ 0 < start /\ ~(start <= 0) /\ ~(full <= 0)
    BY <1>1
  <2>2. Before(0)
    BY <1>2
  <2>3. QED BY <2>1, <2>2
<1>4. ASSUME NEW i \in 0..n, i # n, i \in Good PROVE i + 1 \in Good
  <2> DEFINE old == loop[i]
             new == loop[i + 1]
  <2>1. i \in Nat /\ i + 1 \in 1..n /\ i + 1 \in 0..n /\ (i + 1) - 1 = i
    BY <1>1, <1>4
  <2>2. new = Pass(old, window[i + 1], from)
    BY <1>2, <2>1
  <2>3. window[i + 1].index > from <=> start <= i + 1
    BY <2>1
  <2>4. /\ i < start => Before(i)
        /\ start <= i /\ i < full => Inside(i)
        /\ full <= i => After(i)
    BY <1>4
  <2> HIDE DEF new, full, n
  (* Not reached yet. *)
  <2>5. CASE i + 1 < start
    <3>1. old.count = 0 /\ old.broken = FALSE /\ old.packets = <<>>
      BY <1>1, <2>1, <2>4, <2>5
    <3>2. ~(window[i + 1].index > from)
      BY <1>1, <2>1, <2>3, <2>5
    <3>3. new = [count |-> old.count, broken |-> FALSE,
                 index |-> window[i + 1].index, packets |-> old.packets]
      <4> HIDE DEF old
      <4>1. QED BY <2>2, <3>1, <3>2 DEF Pass
    <3>4. new.count = 0 /\ new.broken = FALSE /\ new.packets = <<>>
      BY <3>1, <3>3
    <3>5. ~(start <= i + 1) /\ ~(full <= i + 1)
      BY <1>1, <2>1, <2>5
    <3>6. QED BY <2>1, <3>4, <3>5 DEF new
  (* A packet is taken. *)
  <2>6. CASE start <= i + 1 /\ i < full
    <3>1. /\ old.count = i + 1 - start /\ old.broken = FALSE
          /\ old.packets = SubSeq(window, start, i)
          /\ i # start - 1 => old.index = window[i].index
      <4>1. CASE i < start
        <5>1. i = start - 1
          BY <1>1, <2>1, <2>6, <4>1
        <5>2. start \in 1..n
          BY <1>1, <2>1, <5>1
        <5>3. SubSeq(window, start, i) = <<>>
          <6>1. SubSeq(window, start, start - 1) = <<>>
            BY <5>2, SubSeqGrows DEF n
          <6>2. QED BY <5>1, <6>1
        <5>4. old.count = 0 /\ old.broken = FALSE /\ old.packets = <<>>
          BY <2>4, <4>1
        <5>5. i + 1 - start = 0
          BY <2>1, <5>1
        <5>6. QED BY <5>1, <5>3, <5>4, <5>5
      <4>2. CASE ~(i < start)
        <5>1. start <= i /\ i < full
          BY <2>1, <2>6, <4>2
        <5>2. /\ old.count = i - start + 1 /\ old.broken = FALSE
              /\ old.packets = SubSeq(window, start, i)
              /\ old.index = window[i].index
          BY <2>4, <5>1
        <5>3. i - start + 1 = i + 1 - start
          BY <2>1
        <5>4. QED BY <5>2, <5>3
      <4>3. QED BY <4>1, <4>2
    <3>2. window[i + 1].index > from
      BY <2>3, <2>6
    <3>3. Append(old.packets, window[i + 1]) = SubSeq(window, start, i + 1)
      <4>1. start \in 1..n /\ i + 1 \in 1..n /\ start <= i + 1
        BY <1>1, <2>1, <2>6
      <4>2. Append(SubSeq(window, start, (i + 1) - 1), window[i + 1])
              = SubSeq(window, start, i + 1)
        BY <4>1, SubSeqGrows DEF n
      <4>3. QED BY <2>1, <3>1, <4>2
    <3>4. old.count > BatchLimit <=> i + 1 = full
      <4> HIDE DEF old
      <4>1. i + 1 - start > BatchLimit <=> i + 1 >= full
        BY <1>1, <2>1 DEF full
      <4>2. i + 1 >= full <=> i + 1 = full
        BY <1>1, <2>1, <2>6
      <4>3. QED BY <3>1, <4>1, <4>2
    <3> DEFINE breaks == old.count > BatchLimit
    <3>5. /\ new.count = old.count + 1 /\ new.broken = breaks
          /\ new.index = IF breaks THEN old.index ELSE window[i + 1].index
          /\ new.packets = SubSeq(window, start, i + 1)
      <4>1. new = [count   |-> old.count + 1, broken |-> breaks,
                   index   |-> IF breaks THEN old.index ELSE window[i + 1].index,
                   packets |-> Append(old.packets, window[i + 1])]
        <5>1. new = [count   |-> IF window[i + 1].index > from
                                 THEN old.count + 1 ELSE old.count,
                     broken  |-> window[i + 1].index > from /\ breaks,
                     index   |-> IF window[i + 1].index > from /\ breaks
                                 THEN old.index ELSE window[i + 1].index,
                     packets |-> IF window[i + 1].index > from
                                 THEN Append(old.packets, window[i + 1])
                                 ELSE old.packets]
          <6> HIDE DEF old
          <6>1. QED BY <2>2, <3>1, Zenon DEF Pass
        <5>2. breaks \in BOOLEAN
          OBVIOUS
        <5>3. (window[i + 1].index > from /\ breaks) = breaks
          <6> HIDE DEF breaks
          <6>1. QED BY <3>2, <5>2
        <5> HIDE DEF breaks, old
        <5>4. QED BY <3>2, <5>1, <5>3
      <4> HIDE DEF breaks, old
      <4>2. QED BY <3>3, <4>1
    <3>6. CASE i + 1 = full
      <4>1. breaks = TRUE
        BY <3>4, <3>6
      <4>2. i # start - 1 /\ full - 1 = i
        BY <1>1, <2>1, <3>6
      <4>3. i + 1 - start + 1 = BatchLimit + 2
        BY <1>1, <2>1, <3>6 DEF full
      <4> HIDE DEF breaks, old
      <4>4. After(i + 1)
        BY <3>1, <3>5, <3>6, <4>1, <4>2, <4>3 DEF new
      <4>5. ~(i + 1 < start) /\ ~(i + 1 < full)
        BY <1>1, <2>1, <3>6
      <4>6. QED BY <2>1, <4>4, <4>5
    <3>7. CASE i + 1 # full
      <4>1. breaks = FALSE
        BY <3>4, <3>7
      <4>2. i + 1 - start + 1 = (i + 1) - start + 1
        BY <2>1
      <4> HIDE DEF breaks, old
      <4>3. Inside(i + 1)
        BY <3>1, <3>5, <4>1, <4>2 DEF new
      <4>4. ~(i + 1 < start) /\ ~(full <= i + 1)
        BY <1>1, <2>1, <2>6, <3>7
      <4>5. QED BY <2>1, <4>3, <4>4
    <3>8. QED BY <3>6, <3>7
  (* The loop has been left. *)
  <2>7. CASE full <= i
    <3>1. After(i)
      BY <2>4, <2>7
    <3>2. new = old
      BY <2>2, <3>1 DEF Pass
    <3>3. After(i + 1)
      BY <3>1, <3>2 DEF new
    <3>4. ~(i + 1 < start) /\ ~(i + 1 < full)
      BY <1>1, <2>1, <2>7
    <3>5. QED BY <2>1, <3>3, <3>4
  <2>8. i + 1 < start \/ (start <= i + 1 /\ i < full) \/ full <= i
    BY <1>1, <2>1
  <2>9. QED BY <2>5, <2>6, <2>7, <2>8
<1>5. n \in Good
  <2> HIDE DEF Good, n
  <2>1. \A i \in 0..n : i \in Good
    BY <1>1, <1>3, <1>4, IntervalInduction
  <2>2. QED BY <1>1, <2>1
<1>6. /\ n < start => Before(n)
      /\ start <= n /\ n < full => Inside(n)
      /\ full <= n => After(n)
  BY <1>5
<1>7. QED BY <1>2, <1>6

(* GetTsSegFrom is what the loop of GetTsSeg(packet, from) computes, in a
   window whose indices increase. *)
LEMMA FromIsLoop ==
  ASSUME NEW window \in Seq(PacketSet), NEW from \in Nat, NEW unset \in Nat,
         \A i, j \in 1..Len(window) : i < j => window[i].index < window[j].index
  PROVE  GetTsSegFrom(window, from) = FromLoop(window, from, unset)
<1> DEFINE n      == Len(window)
           newer  == {i \in 1..n : window[i].index > from}
           packet == TakeNewer(window, from, unset)
<1>1. n \in Nat /\ BatchLimit \in Nat /\ newer \in SUBSET Nat
  BY PacketWindowAssumption
<1>2. CASE newer = {}
  <2>1. \A i \in 1..n : window[i].index > from <=> n + 1 <= i
    BY <1>1, <1>2
  <2>2. n + 1 \in Nat \ {0} /\ n < n + 1
    BY <1>1
  <2>3. packet.count = 0
    BY <2>1, <2>2, TakeNewerTakes
  <2>4. FromLoop(window, from, unset) = NoSegment
    BY <2>3 DEF FromLoop
  <2>5. GetTsSegFrom(window, from) = NoSegment
    BY <1>2 DEF GetTsSegFrom
  <2>6. QED BY <2>4, <2>5
<1>3. CASE newer # {}
  <2>1. Min(newer) \in newer /\ \A i \in newer : Min(newer) <= i
    <3> HIDE DEF newer
    <3>1. QED BY <1>1, <1>3, MinIsLeast
  <2>2. PICK start \in 1..n : start = Min(newer) /\ window[start].index > from
    BY <2>1
  <2>3. \A i \in 1..n : window[i].index > from <=> start <= i
    <3>1. TAKE i \in 1..n
    <3>2. ASSUME window[i].index > from PROVE start <= i
      <4>1. i \in newer
        BY <3>2
      <4>2. QED BY <2>1, <2>2, <4>1
    <3>3. ASSUME start <= i PROVE window[i].index > from
      <4>1. window[i].index \in Nat /\ window[start].index \in Nat
        BY PacketAt
      <4>2. CASE start = i
        BY <2>2, <4>2
      <4>3. CASE start # i
        <5>1. start < i
          BY <1>1, <3>3, <4>3
        <5>2. window[start].index < window[i].index
          BY <5>1
        <5>3. QED BY <2>2, <4>1, <5>2
      <4>4. QED BY <4>2, <4>3
    <3>4. QED BY <3>2, <3>3
  <2> DEFINE full == start + BatchLimit + 1
  <2>4. /\ start <= n /\ start \in Nat \ {0}
        /\ full \in Nat
    BY <1>1
  <2>5. /\ n < full =>
             /\ packet.count = n - start + 1
             /\ packet.index = window[n].index
             /\ packet.packets = SubSeq(window, start, n)
        /\ full <= n =>
             /\ packet.count = BatchLimit + 2
             /\ packet.index = window[full - 1].index
             /\ packet.packets = SubSeq(window, start, full)
    BY <2>3, <2>4, TakeNewerTakes
  <2>6. GetTsSegFrom(window, from)
          = IF n <= 1 \/ start = n THEN NoSegment ELSE Batch(window, start)
    BY <1>3, <2>2 DEF GetTsSegFrom
  <2>7. FromLoop(window, from, unset)
          = IF n <= 1 \/ packet.count < 2 THEN NoSegment
            ELSE Segment(packet.packets, packet.index)
    BY DEF FromLoop
  <2> HIDE DEF n, packet
  <2>8. CASE n < full
    <3>1. packet.count < 2 <=> start = n
      <4> HIDE DEF full
      <4>1. packet.count = n - start + 1
        BY <2>5, <2>8
      <4>2. QED BY <1>1, <2>4, <4>1
    <3>2. Batch(window, start) = Segment(SubSeq(window, start, n), window[n].index)
      <4>1. ~(full <= n)
        BY <1>1, <2>4, <2>8
      <4>2. QED BY <4>1 DEF Batch, n
    <3> HIDE DEF full
    <3>3. /\ packet.index = window[n].index
          /\ packet.packets = SubSeq(window, start, n)
      BY <2>5, <2>8
    <3>4. Batch(window, start) = Segment(packet.packets, packet.index)
      BY <3>2, <3>3
    <3>5. QED BY <2>6, <2>7, <3>1, <3>4
  <2>9. CASE full <= n
    <3>1. ~(packet.count < 2)
      <4>1. packet.count = BatchLimit + 2
        BY <2>5, <2>9
      <4>2. QED BY <1>1, <4>1
    <3>2. start # n
      BY <1>1, <2>4, <2>9
    <3>3. Batch(window, start)
            = Segment(SubSeq(window, start, full), window[full - 1].index)
      BY <2>9 DEF Batch, n
    <3> HIDE DEF full
    <3>4. /\ packet.index = window[full - 1].index
          /\ packet.packets = SubSeq(window, start, full)
      BY <2>5, <2>9
    <3>5. Batch(window, start) = Segment(packet.packets, packet.index)
      BY <3>3, <3>4
    <3>6. QED BY <2>6, <2>7, <3>1, <3>2, <3>5
  <2>10. n < full \/ full <= n
    BY <1>1, <2>4
  <2>11. QED BY <2>8, <2>9, <2>10
<1>4. QED BY <1>2, <1>3
=============================================================================
