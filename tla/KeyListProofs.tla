--------------------------- MODULE KeyListProofs ---------------------------
(***************************************************************************)
(* What the loop of KeyList leaves, for lists of any length: the keys that *)
(* were there and are not the one taken out, in their order, each as often *)
(* as before.                                                              *)
(***************************************************************************)
EXTENDS KeyList, WellFoundedInduction, TLAPS

(* A set of natural numbers that is not empty has a least element. *)
LEMMA LeastElement ==
  ASSUME NEW S \in SUBSET Nat, S # {}
  PROVE  \E x \in S : \A y \in S : x <= y
<1>1. PICK x \in S : \A y \in S : <<y, x>> \notin OpToRel(<, Nat)
  BY NatLessThanWellFounded, WFMin
<1>2. \A y \in S : x <= y
  <2>1. SUFFICES ASSUME NEW y \in S, ~(x <= y) PROVE FALSE
    OBVIOUS
  <2>2. <<y, x>> \in OpToRel(<, Nat)
    BY <2>1 DEF OpToRel
  <2>3. QED BY <1>1, <2>2
<1>3. QED BY <1>2

(* What the loop has made of the first i keys, from what it had made of the
   keys before. *)
KeepNext(keys, key, f, i) ==
  IF i = 0 THEN <<>>
  ELSE IF keys[i] = key THEN f[i - 1]
  ELSE Append(f[i - 1], keys[i])

IsKept(keys, key, f, n) == \A i \in 0..n : f[i] = KeepNext(keys, key, f, i)

(* The recursive function of Without exists: built for one key more at a
   time. *)
LEMMA KeptExists ==
  ASSUME NEW S, NEW keys \in Seq(S), NEW key
  PROVE  \A n \in 0..Len(keys) :
           \E f \in [0..n -> Seq(S)] : IsKept(keys, key, f, n)
<1> DEFINE Built(m) == \E f \in [0..m -> Seq(S)] : IsKept(keys, key, f, m)
           Bad == {m \in 0..Len(keys) : ~Built(m)}
<1>1. SUFFICES ASSUME Bad # {} PROVE FALSE
  OBVIOUS
<1>2. PICK m \in Bad : \A y \in Bad : m <= y
  <2>1. Bad \in SUBSET Nat
    OBVIOUS
  <2>2. QED BY <1>1, <2>1, LeastElement
<1>3. m \in 0..Len(keys) /\ ~Built(m)
  OBVIOUS
<1>4. CASE m = 0
  <2>1. [i \in 0..0 |-> <<>>] \in [0..0 -> Seq(S)]
    OBVIOUS
  <2>2. \A i \in 0..0 : [j \in 0..0 |-> <<>>][i]
                          = KeepNext(keys, key, [j \in 0..0 |-> <<>>], i)
    BY DEF KeepNext
  <2>3. Built(0)
    BY <2>1, <2>2 DEF IsKept
  <2>4. QED BY <1>3, <1>4, <2>3
<1>5. CASE m # 0
  <2>1. m - 1 \in 0..Len(keys) /\ m - 1 \notin Bad
    <3>1. Len(keys) \in Nat
      OBVIOUS
    <3>2. m - 1 \in 0..Len(keys) /\ ~(m <= m - 1)
      BY <1>3, <1>5, <3>1
    <3>3. m - 1 \in Bad => m <= m - 1
      BY <1>2
    <3>4. QED BY <3>2, <3>3
  <2>2. Built(m - 1)
    BY <2>1
  <2>3. PICK f \in [0..(m - 1) -> Seq(S)] :
          IsKept(keys, key, f, m - 1)
    BY <2>2
  <2> DEFINE g == [i \in 0..m |-> IF i = m THEN KeepNext(keys, key, f, m) ELSE f[i]]
  <2>4. keys[m] \in S /\ f[m - 1] \in Seq(S)
    BY <1>3, <1>5, <2>3
  <2>5. KeepNext(keys, key, f, m) \in Seq(S)
    BY <1>5, <2>4 DEF KeepNext
  <2>6. g \in [0..m -> Seq(S)]
    BY <1>3, <2>3, <2>5
  <2>7. ASSUME NEW i \in 0..m PROVE g[i] = KeepNext(keys, key, g, i)
    <3>1. g[i] = KeepNext(keys, key, f, i)
      BY <1>3, <2>3 DEF IsKept
    <3>2. i # 0 => g[i - 1] = f[i - 1]
      BY <1>3
    <3>3. QED BY <3>1, <3>2 DEF KeepNext
  <2>8. Built(m)
    BY <2>6, <2>7 DEF IsKept
  <2>9. QED BY <1>3, <2>8
<1>6. QED BY <1>4, <1>5

(* ... so Without is its last value. *)
LEMMA WithoutIsKept ==
  ASSUME NEW S, NEW keys \in Seq(S), NEW key
  PROVE  \E f \in [0..Len(keys) -> Seq(S)] :
           /\ IsKept(keys, key, f, Len(keys))
           /\ Without(keys, key) = f[Len(keys)]
<1>1. PICK f \in [0..Len(keys) -> Seq(S)] : IsKept(keys, key, f, Len(keys))
  <2>1. Len(keys) \in 0..Len(keys)
    OBVIOUS
  <2>2. QED BY <2>1, KeptExists
<1> DEFINE kept == CHOOSE g : g = [i \in 0..Len(keys) |->
                     IF i = 0 THEN <<>>
                     ELSE IF keys[i] = key THEN g[i - 1]
                     ELSE Append(g[i - 1], keys[i])]
<1>2. f = [i \in 0..Len(keys) |-> IF i = 0 THEN <<>>
                     ELSE IF keys[i] = key THEN f[i - 1]
                     ELSE Append(f[i - 1], keys[i])]
  BY <1>1 DEF KeepNext, IsKept
<1>3. kept = [i \in 0..Len(keys) |-> IF i = 0 THEN <<>>
                     ELSE IF keys[i] = key THEN kept[i - 1]
                     ELSE Append(kept[i - 1], keys[i])]
  BY <1>2
<1>4. Without(keys, key) = kept[Len(keys)]
  BY DEF Without
(* kept is some such function; any two agree, by the least place where they
   do not. *)
<1>5. \A i \in 0..Len(keys) : kept[i] = f[i]
  <2> DEFINE Differ == {i \in 0..Len(keys) : kept[i] # f[i]}
  <2>1. SUFFICES ASSUME Differ # {} PROVE FALSE
    OBVIOUS
  <2>2. Differ \in SUBSET Nat
    OBVIOUS
  <2>3. PICK m \in Differ : \A y \in Differ : m <= y
    BY <2>1, <2>2, LeastElement
  <2>4. m \in 0..Len(keys) /\ kept[m] # f[m]
    OBVIOUS
  <2>5. kept[m] = KeepNext(keys, key, kept, m)
    BY <1>3, <2>4 DEF KeepNext
  <2>6. f[m] = KeepNext(keys, key, f, m)
    BY <1>1, <2>4 DEF IsKept
  <2>7. m # 0 => kept[m - 1] = f[m - 1]
    <3>1. Len(keys) \in Nat
      OBVIOUS
    <3>2. m # 0 => m - 1 \in 0..Len(keys) /\ ~(m <= m - 1)
      BY <2>4, <3>1
    <3>3. m - 1 \in Differ => m <= m - 1
      BY <2>3
    <3>4. QED BY <3>2, <3>3
  <2>8. QED BY <2>4, <2>5, <2>6, <2>7 DEF KeepNext
<1>6. QED
  <2>1. Len(keys) \in 0..Len(keys)
    OBVIOUS
  <2>2. QED BY <1>1, <1>4, <1>5, <2>1
-----------------------------------------------------------------------------
InList(list, x) == \E i \in 1..Len(list) : list[i] = x

NoneTwice(list) == \A i, j \in 1..Len(list) : list[i] = list[j] => i = j

(* push_back adds one element behind the others. *)
LEMMA AppendKeeps ==
  ASSUME NEW S, NEW list \in Seq(S), NEW e \in S
  PROVE  /\ Append(list, e) \in Seq(S)
         /\ \A x : InList(Append(list, e), x) <=> InList(list, x) \/ x = e
         /\ NoneTwice(list) /\ ~InList(list, e) => NoneTwice(Append(list, e))
<1>1. /\ Append(list, e) \in Seq(S)
      /\ Len(Append(list, e)) = Len(list) + 1
      /\ Append(list, e)[Len(list) + 1] = e
      /\ \A i \in 1..Len(list) : Append(list, e)[i] = list[i]
  OBVIOUS
<1>2. Len(list) \in Nat
  OBVIOUS
<1>3. \A i \in 1..Len(list) + 1 : i \in 1..Len(list) \/ i = Len(list) + 1
  BY <1>2
<1>4. \A i \in 1..Len(list) : i \in 1..Len(list) + 1
  BY <1>2
<1>5. Len(list) + 1 \in 1..Len(list) + 1
  BY <1>2
<1>6. \A x : InList(Append(list, e), x) <=> InList(list, x) \/ x = e
  BY <1>1, <1>3, <1>4, <1>5 DEF InList
<1>7. NoneTwice(list) /\ ~InList(list, e) => NoneTwice(Append(list, e))
  BY <1>1, <1>3 DEF InList, NoneTwice
<1>8. QED BY <1>1, <1>6, <1>7

(* Tail takes the first element away. *)
LEMMA TailKeeps ==
  ASSUME NEW S, NEW list \in Seq(S), list # <<>>
  PROVE  /\ Tail(list) \in Seq(S) /\ Head(list) \in S /\ InList(list, Head(list))
         /\ \A x : InList(Tail(list), x) => InList(list, x)
         /\ NoneTwice(list) => NoneTwice(Tail(list)) /\ ~InList(Tail(list), Head(list))
<1>1. /\ Tail(list) \in Seq(S) /\ Head(list) \in S /\ Head(list) = list[1]
      /\ Len(list) \in Nat \ {0}
      /\ Len(Tail(list)) = Len(list) - 1
      /\ \A i \in 1..Len(list) - 1 : Tail(list)[i] = list[i + 1]
  OBVIOUS
<1>2. 1 \in 1..Len(list) /\ \A i \in 1..Len(list) - 1 : i + 1 \in 1..Len(list)
  BY <1>1
<1>3. InList(list, Head(list)) /\ \A x : InList(Tail(list), x) => InList(list, x)
  BY <1>1, <1>2 DEF InList
<1>4. ASSUME NoneTwice(list) PROVE NoneTwice(Tail(list))
  <2>1. SUFFICES ASSUME NEW i \in 1..Len(list) - 1, NEW j \in 1..Len(list) - 1,
                        list[i + 1] = list[j + 1]
                 PROVE  i = j
    BY <1>1 DEF NoneTwice
  <2>2. i + 1 = j + 1
    BY <1>2, <1>4, <2>1 DEF NoneTwice
  <2>3. QED BY <1>1, <2>2
<1>5. ASSUME NoneTwice(list) PROVE ~InList(Tail(list), Head(list))
  <2>1. SUFFICES ASSUME NEW i \in 1..Len(list) - 1, list[i + 1] = list[1]
                 PROVE  FALSE
    BY <1>1 DEF InList
  <2>2. i + 1 = 1
    BY <1>2, <1>5, <2>1 DEF NoneTwice
  <2>3. QED BY <1>1, <2>2
<1>6. QED BY <1>1, <1>3, <1>4, <1>5

(* The loop takes out the key, and nothing else; and brings nothing twice. *)
LEMMA WithoutKeeps ==
  ASSUME NEW S, NEW keys \in Seq(S), NEW key
  PROVE  /\ Without(keys, key) \in Seq(S)
         /\ \A x : InList(Without(keys, key), x) <=> InList(keys, x) /\ x # key
         /\ NoneTwice(keys) => NoneTwice(Without(keys, key))
<1>1. PICK f \in [0..Len(keys) -> Seq(S)] :
        IsKept(keys, key, f, Len(keys)) /\ Without(keys, key) = f[Len(keys)]
  BY WithoutIsKept
<1>2. Len(keys) \in Nat
  OBVIOUS
<1> DEFINE Before(i, x) == \E h \in 1..i : keys[h] = x
           Right(i) == /\ \A x : InList(f[i], x) <=> Before(i, x) /\ x # key
                       /\ NoneTwice(keys) => NoneTwice(f[i])
           Wrong == {i \in 0..Len(keys) : ~Right(i)}
<1>3. Wrong = {}
  <2>1. SUFFICES ASSUME Wrong # {} PROVE FALSE
    OBVIOUS
  <2>2. Wrong \in SUBSET Nat
    BY <1>2
  <2>3. PICK m \in Wrong : \A y \in Wrong : m <= y
    BY <2>1, <2>2, LeastElement
  <2>4. m \in 0..Len(keys) /\ ~Right(m)
    OBVIOUS
  <2>5. f[m] = KeepNext(keys, key, f, m)
    BY <1>1, <2>4 DEF IsKept
  <2>6. CASE m = 0
    <3>1. f[m] = <<>> /\ Len(f[m]) = 0
      BY <2>5, <2>6 DEF KeepNext
    <3>2. Right(m)
      BY <2>6, <3>1 DEF InList, NoneTwice
    <3>3. QED BY <2>4, <3>2
  <2>7. CASE m # 0
    <3>1. m - 1 \in 0..Len(keys) /\ m \in 1..Len(keys) /\ ~(m <= m - 1)
      BY <1>2, <2>4, <2>7
    <3>2. m - 1 \in Wrong => m <= m - 1
      BY <2>3
    <3>3. Right(m - 1)
      BY <3>1, <3>2
    <3>4. f[m - 1] \in Seq(S) /\ keys[m] \in S
      BY <3>1
    <3>5. \A x : Before(m, x) <=> Before(m - 1, x) \/ keys[m] = x
      <4>1. \A h \in 1..m : h \in 1..m - 1 \/ h = m
        BY <3>1
      <4>2. m \in 1..m /\ \A h \in 1..m - 1 : h \in 1..m
        BY <3>1
      <4>3. QED BY <4>1, <4>2
    <3>6. CASE keys[m] = key
      <4>1. f[m] = f[m - 1]
        BY <2>5, <2>7, <3>6 DEF KeepNext
      <4>2. Right(m)
        BY <3>3, <3>5, <3>6, <4>1
      <4>3. QED BY <2>4, <4>2
    <3>7. CASE keys[m] # key
      <4>1. f[m] = Append(f[m - 1], keys[m])
        BY <2>5, <2>7, <3>7 DEF KeepNext
      <4>2. \A x : InList(f[m], x) <=> InList(f[m - 1], x) \/ x = keys[m]
        BY <3>4, <4>1, AppendKeeps
      <4>3. \A x : InList(f[m], x) <=> Before(m, x) /\ x # key
        BY <3>3, <3>5, <3>7, <4>2
      <4>4. ASSUME NoneTwice(keys) PROVE NoneTwice(f[m])
        <5>1. ~Before(m - 1, keys[m])
          <6>1. SUFFICES ASSUME NEW h \in 1..m - 1, keys[h] = keys[m]
                         PROVE  FALSE
            OBVIOUS
          <6>2. h \in 1..Len(keys) /\ h # m
            BY <1>2, <3>1
          <6>3. QED BY <3>1, <4>4, <6>1, <6>2 DEF NoneTwice
        <5>2. ~InList(f[m - 1], keys[m]) /\ NoneTwice(f[m - 1])
          BY <3>3, <4>4, <5>1
        <5>3. QED BY <3>4, <4>1, <5>2, AppendKeeps
      <4>5. QED BY <2>4, <4>3, <4>4
    <3>8. QED BY <3>6, <3>7
  <2>8. QED BY <2>6, <2>7
<1>4. Len(keys) \in 0..Len(keys)
  BY <1>2
<1>5. Right(Len(keys)) /\ f[Len(keys)] \in Seq(S)
  BY <1>3, <1>4
<1>6. \A x : Before(Len(keys), x) <=> InList(keys, x)
  BY DEF InList
<1>7. QED BY <1>1, <1>5, <1>6
=============================================================================
