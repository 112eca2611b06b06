----------------------- MODULE StreamReceiver_proofs -----------------------
(***************************************************************************)
(* Proofs about the parser that finds the frames of a stream again, for    *)
(* streams of any number of frames, payloads of any size, and pieces no    *)
(* larger than the buffer.                                                 *)
(*                                                                         *)
(* The positions of the frames are computed by recursion.  What is needed  *)
(* of them follows by least counterexamples: a set of numbers that is not  *)
(* empty has a least element (Least), and of the positions where a claim   *)
(* is false there would be a first one.                                    *)
(***************************************************************************)
EXTENDS StreamReceiver, FiniteSetTheorems, WellFoundedInduction, TLAPS

(* Every set of numbers that is not empty has a least element.             *)
LEMMA Least ==
  ASSUME NEW T, T \subseteq Nat, T # {}
  PROVE  \E x \in T : \A y \in T : x <= y
<1> DEFINE R == OpToRel(<, Nat)
<1>1. IsWellFoundedOn(R, Nat)
  BY NatLessThanWellFounded
<1>2. PICK x \in T : \A y \in T : ~(<<y, x>> \in R)
  <2> HIDE DEF R
  <2> QED BY <1>1, WFMin
<1>3. \A a, b \in Nat : a < b => <<a, b>> \in R
  BY DEF R, OpToRel
<1> HIDE DEF R
<1>4. ASSUME NEW y \in T PROVE x <= y
  <2>1. x \in Nat /\ y \in Nat
    OBVIOUS
  <2>2. ~(y < x)
    BY <1>2, <1>3, <2>1
  <2> QED BY <2>1, <2>2
<1> QED BY <1>4

-----------------------------------------------------------------------------
(* Where the frames begin.                                                 *)

(* A function that is computed as Start is, up to position n.              *)
Computes(n, g) ==
  g = [f \in 1 .. n |-> IF f = 1 THEN 0 ELSE g[f - 1] + Header + payload[f - 1]]

(* There is one for every n: if not, extend one for the position before    *)
(* the first for which there is none.                                      *)
LEMMA CanCompute == \A n \in Nat : \E g : Computes(n, g)
<1> DEFINE T == {n \in Nat : ~ \E g : Computes(n, g)}
<1> SUFFICES ASSUME T # {} PROVE FALSE
  OBVIOUS
<1>1. PICK n \in T : \A m \in T : n <= m
  <2> HIDE DEF T
  <2>1. T \subseteq Nat
    BY DEF T
  <2> QED BY <2>1, Least
<1>2. n # 0
  <2> DEFINE g == [f \in 1 .. 0 |-> 0]
  <2>1. Computes(0, g)
    BY DEF Computes
  <2> QED BY <2>1, <1>1
<1>3. PICK g : Computes(n - 1, g)
  <2>1. n - 1 \in Nat /\ ~(n <= n - 1)
    BY <1>2
  <2> QED BY <2>1, <1>1
<1> DEFINE h == [f \in 1 .. n |-> IF f = 1 THEN 0 ELSE g[f - 1] + Header + payload[f - 1]]
<1>4. \A f \in 1 .. n - 1 : h[f] = g[f]
  BY <1>3, <1>2 DEF Computes
<1>5. \A f \in 1 .. n : f # 1 => h[f - 1] = g[f - 1]
  <2> HIDE DEF h
  <2> SUFFICES ASSUME NEW f \in 1 .. n, f # 1 PROVE f - 1 \in 1 .. n - 1
    BY <1>4
  <2> QED BY <1>2
<1>6. h = [f \in 1 .. n |-> IF f = 1 THEN 0 ELSE h[f - 1] + Header + payload[f - 1]]
  BY <1>5
<1>7. Computes(n, h)
  <2> HIDE DEF h
  <2> QED BY <1>6 DEF Computes
<1> QED BY <1>7, <1>1

(* So Start is what its definition says.                                   *)
LEMMA StartComputed ==
  Start = [f \in 1 .. NFrames + 1 |->
             IF f = 1 THEN 0 ELSE Start[f - 1] + Header + payload[f - 1]]
<1>1. NFrames + 1 \in Nat
  BY ReceiverAssumption
<1>2. \E g : g = [f \in 1 .. NFrames + 1 |->
                    IF f = 1 THEN 0 ELSE g[f - 1] + Header + payload[f - 1]]
  BY <1>1, CanCompute DEF Computes
<1> QED BY <1>2 DEF Start

Payloads == payload \in [Frames -> 1 .. MaxPayload]

(* Each frame is as long as its header and its payload.                    *)
LEMMA StartSteps ==
  ASSUME Payloads
  PROVE  /\ Start[1] = 0
         /\ \A f \in 1 .. NFrames + 1 : Start[f] \in Nat
         /\ \A f \in Frames : /\ Start[f] < Start[f + 1]
                              /\ Start[f + 1] = Start[f] + Header + payload[f]
<1>0. NFrames \in Nat /\ Header \in Nat \ {0} /\ MaxPayload \in Nat
  BY ReceiverAssumption
<1>1. Start[1] = 0
  BY <1>0, StartComputed
<1>2. ASSUME NEW f \in Frames
      PROVE  Start[f + 1] = Start[f] + Header + payload[f]
  <2>1. f + 1 \in 1 .. NFrames + 1 /\ f + 1 # 1 /\ (f + 1) - 1 = f
    BY <1>0 DEF Frames
  <2>2. Start[f + 1] = Start[(f + 1) - 1] + Header + payload[(f + 1) - 1]
    BY <2>1, StartComputed
  <2> QED BY <2>1, <2>2
<1> DEFINE T == {f \in 1 .. NFrames + 1 : Start[f] \notin Nat}
<1>3. T = {}
  <2> SUFFICES ASSUME T # {} PROVE FALSE
    OBVIOUS
  <2>1. PICK f \in T : \A g \in T : f <= g
    <3>1. T \subseteq Nat
      BY <1>0
    <3> HIDE DEF T
    <3> QED BY <3>1, Least
  <2>2. f - 1 \in Frames /\ f - 1 \notin T /\ (f - 1) + 1 = f
    BY <2>1, <1>0, <1>1 DEF Frames
  <2>3. Start[f - 1] \in Nat
    BY <2>2, <1>0 DEF Frames
  <2>4. payload[f - 1] \in Nat
    BY <2>2, <1>0 DEF Payloads
  <2>5. Start[f] = Start[f - 1] + Header + payload[f - 1]
    BY <2>2, <1>2
  <2> QED BY <2>3, <2>4, <2>5, <1>0
<1>4. ASSUME NEW f \in Frames
      PROVE  Start[f] < Start[f + 1]
  <2>1. Start[f] \in Nat /\ payload[f] \in 1 .. MaxPayload
    BY <1>3, <1>0 DEF Payloads, Frames
  <2> QED BY <2>1, <1>2, <1>0
<1> QED BY <1>1, <1>2, <1>3, <1>4

(* A later frame begins later.                                             *)
LEMMA StartGrows ==
  ASSUME Payloads,
         NEW i \in 1 .. NFrames + 1, NEW j \in 1 .. NFrames + 1, i < j
  PROVE  Start[i] < Start[j]
<1>0. NFrames \in Nat
  BY ReceiverAssumption
<1> DEFINE T == {k \in 1 .. NFrames + 1 : i < k /\ ~(Start[i] < Start[k])}
<1> SUFFICES ASSUME T # {} PROVE FALSE
  OBVIOUS
<1>1. PICK k \in T : \A g \in T : k <= g
  <2>1. T \subseteq Nat
    BY <1>0
  <2> HIDE DEF T
  <2> QED BY <2>1, Least
<1>2. k - 1 \in Frames /\ (k - 1) + 1 = k /\ k - 1 \in 1 .. NFrames + 1
  BY <1>0, <1>1 DEF Frames
<1>3. Start[k - 1] < Start[k]
  BY <1>2, StartSteps
<1>4. k - 1 \notin T
  BY <1>1, <1>2
<1>5. Start[i] <= Start[k - 1]
  <2>1. CASE i = k - 1
    BY <2>1, <1>2, StartSteps
  <2>2. CASE i < k - 1
    BY <2>2, <1>2, <1>4, StartSteps
  <2> QED BY <2>1, <2>2, <1>0, <1>1
<1> QED BY <1>1, <1>2, <1>3, <1>5, StartSteps

LEMMA StartOrder ==
  ASSUME Payloads,
         NEW i \in 1 .. NFrames + 1, NEW j \in 1 .. NFrames + 1
  PROVE  /\ i <= j => Start[i] <= Start[j]
         /\ Start[i] <= Length
         /\ Start[i] = Start[j] => i = j
<1>0. NFrames \in Nat /\ NFrames + 1 \in 1 .. NFrames + 1
  BY ReceiverAssumption
<1>1. \A k \in 1 .. NFrames + 1 : Start[k] \in Nat
  BY StartSteps
<1>2. \A k, l \in 1 .. NFrames + 1 : k <= l => Start[k] <= Start[l]
  <2> SUFFICES ASSUME NEW k \in 1 .. NFrames + 1, NEW l \in 1 .. NFrames + 1, k <= l
               PROVE  Start[k] <= Start[l]
    OBVIOUS
  <2>1. CASE k = l
    BY <2>1, <1>1
  <2>2. CASE k < l
    BY <2>2, <1>1, StartGrows
  <2> QED BY <2>1, <2>2, <1>0
<1>3. Start[i] <= Length
  BY <1>0, <1>2 DEF Length
<1>4. Start[i] = Start[j] => i = j
  <2>1. i < j => Start[i] < Start[j]
    BY StartGrows
  <2>2. j < i => Start[j] < Start[i]
    BY StartGrows
  <2> QED BY <2>1, <2>2, <1>0, <1>1
<1> QED BY <1>2, <1>3, <1>4

-----------------------------------------------------------------------------
(* What is parsed of a stretch.                                            *)

(* A stretch that begins with frame k is parsed up to some frame m, the    *)
(* last that ends in it, and parsing goes on behind m.                     *)
LEMMA ParsedUpTo ==
  ASSUME Payloads, NEW k \in 1 .. NFrames + 1, NEW to \in Nat, Start[k] <= to
  PROVE  \E m \in k - 1 .. NFrames :
           /\ {f \in Frames : Start[k] <= Start[f] /\ Start[f + 1] <= to} = k .. m
           /\ Start[m + 1] <= to
           /\ m < NFrames => to < Start[m + 2]
<1>0. NFrames \in Nat
  BY ReceiverAssumption
<1> DEFINE T == {j \in k .. NFrames + 1 : j = NFrames + 1 \/ to < Start[j + 1]}
<1>1. PICK j \in T : \A g \in T : j <= g
  <2>1. T \subseteq Nat /\ NFrames + 1 \in T
    BY <1>0
  <2> HIDE DEF T
  <2> QED BY <2>1, Least
<1> DEFINE m == j - 1
<1>2. m \in k - 1 .. NFrames /\ m + 1 = j /\ m + 2 = j + 1
  BY <1>0
<1>3. m < NFrames => to < Start[m + 2]
  BY <1>0, <1>2, <1>1
<1>4. ASSUME NEW f \in k .. m PROVE Start[f + 1] <= to
  <2>1. f \in k .. NFrames + 1 /\ ~(j <= f)
    BY <1>0, <1>2
  <2>2. f \notin T
    BY <2>1, <1>1
  <2>3. f # NFrames + 1 /\ ~(to < Start[f + 1])
    BY <2>1, <2>2
  <2>4. f + 1 \in 1 .. NFrames + 1
    BY <2>1, <2>3, <1>0
  <2> QED BY <2>3, <2>4, StartSteps
<1>5. Start[m + 1] <= to
  <2>1. CASE m = k - 1
    BY <2>1, <1>0
  <2>2. CASE m \in k .. m
    BY <2>2, <1>4
  <2> QED BY <2>1, <2>2, <1>0, <1>2
<1>6. ASSUME NEW f \in Frames, Start[k] <= Start[f], Start[f + 1] <= to
      PROVE  f \in k .. m
  <2>0. f \in 1 .. NFrames + 1 /\ f + 1 \in 1 .. NFrames + 1
    BY <1>0 DEF Frames
  <2>1. k <= f
    <3>1. f < k => Start[f] < Start[k]
      BY <2>0, StartGrows
    <3> QED BY <2>0, <3>1, <1>6, <1>0, StartSteps
  <2>2. f <= m
    <3> SUFFICES ASSUME m < f PROVE FALSE
      BY <2>0, <1>2, <1>0
    <3>1. m < NFrames /\ m + 2 \in 1 .. NFrames + 1 /\ m + 2 <= f + 1
      BY <2>0, <1>2, <1>0 DEF Frames
    <3>2. Start[m + 2] <= Start[f + 1]
      BY <3>1, <2>0, StartOrder
    <3>3. Start[m + 2] \in Nat /\ Start[f + 1] \in Nat
      BY <3>1, <2>0, StartSteps
    <3> QED BY <3>1, <3>2, <3>3, <1>3, <1>6
  <2> QED BY <2>0, <2>1, <2>2, <1>2, <1>0
<1>7. ASSUME NEW f \in k .. m
      PROVE  f \in Frames /\ Start[k] <= Start[f] /\ Start[f + 1] <= to
  <2>1. f \in Frames /\ f \in 1 .. NFrames + 1 /\ k <= f
    BY <1>2, <1>0 DEF Frames
  <2> QED BY <2>1, <1>4, StartOrder
<1>8. {f \in Frames : Start[k] <= Start[f] /\ Start[f + 1] <= to} = k .. m
  <2> HIDE DEF m
  <2> QED BY <1>6, <1>7
<1> QED BY <1>2, <1>3, <1>5, <1>8

LEMMA ParsedStretch ==
  ASSUME Payloads, NEW k \in Frames, NEW to \in Nat, Start[k] <= to
  PROVE  \E m \in k - 1 .. NFrames :
           /\ Parsed(Start[k], to) = k .. m
           /\ Resume(Start[k], to) = Start[m + 1]
           /\ Start[m + 1] <= to
           /\ m < NFrames => to < Start[m + 2]
<1>0. NFrames \in Nat /\ k \in 1 .. NFrames + 1
  BY ReceiverAssumption DEF Frames
<1>1. IsStart(Start[k])
  BY DEF IsStart
<1>2. PICK m \in k - 1 .. NFrames :
           /\ {f \in Frames : Start[k] <= Start[f] /\ Start[f + 1] <= to} = k .. m
           /\ Start[m + 1] <= to
           /\ m < NFrames => to < Start[m + 2]
  BY <1>0, ParsedUpTo
<1>3. Parsed(Start[k], to) = k .. m
  BY <1>1, <1>2 DEF Parsed
<1> DEFINE X == {Start[k]} \cup {Start[f + 1] : f \in k .. m}
           LastOf(x) == \A f \in k .. m : Start[f + 1] <= x
<1>4. Resume(Start[k], to) = CHOOSE x \in X : LastOf(x)
  BY <1>1, <1>3 DEF Resume
<1>5. m + 1 \in 1 .. NFrames + 1
  BY <1>0
<1>6. Start[m + 1] \in X /\ LastOf(Start[m + 1])
  <2>1. Start[m + 1] \in X
    <3>1. CASE m = k - 1
      BY <3>1, <1>0
    <3>2. CASE m \in k .. m
      BY <3>2
    <3> QED BY <3>1, <3>2, <1>0
  <2>2. ASSUME NEW f \in k .. m PROVE Start[f + 1] <= Start[m + 1]
    <3>1. f + 1 \in 1 .. NFrames + 1 /\ f + 1 <= m + 1
      BY <1>0
    <3> QED BY <3>1, <1>5, StartOrder
  <2> QED BY <2>1, <2>2
<1>7. ASSUME NEW x \in X, LastOf(x) PROVE x = Start[m + 1]
  <2>1. CASE m = k - 1
    <3>1. X = {Start[k]} /\ m + 1 = k
      BY <2>1, <1>0
    <3> QED BY <3>1
  <2>2. CASE m \in k .. m
    <3>1. Start[m + 1] <= x
      BY <2>2, <1>7
    <3>2. PICK g \in 1 .. NFrames + 1 : x = Start[g] /\ g <= m + 1
      <4>1. CASE x = Start[k]
        BY <4>1, <1>0
      <4>2. CASE \E f \in k .. m : x = Start[f + 1]
        <5>1. PICK f \in k .. m : x = Start[f + 1]
          BY <4>2
        <5>2. f + 1 \in 1 .. NFrames + 1 /\ f + 1 <= m + 1
          BY <1>0
        <5> QED BY <5>1, <5>2
      <4> QED BY <4>1, <4>2
    <3>3. x <= Start[m + 1]
      BY <3>2, <1>5, StartOrder
    <3>4. x \in Nat /\ Start[m + 1] \in Nat
      BY <3>2, <1>5, StartSteps
    <3> QED BY <3>1, <3>3, <3>4
  <2> QED BY <2>1, <2>2, <1>0
<1>8. (CHOOSE x \in X : LastOf(x)) = Start[m + 1]
  <2> HIDE DEF X, LastOf
  <2> QED BY <1>6, <1>7
<1> QED BY <1>2, <1>3, <1>4, <1>8

(* The frames of an interval in order are the interval, from k on: a first *)
(* place whose frame is too early cannot be, nor one, from the end, whose  *)
(* frame is too late.                                                      *)
LEMMA IntervalInOrder ==
  ASSUME NEW k \in Nat \ {0}, NEW m \in Nat, k - 1 <= m
  PROVE  InOrder(k .. m) = [i \in 1 .. m - k + 1 |-> k + i - 1]
<1> DEFINE n == m - k + 1
           Up == [i \in 1 .. n |-> k + i - 1]
           Grows(s) == \A i, j \in DOMAIN s : i < j => s[i] < s[j]
<1>0. n \in Nat /\ m = k + n - 1
  OBVIOUS
<1>1. Cardinality(k .. m) = n
  <2>1. Cardinality(k .. m) = IF k > m THEN 0 ELSE m - k + 1
    BY FS_Interval
  <2> QED BY <2>1
<1>2. Up \in [1 .. n -> k .. m] /\ Grows(Up)
  OBVIOUS
<1>3. ASSUME NEW s \in [1 .. n -> k .. m], Grows(s)
      PROVE  s = Up
  <2> HIDE DEF n
  <2>0. \A i \in 1 .. n : s[i] \in k .. m
    OBVIOUS
  <2>1. \A i \in 1 .. n : k + i - 1 <= s[i]
    <3> DEFINE T == {i \in 1 .. n : ~(k + i - 1 <= s[i])}
    <3> SUFFICES ASSUME T # {} PROVE FALSE
      OBVIOUS
    <3>1. PICK i \in T : \A g \in T : i <= g
      <4>1. T \subseteq Nat
        BY <1>0
      <4> HIDE DEF T
      <4> QED BY <4>1, Least
    <3>2. i # 1
      BY <3>1, <2>0, <1>0
    <3>3. i - 1 \in 1 .. n /\ i - 1 \notin T
      BY <3>1, <3>2, <1>0
    <3>4. k + (i - 1) - 1 <= s[i - 1]
      BY <3>3
    <3>5. s[i - 1] < s[i]
      BY <3>3, <1>3, <1>0
    <3> QED BY <3>1, <3>3, <3>4, <3>5, <2>0, <1>0
  <2>2. \A i \in 1 .. n : s[i] <= k + i - 1
    <3> DEFINE T == {d \in 0 .. n - 1 : ~(s[n - d] <= k + (n - d) - 1)}
    <3> SUFFICES ASSUME T # {} PROVE FALSE
      <4>1. T = {}
        OBVIOUS
      <4>2. ASSUME NEW i \in 1 .. n PROVE s[i] <= k + i - 1
        <5>1. n - i \in 0 .. n - 1 /\ n - (n - i) = i
          BY <1>0
        <5>2. n - i \notin T
          BY <4>1
        <5> HIDE DEF T
        <5>3. s[n - (n - i)] <= k + (n - (n - i)) - 1
          BY <5>1, <5>2 DEF T
        <5> QED BY <5>1, <5>3
      <4> QED BY <4>2
    <3>1. PICK d \in T : \A g \in T : d <= g
      <4>1. T \subseteq Nat
        BY <1>0
      <4> HIDE DEF T
      <4> QED BY <4>1, Least
    <3>2. d # 0
      <4>1. CASE n = 0
        BY <4>1
      <4>2. CASE n # 0
        <5>1. n \in 1 .. n /\ n - 0 = n
          BY <4>2, <1>0
        <5>2. s[n] <= k + n - 1
          BY <5>1, <2>0, <1>0
        <5> QED BY <3>1, <5>1, <5>2
      <4> QED BY <4>1, <4>2
    <3>3. d - 1 \in 0 .. n - 1 /\ d - 1 \notin T
      <4>1. d \in 0 .. n - 1
        OBVIOUS
      <4>2. d - 1 \in 0 .. n - 1 /\ ~(d <= d - 1)
        BY <4>1, <3>2, <1>0
      <4> HIDE DEF T
      <4> QED BY <4>2, <3>1
    <3>4. s[n - (d - 1)] <= k + (n - (d - 1)) - 1
      BY <3>3
    <3>5. n - d \in 1 .. n /\ n - (d - 1) \in 1 .. n /\ n - d < n - (d - 1)
      BY <3>3, <1>0
    <3>6. s[n - d] < s[n - (d - 1)]
      BY <3>5, <1>3
    <3>7. s[n - d] \in Nat /\ s[n - (d - 1)] \in Nat
      BY <3>5, <2>0
    <3> QED BY <3>1, <3>3, <3>4, <3>6, <3>7, <1>0
  <2>3. ASSUME NEW i \in 1 .. n PROVE s[i] = k + i - 1
    <3>1. s[i] \in Nat /\ i \in Nat
      BY <2>0
    <3> QED BY <3>1, <2>1, <2>2
  <2> QED BY <2>3
<1>4. InOrder(k .. m) = CHOOSE s \in [1 .. n -> k .. m] : Grows(s)
  BY <1>1 DEF InOrder
<1> HIDE DEF n, Up, Grows
<1>5. InOrder(k .. m) = Up
  BY <1>2, <1>3, <1>4
<1> QED BY <1>5 DEF Up, n

-----------------------------------------------------------------------------
(* The inductive invariant.                                                *)

Ascending == \A i, j \in DOMAIN delivered : i < j => delivered[i] < delivered[j]

(* What was passed on ends before the stretch in the buffer begins.        *)
PassedBefore == \A i \in DOMAIN delivered : Start[delivered[i] + 1] <= From

(* A parser that was made for a piece has an empty buffer.                 *)
Dropped == ~kept => pos = 0

(* A parser that is kept and has refused nothing has passed on all frames  *)
(* before the stretch in the buffer.  Unless the last piece did not fit,   *)
(* the first one in the buffer is not complete.                            *)
Complete ==
  kept /\ ~refused =>
    /\ \A i \in DOMAIN delivered : delivered[i] = i
    /\ From = Start[Len(delivered) + 1]
    /\ ~split /\ Len(delivered) < NFrames => read < Start[Len(delivered) + 2]

ReceiverInv == Ascending /\ PassedBefore /\ Dropped /\ Complete

LEMMA Sizes ==
  /\ bufSize \in Nat /\ kept \in BOOLEAN
  /\ bufSize > 0 => bufSize = BufSize
BY ReceiverAssumption DEF bufSize, kept

LEMMA InitReceiver == Init => TypeOK /\ ReceiverInv
<1> SUFFICES ASSUME Init PROVE TypeOK /\ ReceiverInv
  OBVIOUS
<1>0. NFrames \in Nat /\ bufSize \in Nat /\ MaxPiece \in Nat
      /\ 1 \in 1 .. NFrames + 1 /\ NFrames + 1 \in 1 .. NFrames + 1
  BY ReceiverAssumption, Sizes
<1>1. Payloads
  BY DEF Init, Payloads
<1>2. Start[1] = 0 /\ Length \in Nat
  BY <1>0, <1>1, StartSteps DEF Length
<1>3. TypeOK
  <2>1. read \in 0 .. Length /\ base \in 0 .. Length /\ pos \in 0 .. bufSize + MaxPiece
        /\ ~(pos > bufSize)
    BY <1>0, <1>2 DEF Init
  <2>2. /\ user \in Users /\ refused \in BOOLEAN /\ split \in BOOLEAN
        /\ payload \in [Frames -> 1 .. MaxPayload]
    BY Zenon DEF Init
  <2>3. delivered \in Seq(Frames) /\ ~(pos > 0)
    BY DEF Init
  <2> QED BY <2>1, <2>2, <2>3 DEF TypeOK
<1>4. 0 < NFrames => 0 < Start[2]
  <2> SUFFICES ASSUME 0 < NFrames PROVE 0 < Start[2]
    OBVIOUS
  <2>1. 1 \in Frames /\ 1 + 1 = 2
    BY <1>0 DEF Frames
  <2> QED BY <2>1, <1>1, <1>2, StartSteps
<1>5. From = 0 /\ Len(delivered) = 0 /\ DOMAIN delivered = {}
  BY DEF Init, From
<1> QED BY <1>2, <1>3, <1>4, <1>5
        DEF Init, ReceiverInv, Ascending, PassedBefore, Dropped, Complete

(* Positions do not move, and the user is the same.                        *)
LEMMA StartStays ==
  ASSUME UNCHANGED <<user, payload>>
  PROVE  /\ Start' = Start /\ Length' = Length
         /\ bufSize' = bufSize /\ (kept' <=> kept)
<1>1. Start' = Start
  BY DEF Start
<1> QED BY <1>1 DEF Length, bufSize, kept

(* What Deliver appends, when the frames are those from k to m and all     *)
(* before them ended in time.                                              *)
LEMMA Appended ==
  ASSUME TypeOK, ReceiverInv, NEW k \in Frames, NEW m \in k - 1 .. NFrames,
         From = Start[k], Deliver(k .. m)
  PROVE  /\ delivered' \in Seq(Frames)
         /\ Len(delivered') = Len(delivered) + (m - k + 1)
         /\ \A i \in 1 .. Len(delivered) :
              delivered'[i] = delivered[i] /\ delivered[i] < k
         /\ \A i \in Len(delivered) + 1 .. Len(delivered') :
              delivered'[i] = k + (i - Len(delivered)) - 1
<1>0. NFrames \in Nat /\ k \in Nat \ {0} /\ m \in Nat /\ k \in 1 .. NFrames + 1 /\ Payloads
  BY ReceiverAssumption DEF Frames, TypeOK, Payloads
<1> DEFINE new == [i \in 1 .. m - k + 1 |-> k + i - 1]
<1>1. delivered' = delivered \o new
  <2>1. InOrder(k .. m) = new
    <3> HIDE DEF new
    <3>1. k - 1 <= m
      BY <1>0
    <3> QED BY <1>0, <3>1, IntervalInOrder DEF new
  <2> QED BY <2>1 DEF Deliver
<1>2. new \in Seq(Frames) /\ Len(new) = m - k + 1
  <2>1. m - k + 1 \in Nat /\ \A i \in 1 .. m - k + 1 : k + i - 1 \in Frames
    BY <1>0 DEF Frames
  <2> QED BY <2>1
<1>3. delivered \in Seq(Frames)
  BY DEF TypeOK
<1>4. ASSUME NEW i \in 1 .. Len(delivered) PROVE delivered[i] < k
  <2>1. delivered[i] \in Frames
    BY <1>3
  <2>2. /\ delivered[i] + 1 \in 1 .. NFrames + 1 /\ delivered[i] \in 1 .. NFrames + 1
        /\ Start[delivered[i] + 1] <= Start[k]
    BY <2>1, <1>3, <1>0 DEF Frames, ReceiverInv, PassedBefore
  <2>3. ~(k < delivered[i] + 1)
    <3>1. k < delivered[i] + 1 => Start[k] < Start[delivered[i] + 1]
      BY <2>2, <1>0, StartGrows
    <3>2. /\ \A f \in 1 .. NFrames + 1 : Start[f] \in Nat
          /\ delivered[i] + 1 \in 1 .. NFrames + 1
      BY <2>2, <1>0, StartSteps
    <3>3. Start[delivered[i] + 1] \in Nat /\ Start[k] \in Nat
      BY <3>2, <1>0
    <3> QED BY <3>1, <3>3, <2>2
  <2> QED BY <2>1, <2>3, <1>0 DEF Frames
<1> HIDE DEF new
<1>5. /\ delivered' \in Seq(Frames)
      /\ Len(delivered') = Len(delivered) + (m - k + 1)
      /\ \A i \in 1 .. Len(delivered) : delivered'[i] = delivered[i]
  BY <1>1, <1>2, <1>3
<1>6. ASSUME NEW i \in Len(delivered) + 1 .. Len(delivered')
      PROVE  delivered'[i] = k + (i - Len(delivered)) - 1
  <2>0. Len(delivered) \in Nat
    BY <1>3
  <2>1. i - Len(delivered) \in 1 .. m - k + 1
    BY <2>0, <1>5, <1>0
  <2>2. delivered'[i] = new[i - Len(delivered)]
    BY <2>0, <2>1, <1>1, <1>2, <1>3
  <2> QED BY <2>1, <2>2 DEF new
<1> QED BY <1>4, <1>5, <1>6

(* Taking a piece, of which the stretch up to position to is parsed.       *)
LEMMA TakesUpTo ==
  ASSUME TypeOK, ReceiverInv, NEW n \in 1 .. MaxPiece, NEW to \in Nat,
         From <= to, to <= read + n, read + n <= Length,
         read' = read + n, UNCHANGED <<user, payload>>, CanTake(n),
         Deliver(Parsed(From, to)), Leave(Resume(From, to), read + n)
  PROVE  \E k \in Frames : \E m \in k - 1 .. NFrames :
           /\ From = Start[k]
           /\ Start[k] \in Nat /\ Start[m + 1] \in Nat
           /\ Start[k] <= Start[m + 1]
           /\ Start[m + 1] <= to
           /\ m < NFrames => to < Start[m + 2] /\ Start[m + 2] = Start[m + 1] + Header + payload[m + 1]
           /\ Parsed(From, to) = k .. m
           /\ Deliver(k .. m)
           /\ base' = Start[m + 1]
           /\ pos' = IF kept THEN (read + n) - Start[m + 1] ELSE 0
           /\ From' = IF kept THEN Start[m + 1] ELSE read + n
<1>0. NFrames \in Nat /\ Payloads
  BY ReceiverAssumption DEF TypeOK, Payloads
<1>1. PICK k \in Frames : From = Start[k]
  BY DEF CanTake, From, IsStart, TypeOK
<1>2. PICK m \in k - 1 .. NFrames :
           /\ Parsed(Start[k], to) = k .. m
           /\ Resume(Start[k], to) = Start[m + 1]
           /\ Start[m + 1] <= to
           /\ m < NFrames => to < Start[m + 2]
  BY <1>0, <1>1, ParsedStretch
<1>3. k \in 1 .. NFrames + 1 /\ m + 1 \in 1 .. NFrames + 1 /\ k <= m + 1
  BY <1>0 DEF Frames
<1>4. Start[k] \in Nat /\ Start[m + 1] \in Nat /\ Start[k] <= Start[m + 1]
  BY <1>0, <1>3, StartSteps, StartOrder
<1>5. m < NFrames => Start[m + 2] = Start[m + 1] + Header + payload[m + 1]
  <2> SUFFICES ASSUME m < NFrames PROVE Start[m + 2] = Start[m + 1] + Header + payload[m + 1]
    OBVIOUS
  <2>1. m + 1 \in Frames /\ (m + 1) + 1 = m + 2
    BY <1>3, <1>0 DEF Frames
  <2> QED BY <2>1, <1>0, StartSteps
<1>6. base' = Start[m + 1] /\ pos' = IF kept THEN (read + n) - Start[m + 1] ELSE 0
  <2>1. Resume(From, to) = Start[m + 1]
    BY <1>1, <1>2
  <2>2. base' = Resume(From, to) /\ pos' = IF kept THEN (read + n) - Resume(From, to) ELSE 0
    BY DEF Leave
  <2> QED BY <2>1, <2>2
<1>7. read \in Nat /\ n \in Nat
  BY <1>0, ReceiverAssumption, StartSteps DEF TypeOK, Length
<1>8. From' = IF kept THEN Start[m + 1] ELSE read + n
  BY <1>4, <1>6, <1>7 DEF From
<1> QED BY <1>1, <1>2, <1>3, <1>4, <1>5, <1>6, <1>8

(* What every step of taking a piece needs to be known: the buffer holds   *)
(* what comes behind the frames that were parsed, and it holds it whole.   *)
LEMMA TakesRoom ==
  ASSUME TypeOK, ReceiverInv, NEW n \in 1 .. MaxPiece, read + n <= Length,
         read' = read + n, UNCHANGED <<user, payload>>, Take(n) \/ TakeSplit(n)
  PROVE  \E to \in Nat :
           /\ From <= to /\ to <= read + n
           /\ split' = FALSE => to = read + n
           /\ split' = TRUE => read + n <= to + MaxPiece - 1 /\ to < read + n
           /\ split' \in BOOLEAN
           /\ pos < bufSize
           /\ pos + n <= bufSize \/ split' = TRUE
           /\ Deliver(Parsed(From, to))
           /\ Leave(Resume(From, to), read + n)
<1>0. read \in Nat /\ base \in Nat /\ pos \in Nat /\ n \in Nat
      /\ bufSize \in Nat /\ MaxPiece \in Nat /\ n <= MaxPiece
  <2>1. Length \in Nat
    BY ReceiverAssumption, StartSteps DEF TypeOK, Payloads, Length
  <2>2. bufSize \in Nat /\ MaxPiece \in Nat
    BY Sizes, ReceiverAssumption
  <2> QED BY <2>1, <2>2 DEF TypeOK
<1>1. From \in Nat /\ From + pos = read
  BY <1>0 DEF From, TypeOK
<1>2. CASE Take(n)
  <2>1. read + n \in Nat /\ From <= read + n
    BY <1>0, <1>1
  <2>2. /\ pos + n <= bufSize /\ split' = FALSE /\ pos < bufSize
        /\ Deliver(Parsed(From, read + n))
        /\ Leave(Resume(From, read + n), read + n)
    BY <1>2 DEF Take, CanTake
  <2>3. split' # TRUE /\ split' \in BOOLEAN
    BY <2>2
  <2>4. read + n <= read + n
    BY <2>1
  <2> QED BY <2>1, <2>2, <2>3, <2>4, Zenon
<1>3. CASE TakeSplit(n)
  <2> DEFINE to == From + bufSize
  <2>1. /\ pos < bufSize /\ pos + n > bufSize /\ split' = TRUE
        /\ Deliver(Parsed(From, to))
        /\ Leave(Resume(From, to), read + n)
    BY <1>3 DEF TakeSplit, CanTake
  <2>2. to \in Nat /\ From <= to /\ to < read + n /\ read + n <= to + MaxPiece - 1
    BY <2>1, <1>0, <1>1
  <2> QED BY <2>1, <2>2
<1> QED BY <1>2, <1>3

LEMMA TakeReceiver ==
  ASSUME TypeOK, ReceiverInv, NEW n \in 1 .. MaxPiece, read + n <= Length,
         read' = read + n, UNCHANGED <<user, payload>>, Take(n) \/ TakeSplit(n)
  PROVE  TypeOK' /\ ReceiverInv'
<1>0. /\ NFrames \in Nat /\ Payloads /\ MaxPiece \in Nat /\ bufSize \in Nat
      /\ Header \in Nat /\ n <= MaxPiece
  BY ReceiverAssumption, Sizes DEF TypeOK, Payloads
<1>1. PICK to \in Nat :
           /\ From <= to /\ to <= read + n
           /\ split' = FALSE => to = read + n
           /\ split' = TRUE => read + n <= to + MaxPiece - 1 /\ to < read + n
           /\ split' \in BOOLEAN
           /\ pos < bufSize
           /\ pos + n <= bufSize \/ split' = TRUE
           /\ Deliver(Parsed(From, to))
           /\ Leave(Resume(From, to), read + n)
  BY TakesRoom
<1>2. CanTake(n) /\ refused' = refused
  BY DEF Take, TakeSplit
<1>3. PICK k \in Frames : \E m \in k - 1 .. NFrames :
           /\ From = Start[k]
           /\ Start[k] \in Nat /\ Start[m + 1] \in Nat
           /\ Start[k] <= Start[m + 1]
           /\ Start[m + 1] <= to
           /\ m < NFrames => to < Start[m + 2] /\ Start[m + 2] = Start[m + 1] + Header + payload[m + 1]
           /\ Parsed(From, to) = k .. m
           /\ Deliver(k .. m)
           /\ base' = Start[m + 1]
           /\ pos' = IF kept THEN (read + n) - Start[m + 1] ELSE 0
           /\ From' = IF kept THEN Start[m + 1] ELSE read + n
  BY <1>1, <1>2, TakesUpTo
<1>4. PICK m \in k - 1 .. NFrames :
           /\ From = Start[k]
           /\ Start[k] \in Nat /\ Start[m + 1] \in Nat
           /\ Start[k] <= Start[m + 1]
           /\ Start[m + 1] <= to
           /\ m < NFrames => to < Start[m + 2] /\ Start[m + 2] = Start[m + 1] + Header + payload[m + 1]
           /\ Deliver(k .. m)
           /\ base' = Start[m + 1]
           /\ pos' = IF kept THEN (read + n) - Start[m + 1] ELSE 0
           /\ From' = IF kept THEN Start[m + 1] ELSE read + n
  BY <1>3
<1>5. Start' = Start /\ Length' = Length /\ bufSize' = bufSize /\ (kept' <=> kept)
  BY StartStays
<1>6. /\ read \in Nat /\ base \in Nat /\ pos \in Nat /\ n \in Nat
      /\ Length \in Nat /\ From + pos = read /\ kept \in BOOLEAN
      /\ k \in Nat \ {0} /\ m \in Nat /\ k - 1 <= m /\ m <= NFrames
      /\ m + 1 \in 1 .. NFrames + 1
  <2>1. Length \in Nat
    BY <1>0, StartSteps DEF Length
  <2>2. read \in Nat /\ base \in Nat /\ pos \in Nat /\ n \in Nat
    BY <2>1, <1>0 DEF TypeOK
  <2>3. From + pos = read
    BY <2>2 DEF From, TypeOK
  <2>4. kept \in BOOLEAN
    BY Sizes
  <2> QED BY <2>1, <2>2, <2>3, <2>4, <1>0 DEF Frames
<1>7. m = NFrames => Start[m + 1] = read + n
  <2> SUFFICES ASSUME m = NFrames PROVE Start[m + 1] = read + n
    OBVIOUS
  <2>1. Start[m + 1] = Length
    BY DEF Length
  <2> QED BY <2>1, <1>1, <1>4, <1>6
<1>8. (read + n) - Start[m + 1] \in 0 .. bufSize + MaxPiece
  <2>1. read = Start[k] + pos /\ Start[k] <= Start[m + 1] /\ Start[m + 1] <= read + n
    BY <1>1, <1>4, <1>6
  <2>2. pos < bufSize /\ n <= MaxPiece
    BY <1>0, <1>1
  <2>3. /\ Start[k] \in Nat /\ Start[m + 1] \in Nat /\ read \in Nat /\ pos \in Nat
        /\ n \in Nat /\ bufSize \in Nat /\ MaxPiece \in Nat
    BY <1>0, <1>4, <1>6
  <2> QED BY <2>1, <2>2, <2>3
<1>8a. ASSUME pos' > bufSize
       PROVE  m + 1 \in Frames /\ TooLong(m + 1)
  <2>1. pos' = (read + n) - Start[m + 1] /\ split' = TRUE
    <3>1. pos' # 0
      BY <1>8a, <1>0
    <3>2. pos' = (read + n) - Start[m + 1]
      BY <3>1, <1>4
    <3>3. ~(pos + n <= bufSize)
      BY <3>2, <1>8a, <1>0, <1>1, <1>4, <1>6
    <3> QED BY <3>2, <3>3, <1>1
  <2>2. m < NFrames
    BY <2>1, <1>7, <1>0, <1>1, <1>4, <1>6
  <2>3. m + 1 \in Frames /\ payload[m + 1] \in Nat
    <3>1. m + 1 \in Frames
      BY <2>2, <1>0, <1>6 DEF Frames
    <3> QED BY <3>1, <1>0, ReceiverAssumption DEF Payloads
  <2>4. bufSize = BufSize
    BY <1>0, <1>1, <1>6, Sizes
  <2>5. to < Start[m + 1] + Header + payload[m + 1]
    BY <2>2, <1>4
  <2>6. read + n <= to + MaxPiece - 1
    BY <2>1, <1>1
  <2>7. Header + payload[m + 1] + MaxPiece > bufSize + 2
    <3>1. /\ Start[m + 1] \in Nat /\ read + n \in Nat /\ MaxPiece \in Nat
          /\ bufSize \in Nat /\ Header \in Nat
      BY <1>0, <1>4, <1>6
    <3>2. (read + n) - Start[m + 1] > bufSize
      BY <2>1, <1>8a
    <3> QED BY <2>3, <2>5, <2>6, <3>1, <3>2
  <2> QED BY <2>3, <2>4, <2>7 DEF TooLong
<1>9. /\ delivered' \in Seq(Frames)
      /\ Len(delivered') = Len(delivered) + (m - k + 1)
      /\ \A i \in 1 .. Len(delivered) :
           delivered'[i] = delivered[i] /\ delivered[i] < k
      /\ \A i \in Len(delivered) + 1 .. Len(delivered') :
           delivered'[i] = k + (i - Len(delivered)) - 1
  BY <1>4, Appended
<1>10. Len(delivered) \in Nat /\ delivered \in Seq(Frames)
  BY DEF TypeOK
<1>11. ASSUME NEW i \in 1 .. Len(delivered')
       PROVE  \/ i \in 1 .. Len(delivered)
              \/ /\ i \in Len(delivered) + 1 .. Len(delivered')
                 /\ k <= delivered'[i] /\ delivered'[i] <= m
  <2>1. CASE i <= Len(delivered)
    BY <2>1, <1>10
  <2>2. CASE i > Len(delivered)
    <3>1. i \in Len(delivered) + 1 .. Len(delivered')
      BY <2>2, <1>9, <1>10
    <3>2. delivered'[i] = k + (i - Len(delivered)) - 1
      BY <3>1, <1>9
    <3> QED BY <3>1, <3>2, <1>6, <1>9, <1>10
  <2> QED BY <2>1, <2>2, <1>10
<1>12. DOMAIN delivered' = 1 .. Len(delivered') /\ DOMAIN delivered = 1 .. Len(delivered)
  BY <1>9, <1>10
<1>13. TypeOK'
  <2>1. read' \in 0 .. Length /\ base' \in 0 .. Length
    BY <1>1, <1>4, <1>6
  <2>2. pos' \in 0 .. bufSize + MaxPiece
    BY <1>0, <1>4, <1>6, <1>8
  <2>3. pos' > 0 => base' + pos' = read'
    BY <1>4, <1>6, <1>8
  <2>4. pos' > 0 => IsStart(base)'
    <3> SUFFICES ASSUME pos' > 0 PROVE IsStart(base)'
      OBVIOUS
    <3>1. m + 1 \in Frames
      <4>1. m # NFrames
        BY <1>4, <1>6, <1>7
      <4> QED BY <4>1, <1>0, <1>6 DEF Frames
    <3>2. \E f \in Frames : Start'[f] = base'
      BY <3>1, <1>4, <1>5
    <3> QED BY <3>2 DEF IsStart
  <2>5. user' \in Users /\ refused' \in BOOLEAN /\ split' \in BOOLEAN
        /\ payload' \in [Frames -> 1 .. MaxPayload]
    BY <1>1, <1>2 DEF TypeOK
  <2>6. pos' > bufSize => \E f \in Frames : Start[f] = base' /\ TooLong(f)'
    <3>1. \A f \in Frames : TooLong(f)' <=> TooLong(f)
      BY DEF TooLong
    <3> QED BY <3>1, <1>4, <1>8a
  <2> QED BY <2>1, <2>2, <2>3, <2>4, <2>5, <2>6, <1>5, <1>9 DEF TypeOK
<1>14. Ascending'
  <2> SUFFICES ASSUME NEW i \in 1 .. Len(delivered'), NEW j \in 1 .. Len(delivered'), i < j
               PROVE  delivered'[i] < delivered'[j]
    BY <1>12 DEF Ascending
  <2>1. CASE j \in 1 .. Len(delivered)
    <3>1. i \in 1 .. Len(delivered)
      BY <2>1, <1>10
    <3> QED BY <2>1, <3>1, <1>9, <1>12 DEF ReceiverInv, Ascending
  <2>2. CASE i \in 1 .. Len(delivered) /\ j \notin 1 .. Len(delivered)
    <3>1. delivered'[i] < k /\ delivered'[i] \in Nat
      <4>1. delivered'[i] = delivered[i] /\ delivered[i] < k
        BY <2>2, <1>9
      <4>2. delivered[i] \in Frames
        BY <2>2, <1>10
      <4> QED BY <4>1, <4>2 DEF Frames
    <3>2. k <= delivered'[j] /\ delivered'[j] \in Nat
      BY <2>2, <1>11, <1>9, <1>12 DEF Frames
    <3> QED BY <3>1, <3>2, <1>6
  <2>3. CASE i \notin 1 .. Len(delivered)
    <3>1. /\ i \in Len(delivered) + 1 .. Len(delivered')
          /\ j \in Len(delivered) + 1 .. Len(delivered')
      BY <2>3, <1>9, <1>10
    <3>2. /\ delivered'[i] = k + (i - Len(delivered)) - 1
          /\ delivered'[j] = k + (j - Len(delivered)) - 1
      BY <3>1, <1>9
    <3> QED BY <3>1, <3>2, <1>6, <1>10
  <2> QED BY <2>1, <2>2, <2>3
<1>15. Start[m + 1] <= From'
  BY <1>1, <1>4, <1>6
<1>16. PassedBefore'
  <2> SUFFICES ASSUME NEW i \in 1 .. Len(delivered')
               PROVE  Start[delivered'[i] + 1] <= From'
    BY <1>5, <1>12 DEF PassedBefore
  <2>1. delivered'[i] \in Frames /\ delivered'[i] <= m
    <3>1. i \in 1 .. Len(delivered) => delivered'[i] < k
      BY <1>9
    <3>2. delivered'[i] \in Frames
      BY <1>9, <1>12
    <3> QED BY <3>1, <3>2, <1>11, <1>6 DEF Frames
  <2>2. delivered'[i] + 1 \in 1 .. NFrames + 1 /\ delivered'[i] + 1 <= m + 1
    BY <2>1, <1>0, <1>6 DEF Frames
  <2>3. Start[delivered'[i] + 1] <= Start[m + 1] /\ Start[delivered'[i] + 1] \in Nat
    BY <2>2, <1>0, <1>6, StartOrder, StartSteps
  <2> QED BY <2>3, <1>15, <1>1, <1>4, <1>6
<1>17. Dropped'
  BY <1>4, <1>5 DEF Dropped
<1>18. Complete'
  <2> SUFFICES ASSUME kept, ~refused
               PROVE  /\ \A i \in 1 .. Len(delivered') : delivered'[i] = i
                      /\ From' = Start[Len(delivered') + 1]
                      /\ ~split' /\ Len(delivered') < NFrames
                           => read' < Start[Len(delivered') + 2]
    BY <1>2, <1>5, <1>12 DEF Complete
  <2>1. /\ \A i \in 1 .. Len(delivered) : delivered[i] = i
        /\ From = Start[Len(delivered) + 1]
    BY <1>12 DEF ReceiverInv, Complete
  <2>2. Len(delivered) + 1 \in 1 .. NFrames + 1
    <3>1. CASE Len(delivered) = 0
      BY <3>1, <1>0
    <3>2. CASE Len(delivered) # 0
      <4>1. Len(delivered) \in 1 .. Len(delivered)
        BY <3>2, <1>10
      <4>2. delivered[Len(delivered)] \in Frames /\ delivered[Len(delivered)] = Len(delivered)
        BY <4>1, <1>10, <2>1
      <4> QED BY <4>2, <1>0 DEF Frames
    <3> QED BY <3>1, <3>2
  <2>3. k = Len(delivered) + 1
    <3>1. k \in 1 .. NFrames + 1 /\ Start[k] = Start[Len(delivered) + 1]
      BY <2>1, <1>0, <1>4, <1>6
    <3> QED BY <3>1, <2>2, <1>0, StartOrder
  <2>4. Len(delivered') = m
    BY <2>3, <1>6, <1>9, <1>10
  <2>5. \A i \in 1 .. Len(delivered') : delivered'[i] = i
    <3> SUFFICES ASSUME NEW i \in 1 .. Len(delivered') PROVE delivered'[i] = i
      OBVIOUS
    <3>1. CASE i \in 1 .. Len(delivered)
      BY <3>1, <2>1, <1>9
    <3>2. CASE i \in Len(delivered) + 1 .. Len(delivered')
      <4>1. delivered'[i] = k + (i - Len(delivered)) - 1
        BY <3>2, <1>9
      <4> QED BY <4>1, <2>3, <1>10
    <3> QED BY <3>1, <3>2, <1>11
  <2>6. From' = Start[Len(delivered') + 1]
    BY <2>4, <1>4
  <2>7. ASSUME ~split', Len(delivered') < NFrames
        PROVE  read' < Start[Len(delivered') + 2]
    <3>1. split' = FALSE
      BY <2>7, <1>1
    <3> QED BY <3>1, <2>4, <2>7, <1>1, <1>4
  <2> QED BY <2>5, <2>6, <2>7
<1> QED BY <1>13, <1>14, <1>16, <1>17, <1>18 DEF ReceiverInv

LEMMA RefuseReceiver ==
  ASSUME TypeOK, ReceiverInv, NEW n \in 1 .. MaxPiece, read + n <= Length,
         read' = read + n, UNCHANGED <<user, payload>>, Refuse(n)
  PROVE  TypeOK' /\ ReceiverInv'
<1>0. /\ pos' = 0 /\ base' = read + n /\ refused' = TRUE /\ split' = FALSE
      /\ delivered' = delivered
  BY DEF Refuse
<1>1. Start' = Start /\ Length' = Length /\ bufSize' = bufSize /\ (kept' <=> kept)
  BY StartStays
<1>2. /\ NFrames \in Nat /\ bufSize \in Nat /\ MaxPiece \in Nat /\ Length \in Nat
      /\ read \in Nat /\ base \in Nat /\ pos \in Nat /\ n \in Nat
  <2>1. NFrames \in Nat /\ bufSize \in Nat /\ Length \in Nat /\ MaxPiece \in Nat
    BY ReceiverAssumption, Sizes, StartSteps DEF TypeOK, Payloads, Length
  <2> QED BY <2>1 DEF TypeOK
<1>3. From <= From' /\ From \in Nat /\ From' \in Nat
  BY <1>0, <1>2 DEF From, TypeOK
<1>4. TypeOK'
  <2>1. read' \in 0 .. Length /\ base' \in 0 .. Length /\ pos' \in 0 .. bufSize + MaxPiece
        /\ ~(pos' > 0) /\ ~(pos' > bufSize)
    BY <1>0, <1>2
  <2>2. user' \in Users /\ refused' \in BOOLEAN /\ split' \in BOOLEAN
        /\ payload' \in [Frames -> 1 .. MaxPayload] /\ delivered' \in Seq(Frames)
    BY <1>0 DEF TypeOK
  <2> QED BY <2>1, <2>2, <1>1 DEF TypeOK
<1>5. PassedBefore'
  <2> SUFFICES ASSUME NEW i \in DOMAIN delivered
               PROVE  Start[delivered[i] + 1] <= From'
    BY <1>0, <1>1 DEF PassedBefore
  <2>1. Start[delivered[i] + 1] <= From
    BY DEF ReceiverInv, PassedBefore
  <2>2. delivered[i] + 1 \in 1 .. NFrames + 1
    BY <1>2 DEF TypeOK, Frames
  <2>3. Start[delivered[i] + 1] \in Nat
    BY <2>2, StartSteps DEF TypeOK, Payloads
  <2> QED BY <2>1, <2>3, <1>3
<1>6. Ascending'
  BY <1>0 DEF ReceiverInv, Ascending
<1>7. Dropped' /\ Complete'
  BY <1>0 DEF Dropped, Complete
<1> QED BY <1>4, <1>5, <1>6, <1>7 DEF ReceiverInv

LEMMA StepReceiver == TypeOK /\ ReceiverInv /\ [Next]_vars => TypeOK' /\ ReceiverInv'
<1> SUFFICES ASSUME TypeOK, ReceiverInv, [Next]_vars PROVE TypeOK' /\ ReceiverInv'
  OBVIOUS
<1>1. ASSUME NEW n \in 1 .. MaxPiece, Input(n) PROVE TypeOK' /\ ReceiverInv'
  <2>1. /\ read + n <= Length /\ read' = read + n
        /\ UNCHANGED <<user, payload>>
        /\ Refuse(n) \/ Take(n) \/ TakeSplit(n)
    BY <1>1 DEF Input
  <2>2. CASE Refuse(n)
    BY <2>1, <2>2, RefuseReceiver
  <2>3. CASE Take(n) \/ TakeSplit(n)
    BY <2>1, <2>3, TakeReceiver
  <2> QED BY <2>1, <2>2, <2>3
<1>2. CASE UNCHANGED vars
  <2>1. /\ read' = read /\ base' = base /\ pos' = pos /\ delivered' = delivered
        /\ payload' = payload /\ UNCHANGED <<user, refused, split>>
    BY <1>2 DEF vars
  <2>2. /\ Start' = Start /\ Length' = Length /\ From' = From
        /\ bufSize' = bufSize /\ (kept' <=> kept)
    BY <2>1, StartStays DEF From
  <2>3. TypeOK'
    BY <2>1, <2>2 DEF TypeOK, IsStart, TooLong
  <2>4. Ascending' /\ PassedBefore' /\ Dropped'
    BY <2>1, <2>2 DEF ReceiverInv, Ascending, PassedBefore, Dropped
  <2>5. Complete'
    BY <2>1, <2>2 DEF ReceiverInv, Complete
  <2> QED BY <2>3, <2>4, <2>5 DEF ReceiverInv
<1> QED BY <1>1, <1>2 DEF Next

LEMMA ReceiverAlways == Spec => [](TypeOK /\ ReceiverInv)
<1>1. Init => TypeOK /\ ReceiverInv
  BY InitReceiver
<1>2. TypeOK /\ ReceiverInv /\ [Next]_vars => (TypeOK /\ ReceiverInv)'
  BY StepReceiver
<1> QED BY <1>1, <1>2, PTL DEF Spec

-----------------------------------------------------------------------------
(* The buffer holds an unread stretch of the stream that begins with a     *)
(* frame.  Where BufferParser::input puts the rest of a piece behind what  *)
(* was left it checks nothing: the buffer's end is passed, by at most a    *)
(* piece, when the stretch begins with a frame that leaves no room for     *)
(* one, and by no frame that does.                                         *)
THEOREM ReceiverTypeCorrect == Spec => []TypeOK
<1>1. TypeOK /\ ReceiverInv => TypeOK
  OBVIOUS
<1> QED BY <1>1, ReceiverAlways, PTL

(* However the stream is cut into pieces, BufferParser::parse passes the   *)
(* frames on once and in order, and none is missing as long as a parser    *)
(* that is kept has refused nothing.                                       *)
THEOREM FramesInOrder == Spec => []DeliveredInOrder
<1>1. ReceiverInv => DeliveredInOrder
  <2> SUFFICES ASSUME ReceiverInv PROVE DeliveredInOrder
    OBVIOUS
  <2>1. \A i, j \in DOMAIN delivered : i < j => delivered[i] < delivered[j]
    BY DEF ReceiverInv, Ascending
  <2>2. kept /\ ~refused => \A i \in DOMAIN delivered : delivered[i] = i
    BY DEF ReceiverInv, Complete
  <2> QED BY <2>1, <2>2 DEF DeliveredInOrder
<1> QED BY <1>1, ReceiverAlways, PTL

(* No frame that has been read in full waits for the next piece, unless    *)
(* the last piece did not fit.                                             *)
THEOREM FramesAreNotHeldBack == Spec => []NothingHeldBack
<1>1. TypeOK /\ ReceiverInv => NothingHeldBack
  <2> SUFFICES ASSUME TypeOK, ReceiverInv, kept, ~refused, ~split,
                      NEW f \in Frames, Start[f + 1] <= read
               PROVE  f \in ToSet(delivered)
    BY DEF NothingHeldBack
  <2>0. NFrames \in Nat /\ Payloads /\ f \in Nat \ {0} /\ f <= NFrames
        /\ Len(delivered) \in Nat /\ DOMAIN delivered = 1 .. Len(delivered)
    BY ReceiverAssumption DEF TypeOK, Payloads, Frames
  <2>1. /\ \A i \in DOMAIN delivered : delivered[i] = i
        /\ Len(delivered) < NFrames => read < Start[Len(delivered) + 2]
    BY DEF ReceiverInv, Complete
  <2>2. f <= Len(delivered)
    <3> SUFFICES ASSUME Len(delivered) < f PROVE FALSE
      BY <2>0
    <3>1. /\ Len(delivered) < NFrames /\ Len(delivered) + 2 <= f + 1
          /\ Len(delivered) + 2 \in 1 .. NFrames + 1 /\ f + 1 \in 1 .. NFrames + 1
      BY <2>0
    <3>2. Start[Len(delivered) + 2] <= Start[f + 1]
      BY <3>1, <2>0, StartOrder
    <3>3. Start[Len(delivered) + 2] \in Nat /\ Start[f + 1] \in Nat /\ read \in Nat
      <4>1. Length \in Nat
        BY <2>0, StartSteps DEF Length
      <4> QED BY <3>1, <4>1, <2>0, StartSteps DEF TypeOK
    <3> QED BY <3>1, <3>2, <3>3, <2>1
  <2>3. f \in DOMAIN delivered /\ delivered[f] = f
    BY <2>0, <2>1, <2>2
  <2> QED BY <2>3 DEF ToSet
<1> QED BY <1>1, ReceiverAlways, PTL

(* Server::afterPolledIOReadDataNotification makes a parser for each       *)
(* piece: a piece that begins with a request, and holds at least a flag,   *)
(* has all the requests served that it holds in full.                      *)
THEOREM WholeRequestsAreServed == Spec => WholeRequestIsServed
<1> DEFINE Served ==
      user = "play" /\ IsStart(read) /\ read' - read >= Flag =>
        \A f \in Frames : read <= Start[f] /\ Start[f + 1] <= read'
                            => f \in ToSet(delivered')
<1>1. TypeOK /\ ReceiverInv /\ (TypeOK /\ ReceiverInv)' /\ [Next]_vars => [Served]_vars
  <2> SUFFICES ASSUME TypeOK, ReceiverInv, Next, user = "play", IsStart(read), read' - read >= Flag,
                      NEW f \in Frames, read <= Start[f], Start[f + 1] <= read'
               PROVE  f \in ToSet(delivered')
    OBVIOUS
  <2>1. PICK n \in 1 .. MaxPiece : Input(n)
    BY DEF Next
  <2>2. /\ read + n <= Length /\ read' = read + n
        /\ UNCHANGED <<user, payload>>
        /\ Refuse(n) \/ Take(n) \/ TakeSplit(n)
    BY <2>1 DEF Input
  <2>3. pos = 0 /\ From = read
    BY DEF ReceiverInv, Dropped, From, kept
  <2>4. read \in Nat /\ n \in Nat /\ n >= Flag /\ n <= MaxPiece /\ n <= bufSize
        /\ NFrames \in Nat /\ 0 < bufSize
    <3>1. Length \in Nat
      BY ReceiverAssumption, StartSteps DEF TypeOK, Payloads, Length
    <3>2. read \in Nat /\ n \in Nat /\ n <= MaxPiece
      BY <3>1, ReceiverAssumption DEF TypeOK
    <3>3. bufSize = BufSize
      BY DEF bufSize
    <3> QED BY <3>2, <3>3, <2>2, ReceiverAssumption
  <2>5. Take(n)
    <3>1. ~Refuse(n)
      BY <2>3, <2>4 DEF Refuse, MustTake, CanTake
    <3>2. ~TakeSplit(n)
      BY <2>3, <2>4, Sizes DEF TakeSplit
    <3> QED BY <3>1, <3>2, <2>2
  <2>6. f \in Parsed(From, read + n)
    BY <2>2, <2>3 DEF Parsed
  <2>7. /\ read + n \in Nat /\ From <= read + n
        /\ CanTake(n) /\ Deliver(Parsed(From, read + n))
        /\ Leave(Resume(From, read + n), read + n)
    BY <2>3, <2>4, <2>5 DEF Take
  <2>8. PICK k \in Frames : \E m \in k - 1 .. NFrames :
           /\ From = Start[k]
           /\ Parsed(From, read + n) = k .. m
           /\ Deliver(k .. m)
    BY <2>2, <2>4, <2>7, TakesUpTo
  <2>9. PICK m \in k - 1 .. NFrames :
           /\ From = Start[k]
           /\ Parsed(From, read + n) = k .. m
           /\ Deliver(k .. m)
    BY <2>8
  <2>10. /\ delivered' \in Seq(Frames)
         /\ Len(delivered') = Len(delivered) + (m - k + 1)
         /\ \A i \in Len(delivered) + 1 .. Len(delivered') :
              delivered'[i] = k + (i - Len(delivered)) - 1
    BY <2>9, Appended
  <2>11. k <= f /\ f <= m /\ k \in Nat /\ f \in Nat /\ m \in Nat /\ Len(delivered) \in Nat
    BY <2>4, <2>6, <2>9 DEF TypeOK, Frames
  <2> DEFINE i == Len(delivered) + (f - k) + 1
  <2>12. i \in Len(delivered) + 1 .. Len(delivered') /\ i \in 1 .. Len(delivered')
    BY <2>10, <2>11
  <2>13. delivered'[i] = f
    <3>1. delivered'[i] = k + (i - Len(delivered)) - 1
      BY <2>10, <2>12
    <3> QED BY <3>1, <2>11
  <2>14. i \in DOMAIN delivered'
    BY <2>10, <2>12
  <2> QED BY <2>13, <2>14 DEF ToSet
<1>2. WholeRequestIsServed <=> [][Served]_vars
  BY DEF WholeRequestIsServed
<1> HIDE DEF Served
<1> QED BY <1>1, <1>2, ReceiverAlways, PTL DEF Spec

=============================================================================
