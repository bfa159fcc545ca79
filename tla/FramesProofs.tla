---------------------------- MODULE FramesProofs ----------------------------
(***************************************************************************)
(* What the wire format promises for strings, routes and chains of any     *)
(* length: a payload's size is the sum of its fields' widths, and whatever *)
(* a Write function lets through its Read function decodes to the same     *)
(* message.                                                                *)
(***************************************************************************)
EXTENDS Frames, Integers, TLAPS, SequenceTheorems, WellFoundedInduction

-----------------------------------------------------------------------------
(* Induction: a set of natural numbers has a least element. *)

LEMMA LeastOf ==
    ASSUME NEW T, T \subseteq Nat, NEW R,
           \E x \in T : \A y \in T : <<y, x>> \notin R,
           \A x \in Nat, y \in Nat : y < x => <<y, x>> \in R
    PROVE  \E x \in T : \A y \in T : x <= y
<1>1. PICK x \in T : \A y \in T : <<y, x>> \notin R OBVIOUS
<1>2. ASSUME NEW y \in T PROVE x <= y
  <2>1. x \in Nat /\ y \in Nat OBVIOUS
  <2>2. ~(y < x) BY <1>1, <2>1, Zenon
  <2> QED BY <2>1, <2>2
<1> QED BY <1>1, <1>2

LEMMA Least ==
    ASSUME NEW T, T \subseteq Nat, T # {}
    PROVE  \E x \in T : \A y \in T : x <= y
<1>1. \E x \in T : \A y \in T : <<y, x>> \notin OpToRel(<, Nat)
  BY WFMin, NatLessThanWellFounded, Zenon
<1>2. \A x \in Nat, y \in Nat : y < x => <<y, x>> \in OpToRel(<, Nat)
  BY Zenon DEF OpToRel
<1> QED BY <1>1, <1>2, LeastOf, Zenon

-----------------------------------------------------------------------------
(* The size of a payload. *)

\* The fields of p have widths.
Measured(p) == Len(p) \in Nat /\ \A i \in 1..Len(p) : p[i].width \in Nat

\* g sums the widths of the first n fields of p.
IsSum(g, p, n) ==
    /\ g \in [0..n -> Nat] /\ g[0] = 0
    /\ \A i \in 1..n : g[i] = g[i - 1] + p[i].width

LEMMA SumExists ==
    ASSUME NEW p, Measured(p)
    PROVE  \E g : IsSum(g, p, Len(p))
<1> DEFINE T == {n \in 0..Len(p) : ~ \E g : IsSum(g, p, n)}
<1>1. ASSUME T # {} PROVE FALSE
  <2>0. T \subseteq Nat BY DEF Measured
  <2>1. PICK x \in T : \A y \in T : x <= y
    <3> HIDE DEF T
    <3> QED BY <1>1, <2>0, Least, Zenon
  <2>2. x \in 0..Len(p) /\ ~ \E g : IsSum(g, p, x) BY <2>1
  <2>3. CASE x = 0
    <3>1. IsSum([i \in 0..0 |-> 0], p, 0) BY DEF IsSum
    <3> QED BY <2>2, <2>3, <3>1
  <2>4. CASE x # 0
    <3>1. x - 1 \in 0..Len(p) /\ x - 1 < x /\ x \in 1..Len(p)
      BY <2>2, <2>4 DEF Measured
    <3>2. x - 1 \notin T BY <2>1, <3>1
    <3>3. PICK g : IsSum(g, p, x - 1) BY <3>1, <3>2
    <3> DEFINE h == [i \in 0..x |-> IF i = x THEN g[x - 1] + p[x].width ELSE g[i]]
    <3>4. IsSum(h, p, x)
      <4>1. \A i \in 0..x : i # x => i \in 0..(x - 1) BY <3>1 DEF Measured
      <4>2. g[x - 1] \in Nat /\ p[x].width \in Nat BY <3>1, <3>3 DEF IsSum, Measured
      <4>3. h \in [0..x -> Nat] BY <4>1, <4>2, <3>3 DEF IsSum
      <4>4. h[0] = 0 BY <2>4, <3>1, <3>3 DEF IsSum, Measured
      <4>5. ASSUME NEW i \in 1..x PROVE h[i] = h[i - 1] + p[i].width
        <5>1. i - 1 \in 0..x /\ i \in 0..x /\ i - 1 # x BY <3>1 DEF Measured
        <5>2. i # x => i \in 1..(x - 1) BY <3>1 DEF Measured
        <5> QED BY <5>1, <5>2, <3>3 DEF IsSum
      <4> QED BY <4>3, <4>4, <4>5 DEF IsSum
    <3> QED BY <2>2, <3>4
  <2> QED BY <2>3, <2>4
<1>2. Len(p) \in 0..Len(p) BY DEF Measured
<1> QED BY <1>1, <1>2

\* The equation that defines Sizes.
SizesBody(p, f) ==
    [r \in (1..Len(p)) \X (1..Len(p)) |->
        LET mid == (r[1] + r[2]) \div 2
        IN  IF r[1] = r[2] THEN p[r[1]].width
            ELSE f[<<r[1], mid>>] + f[<<mid + 1, r[2]>>]]

LEMMA SizesDef ==
    ASSUME NEW p, NEW g, g = SizesBody(p, g)
    PROVE  Sizes(p) = SizesBody(p, Sizes(p))
<1>1. Sizes(p) = CHOOSE f : f = SizesBody(p, f)
  BY Zenon DEF Sizes, SizesBody
<1> QED BY <1>1, Zenon

\* The halves of an interval.
LEMMA Halves ==
    ASSUME NEW n \in Nat, NEW lo \in 1..n, NEW hi \in 1..n, lo # hi
    PROVE  LET mid == (lo + hi) \div 2
           IN  /\ mid \in 1..n /\ mid + 1 \in 1..n
               /\ lo < hi => lo <= mid /\ mid < hi
OBVIOUS

\* The sum by halves is the sum.
LEMMA SizeIsSum ==
    ASSUME NEW p, Measured(p), NEW g, IsSum(g, p, Len(p))
    PROVE  Len(p) > 0 => Sizes(p)[<<1, Len(p)>>] = g[Len(p)]
<1> DEFINE n == Len(p)
<1> DEFINE D == (1..n) \X (1..n)
<1>0. n \in Nat /\ \A i \in 0..n : g[i] \in Nat BY DEF Measured, IsSum
<1> DEFINE f == [r \in D |-> g[r[2]] - g[r[1] - 1]]
<1>1. f = SizesBody(p, f)
  <2>1. ASSUME NEW r \in D
        PROVE  f[r] = LET mid == (r[1] + r[2]) \div 2
                      IN  IF r[1] = r[2] THEN p[r[1]].width
                          ELSE f[<<r[1], mid>>] + f[<<mid + 1, r[2]>>]
    <3> DEFINE mid == (r[1] + r[2]) \div 2
    <3>0. r[1] \in 1..n /\ r[2] \in 1..n OBVIOUS
    <3>1. CASE r[1] = r[2]
      <4>1. g[r[1]] = g[r[1] - 1] + p[r[1]].width /\ p[r[1]].width \in Nat
        BY <3>0 DEF IsSum, Measured
      <4>2. r[1] - 1 \in 0..n BY <1>0, <3>0
      <4>3. g[r[1] - 1] \in Nat BY <1>0, <4>2
      <4> QED BY <3>1, <4>1, <4>3
    <3>2. CASE r[1] # r[2]
      <4>1. mid \in 1..n /\ mid + 1 \in 1..n BY <1>0, <3>0, <3>2, Halves
      <4> HIDE DEF mid
      <4>2. <<r[1], mid>> \in D /\ <<mid + 1, r[2]>> \in D BY <3>0, <4>1
      <4>3. /\ f[<<r[1], mid>>] = g[mid] - g[r[1] - 1]
            /\ f[<<mid + 1, r[2]>>] = g[r[2]] - g[mid + 1 - 1]
        BY <4>2
      <4>4. mid + 1 - 1 = mid /\ mid \in 0..n /\ r[1] - 1 \in 0..n /\ r[2] \in 0..n
        BY <1>0, <3>0, <4>1
      <4>5. g[mid] \in Nat /\ g[r[1] - 1] \in Nat /\ g[r[2]] \in Nat BY <1>0, <4>4
      <4>6. f[r] = g[r[2]] - g[r[1] - 1] OBVIOUS
      <4>7. f[r] = f[<<r[1], mid>>] + f[<<mid + 1, r[2]>>]
        <5> HIDE DEF f
        <5> QED BY <4>3, <4>4, <4>5, <4>6
      <4> QED BY <3>2, <4>7 DEF mid
    <3> QED BY <3>1, <3>2
  <2> HIDE DEF f
  <2>2. f = [r \in D |-> f[r]] BY DEF f
  <2> QED BY <2>1, <2>2, Zenon DEF SizesBody
<1>2. Sizes(p) = SizesBody(p, Sizes(p)) BY <1>1, SizesDef, Zenon
<1> HIDE DEF f
<1>3. ASSUME NEW lo \in 1..n, NEW hi \in 1..n
      PROVE  /\ lo = hi => Sizes(p)[<<lo, hi>>] = p[lo].width
             /\ lo # hi => Sizes(p)[<<lo, hi>>]
                  = Sizes(p)[<<lo, (lo + hi) \div 2>>] + Sizes(p)[<<(lo + hi) \div 2 + 1, hi>>]
  <2>1. <<lo, hi>> \in D OBVIOUS
  <2>2. SizesBody(p, Sizes(p))[<<lo, hi>>] =
          IF lo = hi THEN p[lo].width
          ELSE Sizes(p)[<<lo, (lo + hi) \div 2>>] + Sizes(p)[<<(lo + hi) \div 2 + 1, hi>>]
    BY <2>1 DEF SizesBody
  <2> QED BY <1>2, <2>2
\* The least distance at which the sums differ.
<1> DEFINE Wrong(lo, hi) == Sizes(p)[<<lo, hi>>] # g[hi] - g[lo - 1]
<1> DEFINE T == {d \in Nat : \E lo, hi \in 1..n : lo <= hi /\ hi - lo = d /\ Wrong(lo, hi)}
<1>4. ASSUME T # {} PROVE FALSE
  <2>1. PICK d \in T : \A y \in T : d <= y
    <3>1. T \subseteq Nat OBVIOUS
    <3> HIDE DEF T
    <3> QED BY <1>4, <3>1, Least, Zenon
  <2>2. PICK lo \in 1..n, hi \in 1..n : lo <= hi /\ hi - lo = d /\ Wrong(lo, hi)
    BY <2>1
  <2>3. ASSUME NEW a \in 1..n, NEW b \in 1..n, a <= b, b - a < d
        PROVE  Sizes(p)[<<a, b>>] = g[b] - g[a - 1]
    <3>1. b - a \in Nat BY <1>0, <2>3
    <3>2. b - a \notin T
      <4> HIDE DEF T
      <4>1. d \in Nat BY DEF T
      <4> QED BY <2>1, <2>3, <3>1, <4>1
    <3> QED BY <2>3, <3>1, <3>2
  <2>4. CASE lo = hi
    <3>1. g[lo] = g[lo - 1] + p[lo].width /\ p[lo].width \in Nat
      BY DEF IsSum, Measured
    <3>2. lo - 1 \in 0..n BY <1>0
    <3>3. g[lo - 1] \in Nat BY <1>0, <3>2
    <3>4. Sizes(p)[<<lo, hi>>] = p[lo].width BY <1>3, <2>4
    <3>5. g[hi] - g[lo - 1] = p[lo].width BY <2>4, <3>1, <3>3
    <3> QED BY <2>2, <3>4, <3>5
  <2>5. CASE lo # hi
    <3> DEFINE mid == (lo + hi) \div 2
    <3>1. mid \in 1..n /\ mid + 1 \in 1..n /\ lo <= mid /\ mid < hi
      BY <1>0, <2>2, <2>5, Halves
    <3>2. Sizes(p)[<<lo, hi>>] = Sizes(p)[<<lo, mid>>] + Sizes(p)[<<mid + 1, hi>>]
      BY <1>3, <2>5
    <3> HIDE DEF mid
    <3>3. mid - lo < d /\ hi - (mid + 1) < d /\ mid + 1 <= hi BY <2>2, <3>1, <1>0
    <3>4. /\ Sizes(p)[<<lo, mid>>] = g[mid] - g[lo - 1]
          /\ Sizes(p)[<<mid + 1, hi>>] = g[hi] - g[mid + 1 - 1]
      BY <2>3, <3>1, <3>3
    <3>5. mid + 1 - 1 = mid /\ mid \in 0..n /\ lo - 1 \in 0..n /\ hi \in 0..n BY <1>0, <3>1
    <3>6. g[mid] \in Nat /\ g[lo - 1] \in Nat /\ g[hi] \in Nat BY <1>0, <3>5
    <3> QED BY <2>2, <3>2, <3>4, <3>5, <3>6
  <2> QED BY <2>4, <2>5
<1>5. ASSUME n > 0 PROVE Sizes(p)[<<1, n>>] = g[n]
  <2>1. 1 \in 1..n /\ n \in 1..n /\ 1 <= n /\ n - 1 \in Nat BY <1>0, <1>5
  <2>2. ~Wrong(1, n) BY <1>4, <2>1
  <2>3. g[1 - 1] = 0 /\ g[n] \in Nat BY <1>0, <2>1 DEF IsSum
  <2> QED BY <2>2, <2>3
<1> QED BY <1>5

\* The size of a payload is a number, and the sum of its widths.
LEMMA PayloadSum ==
    ASSUME NEW S, NEW p \in Seq(S), Measured(p), NEW g, IsSum(g, p, Len(p))
    PROVE  PayloadSize(p) = g[Len(p)] /\ PayloadSize(p) \in Nat
<1>1. CASE p = <<>>
  BY <1>1 DEF PayloadSize, IsSum
<1>2. CASE p # <<>>
  <2>1. Len(p) > 0 /\ Len(p) \in 0..Len(p) BY <1>2
  <2>2. PayloadSize(p) = g[Len(p)] BY <1>2, <2>1, SizeIsSum DEF PayloadSize
  <2> QED BY <2>1, <2>2 DEF IsSum
<1> QED BY <1>1, <1>2

-----------------------------------------------------------------------------
(* Fields. *)

Fields == {Num(w, n) : w \in {1, 2}, n \in Nat} \cup {Bytes(s) : s \in ByteStrings}

\* n can be stored in w bytes.
Fits(n, w) == n < 256^w

LEMMA Capacities ==
    ASSUME NEW w \in {1, 2}
    PROVE  256^w \in Nat \ {0}
<1>1. 256^1 \in Nat \ {0} /\ 256^2 \in Nat \ {0} BY SMT
<1>2. w = 1 \/ w = 2 OBVIOUS
<1> QED BY <1>1, <1>2, Zenon

LEMMA ByteFits ==
    \A n \in Nat : n <= 255 => Fits(n, 1)
<1>1. 256^1 = 256 BY SMT
<1> QED BY <1>1, SMT DEF Fits

\* A number that fits its width is stored as it is.
LEMMA NumVal ==
    ASSUME NEW n \in Nat
    PROVE  \A w \in {1, 2} : /\ Num(w, n).kind = "num" /\ Num(w, n).width = w
                             /\ Fits(n, w) => Num(w, n).val = n
<1>1. \A k \in Nat \ {0} : n < k => n % k = n BY SMT
<1> QED BY <1>1, Capacities, SMT DEF Num, Fits

LEMMA BytesVal ==
    ASSUME NEW s \in ByteStrings
    PROVE  /\ Bytes(s).kind = "bytes" /\ Bytes(s).width = StrLen[s] /\ Bytes(s).val = s
           /\ StrLen[s] \in Nat
  BY StrLenAssumption DEF Bytes

LEMMA ReadNum ==
    ASSUME NEW p, NEW i, NEW w \in {1, 2}, NEW n \in Nat, Fits(n, w), p[i] = Num(w, n),
           i <= Len(p)
    PROVE  IsNum(p, i, w) /\ p[i].val = n
  BY NumVal DEF IsNum

LEMMA ReadBytes ==
    ASSUME NEW p, NEW i, NEW s \in ByteStrings, p[i] = Bytes(s), NEW n \in Nat, Within(s, n, n)
    PROVE  p[i].width = n /\ p[i].val = s
<1>1. StrLen[s] = n BY BytesVal DEF Within
<1> QED BY <1>1, BytesVal

LEMMA FieldsMeasured ==
    ASSUME NEW p \in Seq(Fields)
    PROVE  Measured(p)
<1>1. \A f \in Fields : f.width \in Nat
  BY NumVal, BytesVal DEF Fields
<1> QED BY <1>1 DEF Measured

\* A payload has a size, and a frame whose payload is within the limit has it
\* as its length.
LEMMA FrameLength ==
    ASSUME NEW p \in Seq(Fields), NEW t
    PROVE  /\ PayloadSize(p) \in Nat
           /\ PayloadSize(p) <= MaxPayloadSize => Frame(t, p).length.val = PayloadSize(p)
<1>1. Measured(p) BY FieldsMeasured
<1>2. PICK g : IsSum(g, p, Len(p)) BY <1>1, SumExists
<1>3. PayloadSize(p) \in Nat BY <1>1, <1>2, PayloadSum
<1>4. PayloadSize(p) <= MaxPayloadSize => Fits(PayloadSize(p), 2)
  BY <1>3, SMT DEF MaxPayloadSize, Fits
<1> QED BY <1>3, <1>4, NumVal, SMT DEF Frame

\* s stands at place i of p, behind its length.
Holds(p, i, w, s) ==
    i \in Nat \ {0} /\ i < Len(p) /\ p[i] = Num(w, StrLen[s]) /\ p[i + 1] = Bytes(s)

LEMMA HoldsVal ==
    ASSUME NEW p, NEW i, NEW w, NEW s \in ByteStrings, Holds(p, i, w, s), NEW j, j = i + 1
    PROVE  p[j].val = s
  BY BytesVal DEF Holds

LEMMA HoldsString ==
    ASSUME NEW p, Len(p) \in Nat, NEW i, NEW w \in {1, 2}, NEW s \in ByteStrings,
           Holds(p, i, w, s), NEW min \in Nat, NEW max \in Nat, Within(s, min, max),
           Fits(max, w)
    PROVE  HasString(p, i, w, min, max)
<1>1. StrLen[s] \in Nat /\ StrLen[s] \in min..max BY BytesVal DEF Within
<1>2. p[i].val = StrLen[s] /\ p[i].kind = "num" /\ p[i].width = w
  <2>1. Fits(StrLen[s], w) BY <1>1, Capacities, SMT DEF Fits
  <2>2. p[i] = Num(w, StrLen[s]) /\ i <= Len(p) BY DEF Holds
  <2> QED BY <1>1, <2>1, <2>2, ReadNum DEF IsNum
<1>3. p[i + 1].kind = "bytes" /\ p[i + 1].width = StrLen[s]
  BY BytesVal DEF Holds
<1>4. i <= Len(p) /\ i < Len(p) BY DEF Holds
<1> QED BY <1>1, <1>2, <1>3, <1>4 DEF HasString, IsNum

\* All of strings stand at place i of p, one behind the other.
HoldsAll(p, i, strings) ==
    \A k \in 1..Len(strings) : Holds(p, i + 2 * (k - 1), 2, strings[k])

LEMMA HoldsStrings ==
    ASSUME NEW p, NEW i \in Nat \ {0}, NEW strings \in Seq(ByteStrings), HoldsAll(p, i, strings),
           NEW max \in Nat, Fits(max, 2), AllWithin(strings, max), Len(p) \in Nat
    PROVE  HasStrings(p, i, Len(strings), max) /\ Strings(p, i, Len(strings)) = strings
<1>1. ASSUME NEW k \in 1..Len(strings)
      PROVE  /\ HasString(p, i + 2 * (k - 1), 2, 1, max)
             /\ p[i + 2 * k - 1].val = strings[k]
  <2>1. strings[k] \in ByteStrings /\ Within(strings[k], 1, max)
    BY DEF AllWithin
  <2>2. Holds(p, i + 2 * (k - 1), 2, strings[k]) BY DEF HoldsAll
  <2>3. /\ HasString(p, i + 2 * (k - 1), 2, 1, max)
        /\ p[i + 2 * (k - 1) + 1].val = strings[k]
    <3> DEFINE j == i + 2 * (k - 1)
    <3> HIDE DEF j
    <3>1. Holds(p, j, 2, strings[k]) BY <2>2 DEF j
    <3>2. HasString(p, j, 2, 1, max) /\ p[j + 1].val = strings[k]
      BY <2>1, <3>1, HoldsString, HoldsVal
    <3> QED BY <3>2 DEF j
  <2>4. i + 2 * (k - 1) + 1 = i + 2 * k - 1 OBVIOUS
  <2> QED BY <2>3, <2>4
<1>2. Strings(p, i, Len(strings)) = [k \in 1..Len(strings) |-> strings[k]]
  BY <1>1 DEF Strings
<1>3. strings = [k \in 1..Len(strings) |-> strings[k]] OBVIOUS
<1> QED BY <1>1, <1>2, <1>3 DEF HasStrings

\* What PrefixedAll writes.
LEMMA PrefixedAllHolds ==
    ASSUME NEW strings \in Seq(ByteStrings)
    PROVE  /\ PrefixedAll(strings) \in Seq(Fields)
           /\ Len(PrefixedAll(strings)) = 2 * Len(strings)
           /\ HoldsAll(PrefixedAll(strings), 1, strings)
<1> DEFINE q == PrefixedAll(strings)
<1> DEFINE n == Len(strings)
<1>1. n \in Nat /\ 2 * n \in Nat OBVIOUS
<1>2. ASSUME NEW i \in 1..(2 * n)
      PROVE  /\ (i + 1) \div 2 \in 1..n /\ i % 2 \in {0, 1}
             /\ q[i] = IF i % 2 = 1 THEN Num(2, StrLen[strings[(i + 1) \div 2]])
                       ELSE Bytes(strings[(i + 1) \div 2])
  <2>1. (i + 1) \div 2 \in 1..n /\ i % 2 \in {0, 1} BY <1>1
  <2>2. q[i] = Prefixed(2, strings[(i + 1) \div 2])[2 - (i % 2)] BY DEF PrefixedAll
  <2> QED BY <2>1, <2>2 DEF Prefixed
<1>3. q \in Seq(Fields) /\ Len(q) = 2 * n
  <2>1. ASSUME NEW i \in 1..(2 * n) PROVE q[i] \in Fields
    <3>1. strings[(i + 1) \div 2] \in ByteStrings BY <1>2
    <3>2. StrLen[strings[(i + 1) \div 2]] \in Nat BY <3>1, BytesVal
    <3> QED BY <1>2, <3>1, <3>2 DEF Fields
  <2>2. q = [i \in 1..(2 * n) |-> q[i]] BY DEF PrefixedAll
  <2> HIDE DEF q
  <2>3. q \in [1..(2 * n) -> Fields] BY <2>1, <2>2
  <2>4. Len(q) = 2 * n BY <1>1, <2>2
  <2> QED BY <1>1, <2>3, <2>4
<1>4. ASSUME NEW k \in 1..n PROVE Holds(q, 1 + 2 * (k - 1), 2, strings[k])
  <2>1. 2 * k - 1 \in 1..(2 * n) /\ 2 * k \in 1..(2 * n) /\ 2 * k - 1 < 2 * n
    BY <1>1
  <2>2. /\ (2 * k - 1) % 2 = 1 /\ ((2 * k - 1) + 1) \div 2 = k
        /\ (2 * k) % 2 = 0 /\ (2 * k + 1) \div 2 = k
    OBVIOUS
  <2>3. q[2 * k - 1] = Num(2, StrLen[strings[k]]) /\ q[2 * k] = Bytes(strings[k])
    <3> HIDE DEF q
    <3>1. ASSUME NEW a, a = 2 * k - 1 PROVE q[a] = Num(2, StrLen[strings[k]])
      <4>1. a \in 1..(2 * n) /\ a % 2 = 1 /\ (a + 1) \div 2 = k BY <2>1, <2>2, <3>1
      <4> QED BY <1>2, <4>1
    <3>2. ASSUME NEW b, b = 2 * k PROVE q[b] = Bytes(strings[k])
      <4>1. b \in 1..(2 * n) /\ b % 2 # 1 /\ (b + 1) \div 2 = k BY <2>1, <2>2, <3>2
      <4> QED BY <1>2, <4>1
    <3> QED BY <3>1, <3>2
  <2>4. 1 + 2 * (k - 1) = 2 * k - 1 /\ 2 * k - 1 + 1 = 2 * k /\ 2 * k - 1 \in Nat \ {0}
    OBVIOUS
  <2> HIDE DEF q
  <2> QED BY <1>3, <2>1, <2>3, <2>4 DEF Holds
<1> QED BY <1>3, <1>4 DEF HoldsAll

\* A string keeps its place when something is written behind it, and moves by
\* the length of what is written in front.
LEMMA Concat ==
    ASSUME NEW q \in Seq(Fields), NEW r \in Seq(Fields)
    PROVE  /\ q \o r \in Seq(Fields) /\ Len(q \o r) = Len(q) + Len(r)
           /\ \A i \in 1..Len(q) : (q \o r)[i] = q[i]
           /\ \A i \in 1..Len(r) : (q \o r)[Len(q) + i] = r[i]
OBVIOUS

LEMMA HoldsFront ==
    ASSUME NEW q \in Seq(Fields), NEW r \in Seq(Fields), NEW i, NEW w, NEW s, Holds(q, i, w, s)
    PROVE  Holds(q \o r, i, w, s)
<1>1. i \in 1..Len(q) /\ i + 1 \in 1..Len(q) /\ Len(q) \in Nat /\ Len(r) \in Nat
  BY DEF Holds
<1> QED BY <1>1, Concat DEF Holds

LEMMA HoldsBack ==
    ASSUME NEW q \in Seq(Fields), NEW r \in Seq(Fields), NEW i, NEW w, NEW s, Holds(r, i, w, s)
    PROVE  \A j : j = Len(q) + i => Holds(q \o r, j, w, s)
<1>1. i \in 1..Len(r) /\ i + 1 \in 1..Len(r) /\ Len(q) \in Nat /\ Len(r) \in Nat
  BY DEF Holds
<1>2. Len(q) + (i + 1) = Len(q) + i + 1 /\ Len(q) + i \in Nat \ {0}
      /\ Len(q) + i < Len(q) + Len(r)
  BY <1>1 DEF Holds
<1>3. (q \o r)[Len(q) + i] = r[i] /\ (q \o r)[Len(q) + (i + 1)] = r[i + 1]
  BY <1>1, Concat
<1> QED BY <1>1, <1>2, <1>3, Concat DEF Holds

LEMMA HoldsAllFront ==
    ASSUME NEW q \in Seq(Fields), NEW r \in Seq(Fields), NEW i, NEW strings, HoldsAll(q, i, strings)
    PROVE  HoldsAll(q \o r, i, strings)
  BY HoldsFront DEF HoldsAll

LEMMA HoldsAllBack ==
    ASSUME NEW q \in Seq(Fields), NEW r \in Seq(Fields), NEW i \in Nat,
           NEW strings, Len(strings) \in Nat, HoldsAll(r, i, strings)
    PROVE  \A j : j = Len(q) + i => HoldsAll(q \o r, j, strings)
<1>1. ASSUME NEW k \in 1..Len(strings)
      PROVE  Holds(q \o r, Len(q) + i + 2 * (k - 1), 2, strings[k])
  <2>1. Holds(r, i + 2 * (k - 1), 2, strings[k]) BY DEF HoldsAll
  <2>2. Len(q) + i + 2 * (k - 1) = Len(q) + (i + 2 * (k - 1)) OBVIOUS
  <2> QED BY <2>1, <2>2, HoldsBack
<1> QED BY <1>1 DEF HoldsAll

-----------------------------------------------------------------------------
(* Sizes. *)

LEMMA SizeOf ==
    ASSUME NEW p \in Seq(Fields)
    PROVE  /\ PayloadSize(p) \in Nat
           /\ \E g : IsSum(g, p, Len(p)) /\ PayloadSize(p) = g[Len(p)]
<1>1. Measured(p) BY FieldsMeasured
<1>2. PICK g : IsSum(g, p, Len(p)) BY <1>1, SumExists
<1> QED BY <1>1, <1>2, PayloadSum

\* The size of two payloads, one behind the other.
LEMMA SizeConcat ==
    ASSUME NEW q \in Seq(Fields), NEW r \in Seq(Fields)
    PROVE  PayloadSize(q \o r) = PayloadSize(q) + PayloadSize(r)
<1> DEFINE m == Len(q)
<1> DEFINE n == Len(r)
<1> DEFINE p == q \o r
<1>0. m \in Nat /\ n \in Nat OBVIOUS
<1>1. /\ p \in Seq(Fields) /\ Len(p) = m + n
      /\ \A i \in 1..m : p[i] = q[i]
      /\ \A j \in 1..n : p[m + j] = r[j]
  BY Concat
<1>2. Measured(q) /\ Measured(r) /\ Measured(p) BY <1>1, FieldsMeasured
<1>3. PICK g : IsSum(g, q, m) /\ PayloadSize(q) = g[m] BY SizeOf
<1>4. PICK h : IsSum(h, r, n) /\ PayloadSize(r) = h[n] BY SizeOf
<1> HIDE DEF m, n, p
<1> DEFINE k == [i \in 0..(m + n) |-> IF i <= m THEN g[i] ELSE g[m] + h[i - m]]
<1>5. (\A i \in 0..m : g[i] \in Nat) /\ (\A i \in 0..n : h[i] \in Nat) /\ g[0] = 0 /\ h[0] = 0
  BY <1>3, <1>4 DEF IsSum
<1>6. IsSum(k, p, m + n)
  <2>1. ASSUME NEW i \in 0..(m + n) PROVE k[i] \in Nat
    <3>1. CASE i <= m
      <4>1. i \in 0..m BY <1>0, <3>1
      <4> QED BY <1>5, <3>1, <4>1
    <3>2. CASE ~(i <= m)
      <4>1. i - m \in 0..n /\ m \in 0..m BY <1>0, <3>2
      <4>2. g[m] \in Nat /\ h[i - m] \in Nat BY <1>5, <4>1
      <4> QED BY <3>2, <4>2
    <3> QED BY <3>1, <3>2
  <2>2. k[0] = 0
    <3>1. 0 \in 0..(m + n) /\ 0 <= m BY <1>0
    <3> QED BY <1>5, <3>1
  <2>3. ASSUME NEW i \in 1..(m + n) PROVE k[i] = k[i - 1] + p[i].width
    <3>0. i \in 0..(m + n) /\ i - 1 \in 0..(m + n) BY <1>0
    <3>1. CASE i <= m
      <4>1. i \in 1..m /\ i - 1 <= m BY <1>0, <3>1
      <4>2. k[i] = g[i] /\ k[i - 1] = g[i - 1] BY <3>0, <3>1, <4>1
      <4>3. g[i] = g[i - 1] + q[i].width /\ p[i] = q[i] BY <1>1, <1>3, <4>1 DEF IsSum
      <4> QED BY <4>2, <4>3
    <3>2. CASE i = m + 1
      <4>1. 1 \in 1..n /\ 1 - 1 = 0 /\ i - m = 1 /\ i - 1 = m /\ ~(i <= m) /\ m \in 0..m
        BY <1>0, <3>2
      <4>2. k[i] = g[m] + h[1] /\ k[i - 1] = g[m] BY <3>0, <4>1
      <4>3. h[1] = h[0] + r[1].width
        <5>1. \A j \in 1..n : h[j] = h[j - 1] + r[j].width BY <1>4 DEF IsSum
        <5> QED BY <4>1, <5>1
      <4>4. p[i] = r[1] BY <1>1, <3>2, <4>1
      <4>5. r[1].width \in Nat /\ g[m] \in Nat BY <1>2, <1>5, <4>1 DEF Measured, n
      <4> QED BY <1>5, <4>2, <4>3, <4>4, <4>5
    <3>3. CASE i > m + 1
      <4>1. /\ i - m \in 1..n /\ i - m - 1 \in 0..n /\ i - 1 - m = i - m - 1 /\ m + (i - m) = i
            /\ ~(i <= m) /\ ~(i - 1 <= m) /\ m \in 0..m /\ i - m \in 0..n
        BY <1>0, <3>3
      <4>2. k[i] = g[m] + h[i - m] /\ k[i - 1] = g[m] + h[i - m - 1] BY <3>0, <4>1
      <4>3. h[i - m] = h[i - m - 1] + r[i - m].width
        <5>1. \A j \in 1..n : h[j] = h[j - 1] + r[j].width BY <1>4 DEF IsSum
        <5> QED BY <4>1, <5>1
      <4>4. p[i] = r[i - m]
        <5>1. p[m + (i - m)] = r[i - m] BY <1>1, <4>1
        <5> QED BY <4>1, <5>1
      <4>5. r[i - m].width \in Nat /\ g[m] \in Nat /\ h[i - m - 1] \in Nat
        BY <1>2, <1>5, <4>1 DEF Measured, n
      <4> QED BY <4>2, <4>3, <4>4, <4>5
    <3> QED BY <1>0, <3>1, <3>2, <3>3
  <2> HIDE DEF k
  <2>4. k \in [0..(m + n) -> Nat]
    <3>1. k = [i \in 0..(m + n) |-> k[i]] BY DEF k
    <3> QED BY <2>1, <3>1
  <2> QED BY <2>2, <2>3, <2>4 DEF IsSum
<1>7. PayloadSize(p) = k[m + n]
  <2> HIDE DEF k
  <2> QED BY <1>1, <1>2, <1>6, PayloadSum
<1>8. k[m + n] = g[m] + h[n]
  <2>1. m + n \in 0..(m + n) /\ m + n - m = n BY <1>0
  <2>2. CASE n = 0
    <3>1. m + n = m /\ m \in 0..m /\ m + n <= m BY <1>0, <2>2
    <3>2. g[m] \in Nat /\ h[n] = 0 BY <1>5, <2>2, <3>1
    <3>3. k[m + n] = g[m + n] BY <2>1, <3>1
    <3> QED BY <3>1, <3>2, <3>3
  <2>3. CASE n # 0
    <3>1. ~(m + n <= m) BY <1>0, <2>3
    <3>2. ASSUME NEW x, x = m + n PROVE k[x] = g[m] + h[n]
      <4>1. x \in 0..(m + n) /\ ~(x <= m) /\ x - m = n BY <1>0, <3>1, <3>2
      <4>2. k[x] = g[m] + h[x - m] BY <4>1
      <4> QED BY <4>1, <4>2
    <3> QED BY <3>2
  <2> QED BY <2>2, <2>3
<1> QED BY <1>3, <1>4, <1>7, <1>8 DEF p

\* Fields of at most b bytes.
LEMMA SizeAtMost ==
    ASSUME NEW p \in Seq(Fields), NEW b \in Nat, \A i \in 1..Len(p) : p[i].width <= b
    PROVE  PayloadSize(p) <= Len(p) * b
<1> DEFINE n == Len(p)
<1>0. n \in Nat OBVIOUS
<1>1. PICK g : IsSum(g, p, n) /\ PayloadSize(p) = g[n] BY SizeOf
<1> DEFINE T == {i \in 0..n : ~(g[i] <= i * b)}
<1>2. ASSUME T # {} PROVE FALSE
  <2>1. PICK x \in T : \A y \in T : x <= y
    <3>1. T \subseteq Nat BY <1>0
    <3> HIDE DEF T
    <3> QED BY <1>2, <3>1, Least, Zenon
  <2>2. x \in 0..n /\ ~(g[x] <= x * b) BY <2>1
  <2>3. g[0] = 0 /\ \A i \in 0..n : g[i] \in Nat BY <1>1 DEF IsSum
  <2>4. x # 0 BY <2>2, <2>3
  <2>5. x \in 1..n /\ x - 1 \in 0..n /\ x - 1 < x BY <1>0, <2>2, <2>4
  <2>6. g[x - 1] <= (x - 1) * b BY <2>1, <2>5
  <2>7. g[x] = g[x - 1] + p[x].width /\ p[x].width <= b BY <1>1, <2>5 DEF IsSum
  <2>8. p[x].width \in Nat /\ g[x - 1] \in Nat BY <2>3, <2>5, FieldsMeasured DEF Measured
  <2>9. (x - 1) * b + b = x * b
    <3>1. \A y, c \in Int : (y - 1) * c + c = y * c BY SMT
    <3> QED BY <2>5, <3>1
  <2>10. (x - 1) * b \in Nat BY <2>5
  <2> QED BY <2>2, <2>6, <2>7, <2>8, <2>9, <2>10
<1>3. n \in 0..n BY <1>0
<1> QED BY <1>1, <1>2, <1>3

\* What the other functions write.
LEMMA PrefixedHolds ==
    ASSUME NEW w \in {1, 2}, NEW s \in ByteStrings
    PROVE  /\ Prefixed(w, s) \in Seq(Fields) /\ Len(Prefixed(w, s)) = 2
           /\ Holds(Prefixed(w, s), 1, w, s)
<1>1. Num(w, StrLen[s]) \in Fields /\ Bytes(s) \in Fields BY BytesVal DEF Fields
<1> QED BY <1>1 DEF Prefixed, Holds

LEMMA CountedHolds ==
    ASSUME NEW strings \in Seq(ByteStrings)
    PROVE  LET q == <<Num(1, Len(strings))>> \o PrefixedAll(strings)
           IN  /\ q \in Seq(Fields) /\ Len(q) = 1 + 2 * Len(strings)
               /\ q[1] = Num(1, Len(strings)) /\ HoldsAll(q, 2, strings)
<1> DEFINE a == <<Num(1, Len(strings))>>
<1> DEFINE b == PrefixedAll(strings)
<1>1. a \in Seq(Fields) /\ Len(a) = 1 /\ a[1] = Num(1, Len(strings))
  BY DEF Fields
<1>2. b \in Seq(Fields) /\ Len(b) = 2 * Len(strings) /\ HoldsAll(b, 1, strings)
  BY PrefixedAllHolds
<1> HIDE DEF a, b
<1>3. HoldsAll(a \o b, 2, strings)
  <2>1. Len(strings) \in Nat /\ 2 = Len(a) + 1 BY <1>1
  <2> QED BY <1>1, <1>2, <2>1, HoldsAllBack
<1>4. a \o b \in Seq(Fields) /\ Len(a \o b) = 1 + 2 * Len(strings)
      /\ (a \o b)[1] = Num(1, Len(strings))
  <2>1. 1 \in 1..Len(a) BY <1>1
  <2>2. (a \o b)[1] = a[1] BY <1>1, <1>2, <2>1, Concat
  <2>3. a \o b \in Seq(Fields) /\ Len(a \o b) = Len(a) + Len(b) BY <1>1, <1>2, Concat
  <2> QED BY <1>1, <1>2, <2>2, <2>3
<1> QED BY <1>3, <1>4 DEF a, b

\* The fields of a request, and where they stand.
Legacy(p, m) ==
    /\ p[1] = Bytes(m.id) /\ Holds(p, 2, 1, m.protocol)
    /\ Holds(p, 4, 2, m.service) /\ Holds(p, 6, 2, m.egress)
    /\ p[8] = Num(1, Len(m.route)) /\ HoldsAll(p, 9, m.route)

LEMMA LegacyHolds ==
    ASSUME NEW m \in ConnectRequests
    PROVE  /\ LegacyRequest(m) \in Seq(Fields)
           /\ Len(LegacyRequest(m)) = 8 + 2 * Len(m.route)
           /\ Legacy(LegacyRequest(m), m)
<1> DEFINE a1 == <<Bytes(m.id)>>
<1> DEFINE b1 == Prefixed(1, m.protocol)
<1> DEFINE b2 == Prefixed(2, m.service)
<1> DEFINE b3 == Prefixed(2, m.egress)
<1> DEFINE b4 == writeRoute(m.route)
<1>0. /\ {m.id, m.protocol, m.service, m.egress} \subseteq ByteStrings
      /\ m.route \in Seq(ByteStrings) /\ Len(m.route) \in Nat
  BY DEF ConnectRequests
<1>1. a1 \in Seq(Fields) /\ Len(a1) = 1 /\ a1[1] = Bytes(m.id) BY <1>0 DEF Fields
<1>2. /\ b1 \in Seq(Fields) /\ Len(b1) = 2 /\ Holds(b1, 1, 1, m.protocol)
      /\ b2 \in Seq(Fields) /\ Len(b2) = 2 /\ Holds(b2, 1, 2, m.service)
      /\ b3 \in Seq(Fields) /\ Len(b3) = 2 /\ Holds(b3, 1, 2, m.egress)
  BY <1>0, PrefixedHolds
<1>3. /\ b4 \in Seq(Fields) /\ Len(b4) = 1 + 2 * Len(m.route)
      /\ b4[1] = Num(1, Len(m.route)) /\ HoldsAll(b4, 2, m.route)
  BY <1>0, CountedHolds DEF writeRoute
<1>4. LegacyRequest(m) = a1 \o b1 \o b2 \o b3 \o b4 BY DEF LegacyRequest
<1> HIDE DEF a1, b1, b2, b3, b4
<1> DEFINE a2 == a1 \o b1
<1>5. /\ a2 \in Seq(Fields) /\ Len(a2) = 3 /\ a2[1] = Bytes(m.id)
      /\ Holds(a2, 2, 1, m.protocol)
  <2>1. 1 \in 1..Len(a1) /\ 2 = Len(a1) + 1 BY <1>1
  <2>2. Holds(a2, 2, 1, m.protocol) BY <1>1, <1>2, <2>1, HoldsBack
  <2>3. a2[1] = a1[1] BY <1>1, <1>2, <2>1, Concat
  <2>4. a2 \in Seq(Fields) /\ Len(a2) = Len(a1) + Len(b1) BY <1>1, <1>2, Concat
  <2> QED BY <1>1, <1>2, <2>2, <2>3, <2>4
<1> HIDE DEF a2
<1> DEFINE a3 == a2 \o b2
<1>6. /\ a3 \in Seq(Fields) /\ Len(a3) = 5 /\ a3[1] = Bytes(m.id)
      /\ Holds(a3, 2, 1, m.protocol) /\ Holds(a3, 4, 2, m.service)
  <2>1. 1 \in 1..Len(a2) /\ 4 = Len(a2) + 1 BY <1>5
  <2>2. Holds(a3, 4, 2, m.service) BY <1>2, <1>5, <2>1, HoldsBack
  <2>3. Holds(a3, 2, 1, m.protocol) BY <1>2, <1>5, HoldsFront
  <2>4. a3[1] = a2[1] BY <1>2, <1>5, <2>1, Concat
  <2>5. a3 \in Seq(Fields) /\ Len(a3) = Len(a2) + Len(b2) BY <1>2, <1>5, Concat
  <2> QED BY <1>2, <1>5, <2>2, <2>3, <2>4, <2>5
<1> HIDE DEF a3
<1> DEFINE a4 == a3 \o b3
<1>7. /\ a4 \in Seq(Fields) /\ Len(a4) = 7 /\ a4[1] = Bytes(m.id)
      /\ Holds(a4, 2, 1, m.protocol) /\ Holds(a4, 4, 2, m.service)
      /\ Holds(a4, 6, 2, m.egress)
  <2>1. 1 \in 1..Len(a3) /\ 6 = Len(a3) + 1 BY <1>6
  <2>2. Holds(a4, 6, 2, m.egress) BY <1>2, <1>6, <2>1, HoldsBack
  <2>3. Holds(a4, 2, 1, m.protocol) /\ Holds(a4, 4, 2, m.service)
    BY <1>2, <1>6, HoldsFront
  <2>4. a4[1] = a3[1] BY <1>2, <1>6, <2>1, Concat
  <2>5. a4 \in Seq(Fields) /\ Len(a4) = Len(a3) + Len(b3) BY <1>2, <1>6, Concat
  <2> QED BY <1>2, <1>6, <2>2, <2>3, <2>4, <2>5
<1> HIDE DEF a4
<1> DEFINE a5 == a4 \o b4
<1>8. /\ a5 \in Seq(Fields) /\ Len(a5) = 8 + 2 * Len(m.route)
      /\ a5[1] = Bytes(m.id) /\ a5[8] = Num(1, Len(m.route))
  <2>1. 1 \in 1..Len(a4) /\ 1 \in 1..Len(b4) /\ 8 = Len(a4) + 1 BY <1>0, <1>3, <1>7
  <2>2. a5[1] = a4[1] /\ a5[Len(a4) + 1] = b4[1] BY <1>3, <1>7, <2>1, Concat
  <2>3. a5 \in Seq(Fields) /\ Len(a5) = Len(a4) + Len(b4) BY <1>3, <1>7, Concat
  <2> QED BY <1>0, <1>3, <1>7, <2>1, <2>2, <2>3
<1>9. /\ Holds(a5, 2, 1, m.protocol) /\ Holds(a5, 4, 2, m.service)
      /\ Holds(a5, 6, 2, m.egress)
  BY <1>3, <1>7, HoldsFront
<1>10. HoldsAll(a5, 9, m.route)
  <2>1. 9 = Len(a4) + 2 BY <1>7
  <2> QED BY <1>0, <1>3, <1>7, <2>1, HoldsAllBack
<1>11. LegacyRequest(m) = a5 BY <1>4, Zenon DEF a5, a4, a3, a2
<1> HIDE DEF a5
<1> QED BY <1>8, <1>9, <1>10, <1>11 DEF Legacy

-----------------------------------------------------------------------------
(* ConnectRequest. *)

\* The limits are below what the widths of the lengths hold.
LEMMA Limits ==
    /\ MaxProtocolLength \in Nat /\ Fits(MaxProtocolLength, 1)
    /\ MaxTargetLength \in Nat /\ Fits(MaxTargetLength, 2)
    /\ MaxE2ECertLength \in Nat /\ Fits(MaxE2ECertLength, 2)
    /\ MaxE2EEphemeralKeyLength \in Nat /\ Fits(MaxE2EEphemeralKeyLength, 2)
    /\ MaxE2ESignatureLength \in Nat /\ Fits(MaxE2ESignatureLength, 2)
    /\ MaxE2ENonceSuffixLength \in Nat /\ Fits(MaxE2ENonceSuffixLength, 1)
    /\ MaxE2ECiphertextLength \in Nat /\ Fits(MaxE2ECiphertextLength, 2)
    /\ MaxE2ECloseMessageLength \in Nat /\ Fits(MaxE2ECloseMessageLength, 2)
  BY SMT DEF Fits, MaxProtocolLength, MaxE2ENonceSuffixLength, MaxTargetLength, MaxE2ECertLength,
     MaxE2EEphemeralKeyLength, MaxE2ESignatureLength, MaxE2ECiphertextLength,
     MaxE2ECloseMessageLength, MaxPayloadSize

\* What the reader finds in the part every request has.
LEMMA LegacyRead ==
    ASSUME NEW m \in ConnectRequests, CanWriteRequest(m), NEW p \in Seq(Fields), Legacy(p, m),
           Len(p) >= 8 + 2 * Len(m.route)
    PROVE  /\ Len(p) \in Nat /\ Len(m.route) \in Nat /\ Len(m.route) <= 255
           /\ p # <<>> /\ p[1].width = 16 /\ p[1].val = m.id
           /\ HasString(p, 2, 1, 1, MaxProtocolLength) /\ p[3].val = m.protocol
           /\ HasString(p, 4, 2, 1, MaxTargetLength) /\ p[5].val = m.service
           /\ HasString(p, 6, 2, 0, MaxTargetLength) /\ p[7].val = m.egress
           /\ IsNum(p, 8, 1) /\ p[8].val = Len(m.route)
           /\ HasStrings(p, 9, Len(m.route), MaxTargetLength)
           /\ Strings(p, 9, Len(m.route)) = m.route
<1>0. /\ m.id \in ByteStrings /\ m.protocol \in ByteStrings /\ m.service \in ByteStrings
      /\ m.egress \in ByteStrings /\ m.route \in Seq(ByteStrings)
  BY DEF ConnectRequests
<1>1. Len(p) \in Nat /\ Len(m.route) \in Nat /\ Len(m.route) <= 255 /\ Len(p) >= 8 /\ p # <<>>
  <2>1. Len(m.route) <= 255 BY DEF CanWriteRequest, encodedRouteLengthOK
  <2>2. Len(m.route) \in Nat BY <1>0
  <2>3. Len(p) \in Nat OBVIOUS
  <2>4. Len(p) >= 8 BY <2>2, <2>3
  <2>5. p # <<>> BY <2>4
  <2> QED BY ONLY <2>1, <2>2, <2>3, <2>4, <2>5
<1>2. p[1].width = 16 /\ p[1].val = m.id
  <2>1. p[1] = Bytes(m.id) /\ Within(m.id, 16, 16) BY DEF Legacy, CanWriteRequest
  <2> QED BY <1>0, <2>1, ReadBytes
<1>3. HasString(p, 2, 1, 1, MaxProtocolLength) /\ p[3].val = m.protocol
  <2>1. Holds(p, 2, 1, m.protocol) /\ Within(m.protocol, 1, MaxProtocolLength)
    BY DEF Legacy, CanWriteRequest
  <2>2. HasString(p, 2, 1, 1, MaxProtocolLength) BY <1>0, <1>1, <2>1, HoldsString, Limits
  <2> QED BY <1>0, <2>1, <2>2, HoldsVal
<1>4. HasString(p, 4, 2, 1, MaxTargetLength) /\ p[5].val = m.service
  <2>1. Holds(p, 4, 2, m.service) /\ Within(m.service, 1, MaxTargetLength)
    BY DEF Legacy, CanWriteRequest
  <2>2. HasString(p, 4, 2, 1, MaxTargetLength) BY <1>0, <1>1, <2>1, HoldsString, Limits
  <2> QED BY <1>0, <2>1, <2>2, HoldsVal
<1>5. HasString(p, 6, 2, 0, MaxTargetLength) /\ p[7].val = m.egress
  <2>1. Holds(p, 6, 2, m.egress) /\ Within(m.egress, 0, MaxTargetLength)
    BY DEF Legacy, CanWriteRequest
  <2>2. HasString(p, 6, 2, 0, MaxTargetLength) BY <1>0, <1>1, <2>1, HoldsString, Limits
  <2> QED BY <1>0, <2>1, <2>2, HoldsVal
<1>6. IsNum(p, 8, 1) /\ p[8].val = Len(m.route)
  <2>1. p[8] = Num(1, Len(m.route)) BY DEF Legacy
  <2>2. Len(m.route) \in Nat /\ Fits(Len(m.route), 1) /\ 8 <= Len(p) BY <1>1, ByteFits
  <2> QED BY <2>1, <2>2, ReadNum
<1>7. /\ HasStrings(p, 9, Len(m.route), MaxTargetLength)
      /\ Strings(p, 9, Len(m.route)) = m.route
  <2>1. HoldsAll(p, 9, m.route) /\ AllWithin(m.route, MaxTargetLength)
    BY DEF Legacy, CanWriteRequest, encodedRouteLengthOK
  <2>2. MaxTargetLength \in Nat /\ Fits(MaxTargetLength, 2) BY Limits
  <2>3. 9 \in Nat \ {0} OBVIOUS
  <2> QED BY <1>0, <1>1, <2>1, <2>2, <2>3, HoldsStrings, Zenon
<1> QED BY <1>1, <1>2, <1>3, <1>4, <1>5, <1>6, <1>7

\* A request of a client that knows no E2E fields is read as one without them.
LEMMA LegacyRoundTrip ==
    ASSUME NEW m \in ConnectRequests, CanWriteRequest(m), ~m.e2eRequired, m.e2eRoute = <<>>
    PROVE  ReadConnectRequest(LegacyRequest(m)) = m
<1> DEFINE p == LegacyRequest(m)
<1> DEFINE n == Len(m.route)
<1>1. p \in Seq(Fields) /\ Len(p) = 8 + 2 * n /\ Legacy(p, m) BY LegacyHolds
<1> HIDE DEF p
<1>2. /\ Len(p) \in Nat /\ n \in Nat
      /\ p # <<>> /\ p[1].width = 16 /\ p[1].val = m.id
      /\ HasString(p, 2, 1, 1, MaxProtocolLength) /\ p[3].val = m.protocol
      /\ HasString(p, 4, 2, 1, MaxTargetLength) /\ p[5].val = m.service
      /\ HasString(p, 6, 2, 0, MaxTargetLength) /\ p[7].val = m.egress
      /\ IsNum(p, 8, 1) /\ p[8].val = n
      /\ HasStrings(p, 9, n, MaxTargetLength) /\ Strings(p, 9, n) = m.route
  BY <1>1, LegacyRead
<1>3. E2EPlace(p) = 9 + 2 * n BY <1>2 DEF E2EPlace
<1>4. /\ ~(E2EPlace(p) <= Len(p)) /\ ~(E2EPlace(p) < Len(p)) /\ Len(p) = E2EPlace(p) - 1
  BY <1>1, <1>2, <1>3
<1>5. E2ECount(p) = 0 BY <1>4 DEF E2ECount
<1>6. E2EFieldsOK(p) BY <1>4 DEF E2EFieldsOK
<1>7. Strings(p, E2EPlace(p) + 2, 0) = <<>> BY DEF Strings
<1>8. ReadConnectRequest(p) =
        [type |-> "ConnectRequest", id |-> m.id, protocol |-> m.protocol,
         service |-> m.service, egress |-> m.egress, route |-> m.route,
         e2eRequired |-> FALSE, e2eRoute |-> <<>>]
  BY <1>2, <1>4, <1>5, <1>6, <1>7 DEF ReadConnectRequest
<1> QED BY <1>8 DEF p, ConnectRequests

\* Any request is read as it was written.
LEMMA RequestRoundTrip ==
    ASSUME NEW m \in ConnectRequests, CanWriteRequest(m)
    PROVE  EncodeRequest(m) \in Seq(Fields) /\ ReadConnectRequest(EncodeRequest(m)) = m
<1> DEFINE n == Len(m.route)
<1> DEFINE c == Len(m.e2eRoute)
<1> DEFINE v == IF m.e2eRequired THEN 1 ELSE 0
<1> DEFINE a == LegacyRequest(m)
<1> DEFINE b == <<Num(1, v)>>
<1> DEFINE d == writeRoute(m.e2eRoute)
<1>0. /\ n \in Nat /\ c \in Nat /\ c <= 255 /\ m.e2eRoute \in Seq(ByteStrings)
      /\ m.e2eRequired \in BOOLEAN /\ v \in Nat /\ v \in {0, 1} /\ (v = 1) = m.e2eRequired
  BY DEF ConnectRequests, CanWriteRequest, encodedRouteLengthOK
<1>1. a \in Seq(Fields) /\ Len(a) = 8 + 2 * n /\ Legacy(a, m) BY LegacyHolds
<1>2. b \in Seq(Fields) /\ Len(b) = 1 /\ b[1] = Num(1, v) BY <1>0 DEF Fields
<1>3. /\ d \in Seq(Fields) /\ Len(d) = 1 + 2 * c
      /\ d[1] = Num(1, c) /\ HoldsAll(d, 2, m.e2eRoute)
  BY <1>0, CountedHolds DEF writeRoute
<1>4. EncodeRequest(m) = a \o b \o d BY DEF EncodeRequest
<1> HIDE DEF n, c, v, a, b, d
<1> DEFINE e == a \o b
<1>5. e \in Seq(Fields) /\ Len(e) = 9 + 2 * n /\ e[9 + 2 * n] = Num(1, v) /\ Legacy(e, m)
  <2>1. 1 \in 1..Len(a) /\ 8 \in 1..Len(a) /\ 1 \in 1..Len(b) /\ 9 + 2 * n = Len(a) + 1
    BY <1>0, <1>1, <1>2
  <2>2. e[1] = a[1] /\ e[8] = a[8] BY <1>1, <1>2, <2>1, Concat
  <2>3. e[Len(a) + 1] = b[1] BY <1>1, <1>2, <2>1, Concat
  <2>4. e \in Seq(Fields) /\ Len(e) = Len(a) + Len(b) BY <1>1, <1>2, Concat
  <2>5. /\ Holds(e, 2, 1, m.protocol) /\ Holds(e, 4, 2, m.service) /\ Holds(e, 6, 2, m.egress)
        /\ HoldsAll(e, 9, m.route)
    BY <1>1, <1>2, HoldsFront, HoldsAllFront DEF Legacy
  <2>6. Legacy(e, m) BY <1>1, <2>2, <2>5 DEF Legacy
  <2> QED BY <1>0, <1>1, <1>2, <2>1, <2>3, <2>4, <2>6
<1> HIDE DEF e
<1> DEFINE p == e \o d
<1>6. /\ p \in Seq(Fields) /\ Len(p) = 10 + 2 * n + 2 * c
      /\ p[9 + 2 * n] = Num(1, v) /\ p[10 + 2 * n] = Num(1, c)
      /\ Legacy(p, m) /\ HoldsAll(p, 11 + 2 * n, m.e2eRoute)
  <2>1. /\ 1 \in 1..Len(e) /\ 8 \in 1..Len(e) /\ 9 + 2 * n \in 1..Len(e)
        /\ 1 \in 1..Len(d) /\ 10 + 2 * n = Len(e) + 1 /\ 11 + 2 * n = Len(e) + 2
    BY <1>0, <1>3, <1>5
  <2>2. p[1] = e[1] /\ p[8] = e[8] /\ p[9 + 2 * n] = e[9 + 2 * n] BY <1>3, <1>5, <2>1, Concat
  <2>3. p[Len(e) + 1] = d[1] BY <1>3, <1>5, <2>1, Concat
  <2>4. p \in Seq(Fields) /\ Len(p) = Len(e) + Len(d) BY <1>3, <1>5, Concat
  <2>5. /\ Holds(p, 2, 1, m.protocol) /\ Holds(p, 4, 2, m.service) /\ Holds(p, 6, 2, m.egress)
        /\ HoldsAll(p, 9, m.route)
    BY <1>3, <1>5, HoldsFront, HoldsAllFront DEF Legacy
  <2>6. HoldsAll(p, 11 + 2 * n, m.e2eRoute)
    <3>1. Len(m.e2eRoute) \in Nat BY <1>0
    <3> QED BY <1>3, <1>5, <2>1, <3>1, HoldsAllBack
  <2>7. Legacy(p, m) BY <1>5, <2>2, <2>5 DEF Legacy
  <2> QED BY <1>0, <1>3, <1>5, <2>1, <2>2, <2>3, <2>4, <2>6, <2>7
<1>7. EncodeRequest(m) = p BY <1>4, Zenon DEF e
<1> HIDE DEF p
<1>8. /\ Len(p) \in Nat
      /\ p # <<>> /\ p[1].width = 16 /\ p[1].val = m.id
      /\ HasString(p, 2, 1, 1, MaxProtocolLength) /\ p[3].val = m.protocol
      /\ HasString(p, 4, 2, 1, MaxTargetLength) /\ p[5].val = m.service
      /\ HasString(p, 6, 2, 0, MaxTargetLength) /\ p[7].val = m.egress
      /\ IsNum(p, 8, 1) /\ p[8].val = n
      /\ HasStrings(p, 9, n, MaxTargetLength) /\ Strings(p, 9, n) = m.route
  <2>1. Len(p) >= 8 + 2 * n BY <1>0, <1>6
  <2>2. Len(p) >= 8 + 2 * Len(m.route) BY <2>1 DEF n
  <2> QED BY <1>6, <2>2, LegacyRead, SMTT(30) DEF n
<1>9. E2EPlace(p) = 9 + 2 * n BY <1>8 DEF E2EPlace
<1>10. IsNum(p, 9 + 2 * n, 1) /\ p[9 + 2 * n].val = v
  <2>1. v <= 255 /\ 9 + 2 * n <= Len(p) BY <1>0, <1>6
  <2>2. Fits(v, 1) BY <1>0, <2>1, ByteFits
  <2> QED BY <1>0, <1>6, <2>1, <2>2, ReadNum
<1>11. IsNum(p, 10 + 2 * n, 1) /\ p[10 + 2 * n].val = c
  <2>1. 10 + 2 * n <= Len(p) BY <1>0, <1>6
  <2>2. Fits(c, 1) BY <1>0, ByteFits
  <2> QED BY <1>0, <1>6, <2>1, <2>2, ReadNum
<1>12. /\ HasStrings(p, 11 + 2 * n, c, MaxTargetLength)
       /\ Strings(p, 11 + 2 * n, c) = m.e2eRoute
  <2>1. AllWithin(m.e2eRoute, MaxTargetLength) /\ 11 + 2 * n \in Nat \ {0}
    BY <1>0 DEF CanWriteRequest, encodedRouteLengthOK
  <2>2. MaxTargetLength \in Nat /\ Fits(MaxTargetLength, 2) BY Limits
  <2>3. HoldsAll(p, 11 + 2 * n, m.e2eRoute) /\ m.e2eRoute \in Seq(ByteStrings) BY <1>0, <1>6
  <2> QED BY <1>8, <2>1, <2>2, <2>3, HoldsStrings, Zenon DEF c
<1>13. /\ E2EPlace(p) <= Len(p) /\ E2EPlace(p) < Len(p) /\ E2EPlace(p) + 1 = 10 + 2 * n
       /\ E2EPlace(p) + 2 = 11 + 2 * n /\ Len(p) = E2EPlace(p) + 1 + 2 * c
  BY <1>0, <1>6, <1>9
<1>14. E2ECount(p) = c BY <1>11, <1>13 DEF E2ECount
<1>15. E2EFieldsOK(p)
  <2>1. IsNum(p, E2EPlace(p), 1) /\ p[E2EPlace(p)].val \in {0, 1} BY <1>0, <1>9, <1>10
  <2>2. /\ IsNum(p, E2EPlace(p) + 1, 1)
        /\ HasStrings(p, E2EPlace(p) + 2, E2ECount(p), MaxTargetLength)
    BY <1>11, <1>12, <1>13, <1>14
  <2> QED BY <1>13, <1>14, <2>1, <2>2 DEF E2EFieldsOK
<1>16. ReadConnectRequest(p) =
         [type |-> "ConnectRequest", id |-> m.id, protocol |-> m.protocol,
          service |-> m.service, egress |-> m.egress, route |-> m.route,
          e2eRequired |-> m.e2eRequired, e2eRoute |-> m.e2eRoute]
  <2>1. (E2EPlace(p) <= Len(p) /\ p[E2EPlace(p)].val = 1) = m.e2eRequired
    BY <1>0, <1>9, <1>10, <1>13
  <2>2. Strings(p, E2EPlace(p) + 2, E2ECount(p)) = m.e2eRoute BY <1>12, <1>13, <1>14
  <2> QED BY <1>8, <1>15, <2>1, <2>2, Zenon DEF ReadConnectRequest
<1> QED BY <1>6, <1>7, <1>16 DEF ConnectRequests

-----------------------------------------------------------------------------
(* The other messages. *)

\* Two strings, one behind the other.
LEMMA TwoStrings ==
    ASSUME NEW v \in {1, 2}, NEW w \in {1, 2}, NEW s \in ByteStrings, NEW t \in ByteStrings
    PROVE  LET p == Prefixed(v, s) \o Prefixed(w, t)
           IN  p \in Seq(Fields) /\ Len(p) = 4 /\ Holds(p, 1, v, s) /\ Holds(p, 3, w, t)
<1> DEFINE a == Prefixed(v, s)
<1> DEFINE b == Prefixed(w, t)
<1>1. /\ a \in Seq(Fields) /\ Len(a) = 2 /\ Holds(a, 1, v, s)
      /\ b \in Seq(Fields) /\ Len(b) = 2 /\ Holds(b, 1, w, t)
  BY PrefixedHolds
<1> HIDE DEF a, b
<1>2. Holds(a \o b, 1, v, s) BY <1>1, HoldsFront
<1>3. Holds(a \o b, 3, w, t)
  <2>1. 3 = Len(a) + 1 BY <1>1
  <2> QED BY <1>1, <2>1, HoldsBack
<1>4. a \o b \in Seq(Fields) /\ Len(a \o b) = Len(a) + Len(b) BY <1>1, Concat
<1> QED BY <1>1, <1>2, <1>3, <1>4 DEF a, b

LEMMA DataRoundTrip ==
    ASSUME NEW m \in E2EData, CanWriteData(m)
    PROVE  LET p == Prefixed(1, m.nonce) \o Prefixed(2, m.ciphertext)
           IN  p \in Seq(Fields) /\ DecodeE2EDataPayload(p) = m
<1> DEFINE p == Prefixed(1, m.nonce) \o Prefixed(2, m.ciphertext)
<1>0. m.nonce \in ByteStrings /\ m.ciphertext \in ByteStrings BY DEF E2EData
<1>1. p \in Seq(Fields) /\ Len(p) = 4 /\ Holds(p, 1, 1, m.nonce) /\ Holds(p, 3, 2, m.ciphertext)
  BY <1>0, TwoStrings
<1> HIDE DEF p
<1>2. HasString(p, 1, 1, 1, MaxE2ENonceSuffixLength)
  <2>1. Within(m.nonce, 1, MaxE2ENonceSuffixLength) BY DEF CanWriteData
  <2>2. MaxE2ENonceSuffixLength \in Nat /\ Fits(MaxE2ENonceSuffixLength, 1) BY Limits
  <2>3. Len(p) \in Nat BY <1>1
  <2> QED BY <1>0, <1>1, <2>1, <2>2, <2>3, HoldsString
<1>3. HasString(p, 3, 2, 1, MaxE2ECiphertextLength)
  <2>1. Within(m.ciphertext, 1, MaxE2ECiphertextLength) BY DEF CanWriteData
  <2>2. MaxE2ECiphertextLength \in Nat /\ Fits(MaxE2ECiphertextLength, 2) BY Limits
  <2>3. Len(p) \in Nat BY <1>1
  <2> QED BY <1>0, <1>1, <2>1, <2>2, <2>3, HoldsString
<1>4. p[2].val = m.nonce /\ p[4].val = m.ciphertext
  <2>1. 2 = 1 + 1 /\ 4 = 3 + 1 OBVIOUS
  <2> QED BY <1>0, <1>1, <2>1, HoldsVal
<1>5. DecodeE2EDataPayload(p) =
        [type |-> "E2EData", nonce |-> m.nonce, ciphertext |-> m.ciphertext]
  BY <1>1, <1>2, <1>3, <1>4 DEF DecodeE2EDataPayload
<1>6. DecodeE2EDataPayload(p) = m BY <1>5 DEF E2EData
<1> QED BY <1>1, <1>6 DEF p

LEMMA FinishedRoundTrip ==
    ASSUME NEW m \in E2EClientFinished, Within(m.signature, 1, MaxE2ESignatureLength)
    PROVE  LET p == Prefixed(2, m.signature)
           IN  p \in Seq(Fields) /\ ReadE2EClientFinished(p) = m
<1> DEFINE p == Prefixed(2, m.signature)
<1>0. m.signature \in ByteStrings BY DEF E2EClientFinished
<1>1. p \in Seq(Fields) /\ Len(p) = 2 /\ Holds(p, 1, 2, m.signature)
  BY <1>0, PrefixedHolds
<1> HIDE DEF p
<1>2. HasString(p, 1, 2, 1, MaxE2ESignatureLength) BY <1>0, <1>1, HoldsString, Limits
<1>3. p[2].val = m.signature BY <1>0, <1>1, HoldsVal
<1>4. ReadE2EClientFinished(p) = [type |-> "E2EClientFinished", signature |-> m.signature]
  BY <1>1, <1>2, <1>3 DEF ReadE2EClientFinished
<1>5. ReadE2EClientFinished(p) = m BY <1>4 DEF E2EClientFinished
<1> QED BY <1>1, <1>5 DEF p

\* A status, a code and a message.
LEMMA StatusRead ==
    ASSUME NEW status \in Nat, status <= 255, NEW code \in Nat, Valid(code),
           NEW message \in ByteStrings, Within(message, 0, MaxE2ECloseMessageLength)
    PROVE  LET p == StatusPayload(status, code, message)
           IN  /\ p \in Seq(Fields) /\ HasStatus(p)
               /\ p[1].val = status /\ p[2].val = code /\ p[4].val = message
<1> DEFINE a == <<Num(1, status), Num(1, code)>>
<1> DEFINE b == Prefixed(2, message)
<1>1. a \in Seq(Fields) /\ Len(a) = 2 /\ a[1] = Num(1, status) /\ a[2] = Num(1, code)
  BY DEF Fields
<1>2. b \in Seq(Fields) /\ Len(b) = 2 /\ Holds(b, 1, 2, message) BY PrefixedHolds
<1> HIDE DEF a, b
<1> DEFINE p == a \o b
<1>3. p \in Seq(Fields) /\ Len(p) = 4 /\ p[1] = Num(1, status) /\ p[2] = Num(1, code)
  <2>1. 1 \in 1..Len(a) /\ 2 \in 1..Len(a) BY <1>1
  <2>2. p[1] = a[1] /\ p[2] = a[2] BY <1>1, <1>2, <2>1, Concat
  <2>3. p \in Seq(Fields) /\ Len(p) = Len(a) + Len(b) BY <1>1, <1>2, Concat
  <2> QED BY <1>1, <1>2, <2>2, <2>3
<1>4. Holds(p, 3, 2, message)
  <2>1. 3 = Len(a) + 1 BY <1>1
  <2> QED BY <1>1, <1>2, <2>1, HoldsBack
<1>5. StatusPayload(status, code, message) = p BY DEF StatusPayload, a, b
<1> HIDE DEF p
<1>6. IsNum(p, 1, 1) /\ p[1].val = status
  BY <1>3, ByteFits, ReadNum
<1>7. IsNum(p, 2, 1) /\ p[2].val = code
  <2>1. code <= 255 BY DEF Valid, ConnectCodeInternalError
  <2> QED BY <1>3, <2>1, ByteFits, ReadNum
<1>8. HasString(p, 3, 2, 0, MaxE2ECloseMessageLength) BY <1>3, <1>4, HoldsString, Limits
<1>9. p[4].val = message BY <1>4, HoldsVal
<1> QED BY <1>3, <1>5, <1>6, <1>7, <1>8, <1>9 DEF HasStatus

\* A response carries its code; that of a success is OK, that of an error is not.
LEMMA ResponseRoundTrip ==
    ASSUME NEW m \in ConnectResponses, Within(m.message, 0, MaxE2ECloseMessageLength)
    PROVE  LET p == EncodeResponse(m)
           IN  p \in Seq(Fields) /\ ReadConnectResponse(p) = Normal(m)
<1> DEFINE status == IF m.ok THEN 0 ELSE 1
<1> DEFINE code == Normal(m).code
<1> DEFINE p == StatusPayload(status, code, m.message)
<1>0. /\ m.type = "ConnectResponse" /\ m.ok \in BOOLEAN /\ m.message \in ByteStrings
      /\ m.code \in Nat /\ m.code <= ConnectCodeInternalError
  BY DEF ConnectResponses, ConnectCodeOK, ConnectCodeInternalError
<1>1. /\ Normal(m) = [m EXCEPT !.code = code] /\ code \in Nat /\ Valid(code)
      /\ m.ok <=> code = ConnectCodeOK
  <2> DEFINE c == CASE m.ok -> ConnectCodeOK
                    [] ~m.ok /\ m.code = ConnectCodeOK -> ConnectCodeInternalError
                    [] OTHER -> m.code
  <2>1. Normal(m) = [m EXCEPT !.code = c] BY <1>0 DEF Normal
  <2>2. c \in Nat /\ Valid(c) /\ (m.ok <=> c = ConnectCodeOK)
    BY <1>0 DEF Valid, ConnectCodeOK, ConnectCodeInternalError
  <2> HIDE DEF c
  <2>3. Normal(m).code = c BY <2>1 DEF ConnectResponses
  <2> QED BY <2>1, <2>2, <2>3
<1> HIDE DEF code
<1>2. status \in Nat /\ status <= 255 /\ status \in {0, 1} /\ (m.ok <=> status = 0) BY <1>0
<1> HIDE DEF status
<1>3. /\ p \in Seq(Fields) /\ HasStatus(p)
      /\ p[1].val = status /\ p[2].val = code /\ p[4].val = m.message
  BY <1>0, <1>1, <1>2, StatusRead
<1> HIDE DEF p
<1>4. ReadConnectResponse(p) =
        [type |-> "ConnectResponse", ok |-> m.ok, code |-> code, message |-> m.message]
  <2>1. (p[1].val = 0) = m.ok BY <1>0, <1>2, <1>3
  <2>2. p[1].val \in {0, 1} /\ (p[1].val = 0 <=> p[2].val = ConnectCodeOK)
    BY <1>1, <1>2, <1>3
  <2> QED BY <1>3, <2>1, <2>2 DEF ReadConnectResponse
<1>5. ReadConnectResponse(p) = Normal(m) BY <1>1, <1>4 DEF ConnectResponses
<1>6. EncodeResponse(m) = p BY DEF EncodeResponse, p, status, code
<1> QED BY <1>3, <1>5, <1>6

LEMMA CloseRoundTrip ==
    ASSUME NEW m \in E2ECloses, Valid(m.connectCode), Within(m.message, 0, MaxE2ECloseMessageLength)
    PROVE  LET p == StatusPayload(m.code, m.connectCode, m.message)
           IN  p \in Seq(Fields) /\ DecodeE2EClosePayload(p) = m
<1> DEFINE p == StatusPayload(m.code, m.connectCode, m.message)
<1>0. /\ m.message \in ByteStrings /\ m.code \in Nat /\ m.code <= 255 /\ m.connectCode \in Nat
  BY DEF E2ECloses
<1>1. /\ p \in Seq(Fields) /\ HasStatus(p)
      /\ p[1].val = m.code /\ p[2].val = m.connectCode /\ p[4].val = m.message
  BY <1>0, StatusRead, SMTT(30)
<1> HIDE DEF p
<1>2. DecodeE2EClosePayload(p) =
        [type |-> "E2EClose", code |-> m.code, connectCode |-> m.connectCode,
         message |-> m.message]
  BY <1>1 DEF DecodeE2EClosePayload
<1>3. DecodeE2EClosePayload(p) = m BY <1>2 DEF E2ECloses
<1> QED BY <1>1, <1>3 DEF p

LEMMA HelloRoundTrip ==
    ASSUME NEW m \in E2EHellos, CanWriteHello(m)
    PROVE  LET p == marshalE2EHello(m)
           IN  p \in Seq(Fields) /\ unmarshalE2EHello(m.type, p) = m
<1> DEFINE n == Len(m.chain)
<1> DEFINE a == <<Num(1, n)>> \o PrefixedAll(m.chain)
<1> DEFINE b == Prefixed(2, m.key)
<1> DEFINE c == Prefixed(2, m.signature)
<1>0. /\ m.chain \in Seq(ByteStrings) /\ m.key \in ByteStrings /\ m.signature \in ByteStrings
      /\ n \in Nat
  BY DEF E2EHellos
<1>1. /\ n \in 1..MaxE2ECertChainCount /\ AllWithin(m.chain, MaxE2ECertLength)
      /\ Within(m.key, 1, MaxE2EEphemeralKeyLength)
      /\ Within(m.signature, 1, MaxE2ESignatureLength)
  BY DEF CanWriteHello
<1>2. /\ a \in Seq(Fields) /\ Len(a) = 1 + 2 * n /\ a[1] = Num(1, n) /\ HoldsAll(a, 2, m.chain)
  BY <1>0, CountedHolds
<1>3. /\ b \in Seq(Fields) /\ Len(b) = 2 /\ Holds(b, 1, 2, m.key)
      /\ c \in Seq(Fields) /\ Len(c) = 2 /\ Holds(c, 1, 2, m.signature)
  BY <1>0, PrefixedHolds
<1>4. marshalE2EHello(m) = (a \o b) \o c BY DEF marshalE2EHello
<1> HIDE DEF a, b, c
<1> DEFINE d == a \o b
<1>5. /\ d \in Seq(Fields) /\ Len(d) = 3 + 2 * n /\ d[1] = Num(1, n)
  <2>1. 1 \in 1..Len(a) BY <1>0, <1>2
  <2>2. d[1] = a[1] BY <1>2, <1>3, <2>1, Concat
  <2>3. d \in Seq(Fields) /\ Len(d) = Len(a) + Len(b) BY <1>2, <1>3, Concat
  <2> QED BY <1>0, <1>2, <1>3, <2>2, <2>3
<1>6. HoldsAll(d, 2, m.chain) /\ Holds(d, 2 + 2 * n, 2, m.key)
  <2>1. 2 + 2 * n = Len(a) + 1 BY <1>0, <1>2
  <2>2. Holds(d, 2 + 2 * n, 2, m.key) BY <1>2, <1>3, <2>1, HoldsBack
  <2>3. HoldsAll(d, 2, m.chain) BY <1>2, <1>3, HoldsAllFront
  <2> QED BY <2>2, <2>3
<1> HIDE DEF d
<1> DEFINE p == d \o c
<1>7. /\ p \in Seq(Fields) /\ Len(p) = 5 + 2 * n /\ p[1] = Num(1, n)
  <2>1. 1 \in 1..Len(d) BY <1>0, <1>5
  <2>2. p[1] = d[1] BY <1>3, <1>5, <2>1, Concat
  <2>3. p \in Seq(Fields) /\ Len(p) = Len(d) + Len(c) BY <1>3, <1>5, Concat
  <2> QED BY <1>0, <1>3, <1>5, <2>2, <2>3
<1>8. /\ HoldsAll(p, 2, m.chain) /\ Holds(p, 2 + 2 * n, 2, m.key)
      /\ Holds(p, 4 + 2 * n, 2, m.signature)
  <2>1. 4 + 2 * n = Len(d) + 1 BY <1>0, <1>5
  <2>2. Holds(p, 4 + 2 * n, 2, m.signature) BY <1>3, <1>5, <2>1, HoldsBack
  <2>3. Holds(p, 2 + 2 * n, 2, m.key) BY <1>3, <1>5, <1>6, HoldsFront
  <2>4. HoldsAll(p, 2, m.chain) BY <1>3, <1>5, <1>6, HoldsAllFront
  <2> QED BY <2>2, <2>3, <2>4
<1>9. marshalE2EHello(m) = p BY <1>4, Zenon DEF d
<1> HIDE DEF p
<1>10. IsNum(p, 1, 1) /\ p[1].val = n
  <2>1. n <= 255
    <3> HIDE DEF n
    <3> QED BY <1>0, <1>1, SMT DEF MaxE2ECertChainCount
  <2>2. Fits(n, 1) BY <1>0, <2>1, ByteFits
  <2>3. 1 <= Len(p) BY <1>0, <1>7
  <2> QED BY <1>0, <1>7, <2>2, <2>3, ReadNum
<1>11. /\ HasStrings(p, 2, n, MaxE2ECertLength) /\ Strings(p, 2, n) = m.chain
  <2>1. 2 \in Nat \ {0} /\ Len(p) \in Nat BY <1>7
  <2> QED BY <1>0, <1>1, <1>8, <2>1, HoldsStrings, Limits
<1>12. /\ HasString(p, 2 + 2 * n, 2, 1, MaxE2EEphemeralKeyLength)
       /\ p[2 + 2 * n + 1].val = m.key
  <2>1. Len(p) \in Nat BY <1>7
  <2>2. HasString(p, 2 + 2 * n, 2, 1, MaxE2EEphemeralKeyLength)
    BY <1>0, <1>1, <1>8, <2>1, HoldsString, Limits
  <2>3. p[2 + 2 * n + 1].val = m.key BY <1>0, <1>8, HoldsVal
  <2> QED BY <2>2, <2>3
<1>13. /\ HasString(p, 2 + 2 * n + 2, 2, 1, MaxE2ESignatureLength)
       /\ p[2 + 2 * n + 3].val = m.signature
  <2>1. Len(p) \in Nat BY <1>7
  <2>2. 2 + 2 * n + 2 = 4 + 2 * n /\ 2 + 2 * n + 3 = 4 + 2 * n + 1 BY <1>0
  <2>3. HasString(p, 4 + 2 * n, 2, 1, MaxE2ESignatureLength)
    BY <1>0, <1>1, <1>8, <2>1, HoldsString, Limits
  <2>4. p[2 + 2 * n + 3].val = m.signature BY <1>0, <1>8, <2>2, HoldsVal
  <2> QED BY <2>2, <2>3, <2>4
<1>14. Len(p) = 2 + 2 * n + 3 BY <1>0, <1>7
<1>15. unmarshalE2EHello(m.type, p) =
         [type |-> m.type, chain |-> m.chain, key |-> m.key, signature |-> m.signature]
  <2>1. p[1].val \in 1..MaxE2ECertChainCount BY <1>1, <1>10
  <2> QED BY <1>10, <1>11, <1>12, <1>13, <1>14, <2>1, Zenon DEF unmarshalE2EHello
<1>16. unmarshalE2EHello(m.type, p) = m BY <1>15 DEF E2EHellos
<1> QED BY <1>7, <1>9, <1>16

-----------------------------------------------------------------------------
(* Frames. *)

\* ReadFrame decodes what WriteFrame wrote: for every message a Write function
\* lets through, of any strings, route and chain, the Read function returns
\* the same message (a response's code set right), and the frame's length is
\* that of its payload.
THEOREM RoundTrip ==
    ASSUME NEW m \in MessageTypes, WriteFrameOK(m)
    PROVE  ReadFrame(Frame(m.type, Payload(m))) = Normal(m)
<1>1. CanWrite(m) /\ PayloadSize(Payload(m)) <= MaxPayloadSize BY DEF WriteFrameOK
<1>2. ASSUME Payload(m) \in Seq(Fields)
      PROVE  LET f == Frame(m.type, Payload(m))
             IN  f.type = m.type /\ f.payload = Payload(m)
                 /\ f.length.val = PayloadSize(f.payload)
  <2> DEFINE f == Frame(m.type, Payload(m))
  <2>1. f.type = m.type /\ f.payload = Payload(m) BY DEF Frame
  <2>2. f.length.val = PayloadSize(Payload(m)) BY <1>1, <1>2, FrameLength
  <2> QED BY <2>1, <2>2
<1>3. CASE m \in ConnectRequests
  <2>1. m.type = "ConnectRequest" BY <1>3 DEF ConnectRequests
  <2>2. CanWriteRequest(m) /\ Payload(m) = EncodeRequest(m) /\ Normal(m) = m
    BY <1>1, <2>1 DEF CanWrite, Payload, Normal
  <2>3. Payload(m) \in Seq(Fields) /\ ReadConnectRequest(Payload(m)) = m
    BY <1>3, <2>2, RequestRoundTrip
  <2> QED BY <1>2, <2>1, <2>2, <2>3 DEF ReadFrame
<1>4. CASE m \in ConnectResponses
  <2>1. m.type = "ConnectResponse" BY <1>4 DEF ConnectResponses
  <2>2. Within(m.message, 0, MaxE2ECloseMessageLength) /\ Payload(m) = EncodeResponse(m)
    BY <1>1, <2>1 DEF CanWrite, Payload, MaxE2ECloseMessageLength
  <2>3. Payload(m) \in Seq(Fields) /\ ReadConnectResponse(Payload(m)) = Normal(m)
    BY <1>4, <2>2, ResponseRoundTrip
  <2> QED BY <1>2, <2>1, <2>3 DEF ReadFrame
<1>5. CASE m \in E2EHellos
  <2>1. m.type \in {"E2EClientHello", "E2EServerHello"} BY <1>5 DEF E2EHellos
  <2>2. CanWriteHello(m) /\ Payload(m) = marshalE2EHello(m) /\ Normal(m) = m
    BY <1>1, <2>1 DEF CanWrite, Payload, Normal
  <2>3. Payload(m) \in Seq(Fields) /\ unmarshalE2EHello(m.type, Payload(m)) = m
    BY <1>5, <2>2, HelloRoundTrip
  <2> QED BY <1>2, <2>1, <2>2, <2>3 DEF ReadFrame
<1>6. CASE m \in E2EData
  <2>1. m.type = "E2EData" BY <1>6 DEF E2EData
  <2>2. /\ CanWriteData(m) /\ Normal(m) = m
        /\ Payload(m) = Prefixed(1, m.nonce) \o Prefixed(2, m.ciphertext)
    BY <1>1, <2>1 DEF CanWrite, Payload, Normal
  <2>3. Payload(m) \in Seq(Fields) /\ DecodeE2EDataPayload(Payload(m)) = m
    BY <1>6, <2>2, DataRoundTrip
  <2> QED BY <1>2, <2>1, <2>2, <2>3 DEF ReadFrame
<1>7. CASE m \in E2ECloses
  <2>1. m.type = "E2EClose" BY <1>7 DEF E2ECloses
  <2>2. /\ Valid(m.connectCode) /\ Within(m.message, 0, MaxE2ECloseMessageLength)
        /\ Payload(m) = StatusPayload(m.code, m.connectCode, m.message) /\ Normal(m) = m
    BY <1>1, <2>1 DEF CanWrite, Payload, Normal
  <2>3. Payload(m) \in Seq(Fields) /\ DecodeE2EClosePayload(Payload(m)) = m
    BY <1>7, <2>2, CloseRoundTrip
  <2> QED BY <1>2, <2>1, <2>2, <2>3 DEF ReadFrame
<1>8. CASE m \in E2EClientFinished
  <2>1. m.type = "E2EClientFinished" BY <1>8 DEF E2EClientFinished
  <2>2. /\ Within(m.signature, 1, MaxE2ESignatureLength)
        /\ Payload(m) = Prefixed(2, m.signature) /\ Normal(m) = m
    BY <1>1, <2>1 DEF CanWrite, Payload, Normal
  <2>3. Payload(m) \in Seq(Fields) /\ ReadE2EClientFinished(Payload(m)) = m
    BY <1>8, <2>2, FinishedRoundTrip
  <2> QED BY <1>2, <2>1, <2>2, <2>3 DEF ReadFrame
<1> QED BY <1>3, <1>4, <1>5, <1>6, <1>7, <1>8 DEF MessageTypes

\* A request without the E2E fields reads like one whose fields are off.
THEOREM LegacyFrame ==
    ASSUME NEW m \in ConnectRequests, CanWriteRequest(m), ~m.e2eRequired, m.e2eRoute = <<>>,
           PayloadSize(LegacyRequest(m)) <= MaxPayloadSize
    PROVE  ReadFrame(Frame(m.type, LegacyRequest(m))) = Normal(m)
<1> DEFINE f == Frame(m.type, LegacyRequest(m))
<1>1. LegacyRequest(m) \in Seq(Fields) /\ ReadConnectRequest(LegacyRequest(m)) = m
  BY LegacyHolds, LegacyRoundTrip
<1>2. m.type = "ConnectRequest" BY DEF ConnectRequests
<1>3. f.type = m.type /\ f.payload = LegacyRequest(m) BY DEF Frame
<1>4. f.length.val = PayloadSize(LegacyRequest(m)) BY <1>1, FrameLength
<1>5. Normal(m) = m BY <1>2 DEF Normal
<1> QED BY <1>1, <1>2, <1>3, <1>4, <1>5 DEF ReadFrame

-----------------------------------------------------------------------------
(* Requests of the routes a configuration may have. *)

LEMMA SizeSingle ==
    ASSUME NEW f \in Fields
    PROVE  <<f>> \in Seq(Fields) /\ PayloadSize(<<f>>) <= f.width /\ f.width \in Nat
           /\ PayloadSize(<<f>>) \in Nat
<1>1. <<f>> \in Seq(Fields) /\ Len(<<f>>) = 1 /\ \A i \in 1..Len(<<f>>) : <<f>>[i] = f
  OBVIOUS
<1>2. f.width \in Nat
  BY NumVal, BytesVal DEF Fields
<1>3. PayloadSize(<<f>>) <= 1 * f.width
  <2>1. \A i \in 1..Len(<<f>>) : <<f>>[i].width <= f.width BY <1>1, <1>2
  <2> QED BY <1>1, <1>2, <2>1, SizeAtMost
<1>4. PayloadSize(<<f>>) \in Nat BY <1>1, SizeOf
<1> QED BY <1>1, <1>2, <1>3, <1>4

\* An upper bound of a size carries over to what is written.
AtMost(p, b) == p \in Seq(Fields) /\ b \in Nat /\ PayloadSize(p) <= b

LEMMA AtMostConcat ==
    ASSUME NEW q, NEW r, NEW b, NEW c, AtMost(q, b), AtMost(r, c)
    PROVE  AtMost(q \o r, b + c)
<1>1. q \o r \in Seq(Fields) BY Concat DEF AtMost
<1>2. PayloadSize(q) \in Nat /\ PayloadSize(r) \in Nat BY SizeOf DEF AtMost
<1>3. PayloadSize(q \o r) = PayloadSize(q) + PayloadSize(r) BY SizeConcat DEF AtMost
<1> QED BY <1>1, <1>2, <1>3 DEF AtMost

LEMMA PrefixedAtMost ==
    ASSUME NEW w \in {1, 2}, NEW s \in ByteStrings, NEW min \in Nat, NEW max \in Nat,
           Within(s, min, max)
    PROVE  AtMost(Prefixed(w, s), w + max)
<1>1. StrLen[s] \in Nat /\ StrLen[s] <= max BY BytesVal DEF Within
<1>2. Num(w, StrLen[s]) \in Fields /\ Bytes(s) \in Fields BY <1>1 DEF Fields
<1>3. Num(w, StrLen[s]).width = w /\ Bytes(s).width = StrLen[s] BY <1>1, NumVal, BytesVal
<1>4. AtMost(<<Num(w, StrLen[s])>>, w) BY <1>2, <1>3, SizeSingle DEF AtMost
<1>5. AtMost(<<Bytes(s)>>, max) BY <1>1, <1>2, <1>3, SizeSingle DEF AtMost
<1>6. Prefixed(w, s) = <<Num(w, StrLen[s])>> \o <<Bytes(s)>> BY DEF Prefixed
<1> QED BY <1>4, <1>5, <1>6, AtMostConcat

\* A route of n names of at most max bytes.
LEMMA RouteAtMost ==
    ASSUME NEW strings \in Seq(ByteStrings), NEW max \in Nat, max >= 2, AllWithin(strings, max)
    PROVE  AtMost(writeRoute(strings), 1 + 2 * Len(strings) * max)
<1> DEFINE p == PrefixedAll(strings)
<1> DEFINE n == Len(strings)
<1>0. n \in Nat /\ 2 * n \in Nat /\ 2 * n * max \in Nat
  <2>1. \A a, b \in Nat : a * b \in Nat BY SMT
  <2>2. n \in Nat /\ 2 * n \in Nat OBVIOUS
  <2> HIDE DEF n
  <2> QED BY <2>1, <2>2
<1>1. p \in Seq(Fields) /\ Len(p) = 2 * n /\ HoldsAll(p, 1, strings) BY PrefixedAllHolds
<1>2. ASSUME NEW i \in 1..Len(p) PROVE p[i].width <= max
  <2>1. PICK k \in 1..n : i = 2 * k - 1 \/ i = 2 * k
    <3>1. i \in 1..(2 * n) BY <1>1
    <3>2. (i + 1) \div 2 \in 1..n BY <1>0, <3>1
    <3>3. i = 2 * ((i + 1) \div 2) - 1 \/ i = 2 * ((i + 1) \div 2) BY <3>1
    <3> HIDE DEF n
    <3> QED BY <3>2, <3>3
  <2>2. strings[k] \in ByteStrings /\ StrLen[strings[k]] \in Nat /\ StrLen[strings[k]] <= max
    <3>1. strings[k] \in ByteStrings /\ Within(strings[k], 1, max) BY DEF AllWithin
    <3> QED BY <3>1, BytesVal DEF Within
  <2>3. Holds(p, 1 + 2 * (k - 1), 2, strings[k]) BY <1>1 DEF HoldsAll
  <2>4. 1 + 2 * (k - 1) = 2 * k - 1 /\ 2 * k - 1 + 1 = 2 * k BY <2>1
  <2>5. p[2 * k - 1] = Num(2, StrLen[strings[k]]) /\ p[2 * k] = Bytes(strings[k])
    <3> HIDE DEF p
    <3> QED BY <2>3, <2>4 DEF Holds
  <2>6. Num(2, StrLen[strings[k]]).width = 2 /\ Bytes(strings[k]).width = StrLen[strings[k]]
    BY <2>2, NumVal, BytesVal
  <2> QED BY <2>1, <2>2, <2>5, <2>6
<1> HIDE DEF p, n
<1>3. AtMost(p, 2 * n * max) BY <1>0, <1>1, <1>2, SizeAtMost DEF AtMost
<1>4. AtMost(<<Num(1, n)>>, 1)
  <2>1. Num(1, n) \in Fields /\ Num(1, n).width = 1 BY <1>0, NumVal DEF Fields
  <2> QED BY <2>1, SizeSingle DEF AtMost
<1>5. writeRoute(strings) = <<Num(1, n)>> \o p BY DEF writeRoute, n, p
<1> QED BY <1>3, <1>4, <1>5, AtMostConcat DEF n

\* A request whose routes have at most three hops fits its frame.
LEMMA RequestFits ==
    ASSUME NEW m \in ConnectRequests, CanWriteRequest(m), Len(m.route) <= 3, Len(m.e2eRoute) <= 3
    PROVE  WriteFrameOK(m)
<1>0. /\ m.type = "ConnectRequest" /\ m.id \in ByteStrings /\ m.protocol \in ByteStrings
      /\ m.service \in ByteStrings /\ m.egress \in ByteStrings
      /\ m.route \in Seq(ByteStrings) /\ m.e2eRoute \in Seq(ByteStrings)
  BY DEF ConnectRequests
<1>1. /\ Within(m.id, 16, 16) /\ Within(m.protocol, 1, MaxProtocolLength)
      /\ Within(m.service, 1, MaxTargetLength) /\ Within(m.egress, 0, MaxTargetLength)
      /\ AllWithin(m.route, MaxTargetLength) /\ AllWithin(m.e2eRoute, MaxTargetLength)
  BY DEF CanWriteRequest, encodedRouteLengthOK
<1>2. AtMost(<<Bytes(m.id)>>, 16)
  <2>1. Bytes(m.id) \in Fields BY <1>0 DEF Fields
  <2>2. Bytes(m.id).width = 16 BY <1>0, <1>1, BytesVal DEF Within
  <2> QED BY <2>1, <2>2, SizeSingle DEF AtMost
<1>3. AtMost(Prefixed(1, m.protocol), 1 + MaxProtocolLength)
  BY <1>0, <1>1, Limits, PrefixedAtMost
<1>4. /\ AtMost(Prefixed(2, m.service), 2 + MaxTargetLength)
      /\ AtMost(Prefixed(2, m.egress), 2 + MaxTargetLength)
  BY <1>0, <1>1, Limits, PrefixedAtMost
<1>5. \A r \in Seq(ByteStrings) : AllWithin(r, MaxTargetLength) /\ Len(r) <= 3 =>
          AtMost(writeRoute(r), 1 + 6 * MaxTargetLength)
  <2> SUFFICES ASSUME NEW r \in Seq(ByteStrings), AllWithin(r, MaxTargetLength), Len(r) <= 3
               PROVE  AtMost(writeRoute(r), 1 + 6 * MaxTargetLength)
    OBVIOUS
  <2>1. MaxTargetLength \in Nat /\ MaxTargetLength >= 2 BY SMT DEF MaxTargetLength
  <2>2. AtMost(writeRoute(r), 1 + 2 * Len(r) * MaxTargetLength) BY <2>1, RouteAtMost
  <2>3. 1 + 2 * Len(r) * MaxTargetLength <= 1 + 6 * MaxTargetLength
    <3>1. \A n, b \in Nat : n <= 3 => 1 + 2 * n * b <= 1 + 6 * b
      <4>1. \A b \in Nat : \A n \in {0, 1, 2, 3} : 1 + 2 * n * b <= 1 + 6 * b BY SMT
      <4>2. \A n \in Nat : n <= 3 => n \in {0, 1, 2, 3} BY SMT
      <4> QED BY <4>1, <4>2, Zenon
    <3>2. Len(r) \in Nat OBVIOUS
    <3> QED BY <2>1, <3>1, <3>2, Zenon
  <2>4. PayloadSize(writeRoute(r)) \in Nat BY <2>2, SizeOf DEF AtMost
  <2> QED BY <2>1, <2>2, <2>3, <2>4 DEF AtMost
<1>6. AtMost(writeRoute(m.route), 1 + 6 * MaxTargetLength)
      /\ AtMost(writeRoute(m.e2eRoute), 1 + 6 * MaxTargetLength)
  BY <1>0, <1>1, <1>5
<1> DEFINE flag == <<Num(1, IF m.e2eRequired THEN 1 ELSE 0)>>
<1>7. AtMost(flag, 1)
  <2>1. /\ Num(1, 0) \in Fields /\ Num(1, 1) \in Fields
        /\ Num(1, 0).width = 1 /\ Num(1, 1).width = 1
    BY NumVal DEF Fields
  <2> QED BY <2>1, SizeSingle DEF AtMost
<1> HIDE DEF flag
<1>8. AtMost(EncodeRequest(m),
        16 + (1 + MaxProtocolLength) + (2 + MaxTargetLength) + (2 + MaxTargetLength)
           + (1 + 6 * MaxTargetLength) + 1 + (1 + 6 * MaxTargetLength))
  <2>1. EncodeRequest(m) =
          <<Bytes(m.id)>> \o Prefixed(1, m.protocol) \o Prefixed(2, m.service)
            \o Prefixed(2, m.egress) \o writeRoute(m.route) \o flag \o writeRoute(m.e2eRoute)
    BY DEF EncodeRequest, LegacyRequest, flag
  <2> QED BY <1>2, <1>3, <1>4, <1>6, <1>7, <2>1, AtMostConcat, Zenon
<1>9. PayloadSize(EncodeRequest(m)) <= MaxPayloadSize
  <2>1. 16 + (1 + MaxProtocolLength) + (2 + MaxTargetLength) + (2 + MaxTargetLength)
          + (1 + 6 * MaxTargetLength) + 1 + (1 + 6 * MaxTargetLength) <= MaxPayloadSize
    BY SMT DEF MaxProtocolLength, MaxTargetLength, MaxPayloadSize
  <2>2. PayloadSize(EncodeRequest(m)) \in Nat /\ MaxPayloadSize \in Nat
    BY <1>8, SizeOf, SMT DEF AtMost, MaxPayloadSize
  <2> QED BY <1>8, <2>1, <2>2 DEF AtMost
<1>10. Payload(m) = EncodeRequest(m) /\ CanWrite(m) BY <1>0 DEF Payload, CanWrite
<1> QED BY <1>9, <1>10 DEF WriteFrameOK

\* A response that was read can be written again.
LEMMA ResponseFits ==
    ASSUME NEW m \in ConnectResponses, WriteFrameOK(m)
    PROVE  Normal(m) \in ConnectResponses /\ Normal(Normal(m)) = Normal(m) /\ WriteFrameOK(Normal(m))
<1> DEFINE c == CASE m.ok -> ConnectCodeOK
                  [] ~m.ok /\ m.code = ConnectCodeOK -> ConnectCodeInternalError
                  [] OTHER -> m.code
<1> DEFINE d == [m EXCEPT !.code = c]
<1>0. m.type = "ConnectResponse" /\ m.ok \in BOOLEAN BY DEF ConnectResponses
<1>1. Normal(m) = d BY <1>0 DEF Normal
<1>2. c \in ConnectCodeOK..ConnectCodeInternalError
  BY <1>0 DEF ConnectResponses, ConnectCodeOK, ConnectCodeInternalError
<1>3. (m.ok => c = ConnectCodeOK) /\ (~m.ok => c # ConnectCodeOK)
  BY <1>0 DEF ConnectCodeOK, ConnectCodeInternalError
<1> HIDE DEF c
<1>4. /\ d \in ConnectResponses /\ d.type = m.type /\ d.ok = m.ok /\ d.code = c
      /\ d.message = m.message
  BY <1>2 DEF ConnectResponses
<1>5. Normal(d) = d
  <2> DEFINE e == CASE d.ok -> ConnectCodeOK
                    [] ~d.ok /\ d.code = ConnectCodeOK -> ConnectCodeInternalError
                    [] OTHER -> d.code
  <2>1. Normal(d) = [d EXCEPT !.code = e] BY <1>0, <1>4 DEF Normal
  <2>2. e = c BY <1>0, <1>3, <1>4
  <2> HIDE DEF e
  <2> QED BY <1>4, <2>1, <2>2 DEF ConnectResponses
<1>6. EncodeResponse(d) = EncodeResponse(m)
  <2>1. Normal(d).code = Normal(m).code BY <1>1, <1>5
  <2> QED BY <1>4, <2>1, Zenon DEF EncodeResponse
<1>7. CanWrite(d) BY <1>0, <1>4 DEF WriteFrameOK, CanWrite
<1>8. Payload(d) = Payload(m) BY <1>0, <1>4, <1>6 DEF Payload
<1>9. WriteFrameOK(d) BY <1>7, <1>8, Zenon DEF WriteFrameOK
<1> QED BY <1>1, <1>4, <1>5, <1>9
=============================================================================
