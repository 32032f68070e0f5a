----------------------------- MODULE PadmeSafety -----------------------------
(***************************************************************************)
(* What padding_len adds to any length a u64 holds half of: it is cheap,   *)
(* it is not added twice, and longer messages are never padded to shorter  *)
(* ones; with the real block length, that it hides the number of blocks.   *)
(***************************************************************************)
EXTENDS PadmeWalk, PowersSafety

-----------------------------------------------------------------------------
(* Powers of two.                                                          *)

P == Power(2)

LEMMA TwoSteps ==
  /\ P[0] = 1
  /\ \A n \in Nat : P[n] \in Nat \ {0} /\ P[n + 1] = 2 * P[n]
<1>1. 2 \in Nat \ {0}  OBVIOUS
<1>2. QED  BY <1>1, PowerSteps DEF P

LEMMA TwoFirst == P[1] = 2 /\ P[2] = 4 /\ P[3] = 8 /\ P[4] = 16
<1>1. P[0 + 1] = 2 * P[0] /\ P[1 + 1] = 2 * P[1] /\ P[2 + 1] = 2 * P[2] /\ P[3 + 1] = 2 * P[3]
  BY TwoSteps
<1>2. 0 + 1 = 1 /\ 1 + 1 = 2 /\ 2 + 1 = 3 /\ 3 + 1 = 4  OBVIOUS
<1>3. QED  BY <1>1, <1>2, TwoSteps

LEMMA TwoAdds ==
  ASSUME NEW a \in Nat, NEW b \in Nat
  PROVE  P[a + b] = P[a] * P[b]
<1> DEFINE T == {i \in Nat : P[a + i] = P[a] * P[i]}
<1>1. P[a] \in Nat  BY TwoSteps
<1>2. 0 \in T
  <2>1. a + 0 = a /\ P[a] * 1 = P[a]  BY <1>1
  <2>2. QED  BY <2>1, TwoSteps
<1>3. ASSUME NEW i \in Nat, i \in T PROVE i + 1 \in T
  <2> DEFINE m == a + i
             p == P[a]
             w == P[i]
  <2>1. m \in Nat /\ a + (i + 1) = m + 1  OBVIOUS
  <2>2. P[m] = p * w /\ p \in Nat /\ w \in Nat  BY <1>1, <1>3, TwoSteps
  <2>3. P[m + 1] = 2 * P[m] /\ P[i + 1] = 2 * w  BY <2>1, TwoSteps
  <2> HIDE DEF m, p, w
  <2>4. 2 * (p * w) = p * (2 * w)  BY <2>2
  <2>5. P[m + 1] = p * P[i + 1]  BY <2>2, <2>3, <2>4
  <2>6. QED  BY <2>1, <2>5 DEF p
<1> HIDE DEF T
<1>4. b \in T  BY <1>2, <1>3, NaturalsUpTo
<1>5. QED  BY <1>4 DEF T

LEMMA TwoGrow ==
  ASSUME NEW a \in Nat, NEW b \in Nat, a <= b
  PROVE  P[a] <= P[b] /\ \E w \in Nat \ {0} : P[b] = w * P[a]
<1> DEFINE c == b - a
<1>1. c \in Nat /\ a + c = b  OBVIOUS
<1> HIDE DEF c
<1>2. P[b] = P[a] * P[c]  BY <1>1, TwoAdds
<1> DEFINE p == P[a]
           w == P[c]
<1>3. p \in Nat \ {0} /\ w \in Nat \ {0} /\ P[b] = p * w  BY <1>1, <1>2, TwoSteps
<1> HIDE DEF p, w
<1>4. p * w = w * p /\ p <= p * w  BY <1>3
<1>5. QED  BY <1>3, <1>4 DEF p

LEMMA TwoBelow ==
  ASSUME NEW a \in Nat, NEW b \in Nat, P[a] < P[b]
  PROVE  a < b
<1>1. ASSUME b <= a PROVE FALSE
  <2>1. P[b] <= P[a]  BY <1>1, TwoGrow
  <2>2. QED  BY <2>1, TwoSteps
<1>2. QED  BY <1>1

LEMMA TwoAbove ==
  ASSUME NEW a \in Nat
  PROVE  a < P[a]
<1> DEFINE T == {i \in Nat : i < P[i]}
<1>1. 0 \in T  BY TwoSteps
<1>2. ASSUME NEW i \in Nat, i \in T PROVE i + 1 \in T
  <2>1. P[i] \in Nat /\ i < P[i] /\ P[i + 1] = 2 * P[i]  BY <1>2, TwoSteps
  <2>2. i + 1 < 2 * P[i]  BY <2>1
  <2>3. QED  BY <2>1, <2>2
<1> HIDE DEF T
<1>3. a \in T  BY <1>1, <1>2, NaturalsUpTo
<1>4. QED  BY <1>3 DEF T

-----------------------------------------------------------------------------
(* The highest bit.                                                        *)

\* e is the place of the highest bit of n.
Highest(n, e) == P[e] <= n /\ n < P[e + 1]

LEMMA HighestIs ==
  ASSUME NEW m \in Nat, NEW n \in Nat \ {0}, n < P[m]
  PROVE  \E e \in 0..(m - 1) : Highest(n, e)
<1> DEFINE T == {i \in Nat : n < P[i] => \E e \in 0..(i - 1) : Highest(n, e)}
<1>1. 0 \in T  BY TwoSteps
<1>2. ASSUME NEW i \in Nat, i \in T PROVE i + 1 \in T
  <2>1. SUFFICES ASSUME n < P[i + 1] PROVE \E e \in 0..(i + 1 - 1) : Highest(n, e)
    OBVIOUS
  <2>2. i + 1 - 1 = i /\ P[i] \in Nat  BY TwoSteps
  <2>3. CASE n < P[i]
    <3>1. \E e \in 0..(i - 1) : Highest(n, e)  BY <1>2, <2>3
    <3>2. \A e \in 0..(i - 1) : e \in 0..i  OBVIOUS
    <3>3. QED  BY <2>2, <3>1, <3>2
  <2>4. CASE P[i] <= n
    <3>1. Highest(n, i)  BY <2>1, <2>4 DEF Highest
    <3>2. QED  BY <2>2, <3>1
  <2>5. QED  BY <2>2, <2>3, <2>4
<1> HIDE DEF T
<1>3. m \in T  BY <1>1, <1>2, NaturalsUpTo
<1>4. QED  BY <1>3 DEF T

LEMMA HighestOnce ==
  ASSUME NEW n \in Nat, NEW d \in Nat, NEW e \in Nat, Highest(n, d), Highest(n, e)
  PROVE  d = e
<1>1. P[d] \in Nat /\ P[e] \in Nat /\ P[d + 1] \in Nat /\ P[e + 1] \in Nat  BY TwoSteps
<1>2. P[d] < P[e + 1] /\ P[e] < P[d + 1]  BY <1>1 DEF Highest
<1>3. d < e + 1 /\ e < d + 1  BY <1>2, TwoBelow
<1>4. QED  BY <1>3

LEMMA HighestDivides ==
  ASSUME NEW n \in Nat, NEW e \in Nat
  PROVE  n \div P[e] = 1 <=> Highest(n, e)
<1> DEFINE p == P[e]
<1>1. p \in Nat \ {0} /\ P[e + 1] = 2 * p  BY TwoSteps
<1> HIDE DEF p
<1> DEFINE q == n \div p
           rest == n % p
<1>2. q \in Nat /\ rest \in Nat /\ rest < p /\ n = q * p + rest  BY <1>1, DivRest
<1>3. ASSUME p <= n, n < 2 * p PROVE n \div p = 1
  <2>1. n - p \in Nat /\ n - p < p /\ n = 1 * p + (n - p) /\ 1 \in Nat  BY <1>1, <1>3
  <2>2. QED  BY <1>1, <2>1, DivUnique
<1> HIDE DEF q, rest
<1>4. q = 1 => p <= n /\ n < 2 * p  BY <1>1, <1>2
<1>5. n \div p = 1 <=> (p <= n /\ n < 2 * p)  BY <1>3, <1>4 DEF q
<1>6. QED  BY <1>1, <1>5 DEF Highest, p

LEMMA HighestBitIs ==
  ASSUME NEW n \in Nat \ {0}, n < P[64]
  PROVE  HighestBit(n) \in 0..63 /\ Highest(n, HighestBit(n))
<1>1. 64 \in Nat /\ 64 - 1 = 63  OBVIOUS
<1>2. \E e \in 0..63 : Highest(n, e)  BY <1>1, HighestIs
<1>3. \A e \in 0..63 : n \div P[e] = 1 <=> Highest(n, e)  BY HighestDivides
<1>4. HighestBit(n) = CHOOSE e \in 0..63 : n \div P[e] = 1  BY DEF HighestBit, P
<1>5. \E e \in 0..63 : n \div P[e] = 1  BY <1>2, <1>3
<1>6. HighestBit(n) \in 0..63 /\ n \div P[HighestBit(n)] = 1  BY <1>4, <1>5
<1>7. QED  BY <1>3, <1>6
-----------------------------------------------------------------------------
(* The rule: e, s and z of padding_len.                                    *)

\* A length of e + 1 bits, e a number of s bits.
Shape(len, e, s, z) ==
  /\ e \in 0..63 /\ s \in Nat /\ z \in Nat /\ e = z + s
  /\ Highest(len, e)
  /\ e = 0 => s = 0
  /\ e # 0 => s - 1 \in Nat /\ Highest(e, s - 1)

LEMMA ShapeIs ==
  ASSUME NEW len \in Nat \ {0}, len < P[64]
  PROVE  Shape(len, Exponent(len), Kept(len), LowBits(len))
<1> DEFINE e == HighestBit(len)
<1>1. e \in 0..63 /\ Highest(len, e)  BY HighestBitIs
<1> HIDE DEF e
<1>2. LeadingZeros(len) = 63 - e  BY DEF LeadingZeros, e
<1>3. Exponent(len) = e  BY <1>1, <1>2 DEF Exponent, SaturatingSub
<1>4. CASE e = 0
  <2>1. LeadingZeros(e) = 64  BY <1>4 DEF LeadingZeros
  <2>2. Kept(len) = 0  BY <1>3, <2>1 DEF Kept
  <2>3. LowBits(len) = 0  BY <1>3, <1>4, <2>2 DEF LowBits
  <2>4. QED  BY <1>1, <1>3, <1>4, <2>2, <2>3 DEF Shape
<1>5. CASE e # 0
  <2> DEFINE d == HighestBit(e)
  <2>1. e \in Nat \ {0} /\ e < P[64]
    <3>1. e \in Nat /\ e <= 64 /\ 64 \in Nat  BY <1>1
    <3>2. e < P[e] /\ P[e] <= P[64]  BY <3>1, TwoAbove, TwoGrow
    <3>3. P[e] \in Nat /\ P[64] \in Nat  BY <3>1, TwoSteps
    <3>4. QED  BY <1>5, <3>1, <3>2, <3>3
  <2>2. d \in 0..63 /\ Highest(e, d)  BY <2>1, HighestBitIs
  <2> HIDE DEF d
  <2>3. LeadingZeros(e) = 63 - d  BY <1>5 DEF LeadingZeros, d
  <2>4. Kept(len) = d + 1  BY <1>3, <2>2, <2>3 DEF Kept
  <2>5. d < e
    <3>1. d \in Nat /\ P[d] \in Nat  BY <2>2, TwoSteps
    <3>2. d < P[d] /\ P[d] <= e  BY <2>2, <3>1, TwoAbove DEF Highest
    <3>3. QED  BY <2>1, <3>1, <3>2
  <2>6. LowBits(len) = e - (d + 1)  BY <1>3, <2>4 DEF LowBits
  <2> DEFINE s == d + 1
             z == e - (d + 1)
  <2>7. s \in Nat /\ z \in Nat /\ e = z + s /\ s - 1 = d /\ d \in Nat
    BY <1>1, <2>2, <2>5
  <2> HIDE DEF s, z
  <2>8. Kept(len) = s /\ LowBits(len) = z  BY <2>4, <2>6 DEF s, z
  <2>9. Shape(len, e, s, z)  BY <1>1, <1>5, <2>2, <2>7 DEF Shape
  <2>10. QED  BY <1>3, <2>8, <2>9
<1>6. QED  BY <1>4, <1>5

\* The exponent says the others.
LEMMA ShapeOnce ==
  ASSUME NEW m, NEW n, NEW e, NEW s, NEW z, NEW t, NEW y,
         Shape(m, e, s, z), Shape(n, e, t, y)
  PROVE  s = t /\ z = y
<1>1. CASE e = 0  BY <1>1 DEF Shape
<1>2. CASE e # 0
  <2>1. s - 1 = t - 1  BY <1>2, HighestOnce DEF Shape
  <2>2. QED  BY <2>1 DEF Shape
<1>3. QED  BY <1>1, <1>2

\* An exponent has more bits, the greater it is.
LEMMA BitsOfExponent ==
  ASSUME NEW n, NEW e, NEW s, NEW z, Shape(n, e, s, z), NEW j \in Nat, P[j] <= e
  PROVE  j + 1 <= s
<1>1. P[j] \in Nat /\ e \in Nat /\ s \in Nat  BY TwoSteps DEF Shape
<1>2. 1 <= P[j]  BY TwoSteps
<1>3. e # 0  BY <1>1, <1>2
<1>4. s - 1 \in Nat /\ e < P[s - 1 + 1]  BY <1>3 DEF Shape, Highest
<1>5. s - 1 + 1 = s /\ P[s] \in Nat  BY <1>1, TwoSteps
<1>6. P[j] < P[s]  BY <1>1, <1>4, <1>5
<1>7. j < s  BY <1>1, <1>6, TwoBelow
<1>8. QED  BY <1>1, <1>7

-----------------------------------------------------------------------------
(* Rounding up.                                                            *)

\* q steps of p are the fewest that hold n.
Fewest(q, n, p) ==
  /\ q \in Nat /\ n <= q * p /\ q * p < n + p
  /\ \A t \in Nat : n <= t * p => q <= t

LEMMA RoundsUp ==
  ASSUME NEW n \in Nat, NEW p \in Nat \ {0}
  PROVE  Fewest((n + p - 1) \div p, n, p)
<1> DEFINE m == n + p - 1
<1>1. m \in Nat /\ m + 1 = n + p  OBVIOUS
<1> HIDE DEF m
<1> DEFINE q == m \div p
           rest == m % p
<1>2. q \in Nat /\ rest \in Nat /\ rest < p /\ m = q * p + rest  BY <1>1, DivRest
<1> HIDE DEF q, rest
<1> DEFINE h == q * p
<1>3. h \in Nat /\ m = h + rest  BY <1>2
<1>4. ASSUME NEW t \in Nat, n <= t * p PROVE q <= t
  <2>1. SUFFICES ASSUME t + 1 <= q PROVE FALSE  BY <1>2
  <2>2. (t + 1) * p <= q * p  BY <1>2, <2>1
  <2>3. (t + 1) * p = t * p + p /\ t * p \in Nat  OBVIOUS
  <2> HIDE DEF h
  <2> DEFINE g == t * p
  <2>4. g + p <= h /\ g \in Nat /\ n <= g  BY <1>4, <2>2, <2>3 DEF h
  <2> HIDE DEF g
  <2>5. h <= n + p - 1  BY <1>1, <1>2, <1>3
  <2>6. QED  BY <1>3, <2>4, <2>5
<1> HIDE DEF h
<1>5. n <= h /\ h < n + p  BY <1>1, <1>2, <1>3
<1>6. Fewest(q, n, p)  BY <1>2, <1>4, <1>5 DEF Fewest, h
<1>7. QED  BY <1>6 DEF q, m
-----------------------------------------------------------------------------
(* Padded lengths.                                                         *)

\* A length, what its bits say, and the steps it is rounded up to.
Pads(len, e, s, z, q) ==
  /\ Shape(len, e, s, z)
  /\ Fewest(q, len, P[z])
  /\ Padded(len) = q * P[z] /\ Padded(len) \in Nat
  /\ padding_len(len) = Padded(len) - len
  /\ len <= Padded(len) /\ Padded(len) < len + P[z]
  /\ Padded(len) <= P[e + 1]

LEMMA PadsNothing == padding_len(0) = 0 /\ Padded(0) = 0
<1>1. LeadingZeros(0) = 64  BY DEF LeadingZeros
<1>2. Exponent(0) = 0  BY <1>1 DEF Exponent, SaturatingSub
<1>3. Kept(0) = 0  BY <1>1, <1>2 DEF Kept
<1>4. LowBits(0) = 0  BY <1>2, <1>3 DEF LowBits
<1>5. Power(2)[0] = 1  BY TwoSteps DEF P
<1>6. RoundUp(0, 0) = 0
  <2>1. RoundUp(0, 0) = ((0 + 1 - 1) \div 1) * 1  BY <1>5 DEF RoundUp
  <2>2. ((0 + 1 - 1) \div 1) * 1 = 0  OBVIOUS
  <2>3. QED  BY <2>1, <2>2
<1>7. padding_len(0) = 0  BY <1>4, <1>6 DEF padding_len
<1>8. QED  BY <1>7 DEF Padded

LEMMA PadsIs ==
  ASSUME NEW len \in Nat \ {0}, len < P[64]
  PROVE  \E e, s, z, q : Pads(len, e, s, z, q)
<1> DEFINE e == Exponent(len)
           s == Kept(len)
           z == LowBits(len)
           p == P[z]
           q == (len + p - 1) \div p
<1>1. Shape(len, e, s, z)  BY ShapeIs
<1>2. padding_len(len) = RoundUp(len, z) - len  BY DEF padding_len
<1> HIDE DEF e, s, z
<1>3. z \in Nat /\ e \in Nat /\ z <= e + 1 /\ e + 1 \in Nat  BY <1>1 DEF Shape
<1>4. p \in Nat \ {0}  BY <1>3, TwoSteps
<1>5. RoundUp(len, z) = q * p  BY DEF RoundUp, P
<1> HIDE DEF p
<1>6. Fewest(q, len, p)  BY <1>4, RoundsUp
<1> HIDE DEF q
<1> DEFINE h == q * p
<1>7. h \in Nat /\ len <= h /\ h < len + p  BY <1>4, <1>6 DEF Fewest
<1>8. h <= P[e + 1]
  <2>1. PICK w \in Nat \ {0} : P[e + 1] = w * p  BY <1>3, TwoGrow DEF p
  <2>2. len <= w * p
    <3>1. len < P[e + 1] /\ P[e + 1] \in Nat  BY <1>1, <1>3, TwoSteps DEF Shape, Highest
    <3>2. QED  BY <2>1, <3>1
  <2>3. q <= w /\ q \in Nat  BY <1>6, <2>2 DEF Fewest
  <2>4. q * p <= w * p  BY <1>4, <2>3
  <2>5. QED  BY <2>1, <2>4
<1> HIDE DEF h
<1>9. padding_len(len) = h - len  BY <1>2, <1>5 DEF h
<1>10. Padded(len) = h  BY <1>7, <1>9 DEF Padded
<1>11. Pads(len, e, s, z, q)
  BY <1>1, <1>6, <1>7, <1>8, <1>9, <1>10 DEF Pads, h, p
<1>12. QED  BY <1>11

\* A length of whole steps is padded no further.
LEMMA WholeSteps ==
  ASSUME NEW len \in Nat, NEW e, NEW s, NEW z, NEW q, Pads(len, e, s, z, q),
         NEW t \in Nat, len = t * P[z]
  PROVE  Padded(len) = len /\ padding_len(len) = 0
<1> DEFINE p == P[z]
<1>1. z \in Nat  BY DEF Pads, Shape
<1>2. p \in Nat \ {0}  BY <1>1, TwoSteps
<1>3. /\ q \in Nat /\ Padded(len) = q * p /\ len <= Padded(len) /\ Padded(len) \in Nat
      /\ padding_len(len) = Padded(len) - len
      /\ \A i \in Nat : len <= i * p => q <= i
  BY DEF Pads, Fewest
<1>4. len = t * p  OBVIOUS
<1> HIDE DEF p
<1>5. q <= t  BY <1>3, <1>4
<1>6. q * p <= t * p  BY <1>2, <1>3, <1>5
<1>7. Padded(len) = len  BY <1>3, <1>4, <1>6
<1>8. QED  BY <1>3, <1>7

LEMMA Idempotent ==
  ASSUME NEW len \in Nat, len < P[63]
  PROVE  padding_len(Padded(len)) = 0
<1>1. CASE len = 0  BY <1>1, PadsNothing
<1>2. CASE len # 0
  <2>1. P[63] \in Nat /\ P[64] \in Nat /\ P[63] < P[64]
    <3>1. 63 \in Nat /\ 63 + 1 = 64  OBVIOUS
    <3>2. P[63] \in Nat \ {0} /\ P[63 + 1] = 2 * P[63]  BY <3>1, TwoSteps
    <3>3. QED  BY <3>1, <3>2
  <2>2. PICK e, s, z, q : Pads(len, e, s, z, q)  BY <1>2, <2>1, PadsIs
  <2> DEFINE m == Padded(len)
  <2>3. /\ m \in Nat /\ len <= m /\ m <= P[e + 1] /\ q \in Nat /\ m = q * P[z]
        /\ e \in 0..63 /\ s \in Nat /\ z \in Nat /\ e = z + s /\ Highest(len, e)
    BY <2>2 DEF Pads, Shape, Fewest
  <2> HIDE DEF m
  <2>4. e < 63
    <3>1. P[e] \in Nat /\ P[e] <= len  BY <2>3, TwoSteps DEF Highest
    <3>2. P[e] < P[63]  BY <2>1, <3>1
    <3>3. QED  BY <2>3, <3>2, TwoBelow
  <2>5. e + 1 \in Nat /\ e + 1 <= 63 /\ 63 \in Nat  BY <2>3, <2>4
  <2>6. P[e + 1] <= P[63] /\ P[e + 1] \in Nat /\ P[e + 1] < P[e + 1 + 1]
    <3>1. P[e + 1] <= P[63]  BY <2>5, TwoGrow
    <3>2. P[e + 1] \in Nat \ {0} /\ P[e + 1 + 1] = 2 * P[e + 1]  BY <2>5, TwoSteps
    <3>3. QED  BY <3>1, <3>2
  <2>7. m \in Nat \ {0} /\ m < P[64]  BY <1>2, <2>1, <2>3, <2>6
  <2>8. PICK d, t, y, x : Pads(m, d, t, y, x)  BY <2>7, PadsIs
  <2>9. Shape(m, d, t, y) /\ d \in Nat /\ t \in Nat /\ y \in Nat /\ d = y + t /\ Highest(m, d)
    BY <2>8 DEF Pads, Shape
  <2>10. CASE m < P[e + 1]
    <3>1. Highest(m, e)
      <4>1. P[e] <= len /\ P[e] \in Nat  BY <2>3, TwoSteps DEF Highest
      <4>2. QED  BY <2>3, <2>10, <4>1 DEF Highest
    <3>2. d = e  BY <2>3, <2>9, <3>1, HighestOnce
    <3>3. y = z  BY <2>2, <2>9, <3>2, ShapeOnce DEF Pads
    <3>4. m = q * P[y]  BY <2>3, <3>3
    <3>5. QED  BY <2>3, <2>8, <3>4, WholeSteps DEF m
  <2>11. CASE m = P[e + 1]
    <3>1. Highest(m, e + 1)  BY <2>6, <2>11 DEF Highest
    <3>2. d = e + 1  BY <2>5, <2>3, <2>9, <3>1, HighestOnce
    <3>3. y <= e + 1  BY <2>9, <3>2
    <3>4. PICK w \in Nat \ {0} : P[e + 1] = w * P[y]  BY <2>5, <2>9, <3>3, TwoGrow
    <3>5. w \in Nat /\ m = w * P[y]  BY <2>11, <3>4
    <3>6. QED  BY <2>3, <2>8, <3>5, WholeSteps DEF m
  <2>12. QED  BY <2>3, <2>6, <2>10, <2>11
<1>3. QED  BY <1>1, <1>2
LEMMA OneLonger ==
  ASSUME NEW len \in Nat, len + 1 < P[64]
  PROVE  Padded(len) <= Padded(len + 1)
<1> DEFINE n == len + 1
<1>1. n \in Nat \ {0} /\ n = len + 1 /\ n < P[64]  OBVIOUS
<1> HIDE DEF n
<1>2. P[64] \in Nat
  <2>1. 64 \in Nat  OBVIOUS
  <2>2. QED  BY <2>1, TwoSteps
<1>3. PICK d, t, y, x : Pads(n, d, t, y, x)  BY <1>1, PadsIs
<1>4. /\ Shape(n, d, t, y) /\ d \in Nat /\ y \in Nat /\ Highest(n, d)
      /\ n <= Padded(n) /\ Padded(n) \in Nat /\ x \in Nat /\ Padded(n) = x * P[y]
  BY <1>3 DEF Pads, Shape, Fewest
<1>5. CASE len = 0  BY <1>4, <1>5, PadsNothing DEF n
<1>6. CASE len # 0
  <2>1. len \in Nat \ {0} /\ len < P[64]  BY <1>1, <1>2, <1>6
  <2>2. PICK e, s, z, q : Pads(len, e, s, z, q)  BY <2>1, PadsIs
  <2>3. /\ Shape(len, e, s, z) /\ e \in Nat /\ z \in Nat /\ Highest(len, e)
        /\ Padded(len) \in Nat /\ Padded(len) = q * P[z] /\ q \in Nat
        /\ Padded(len) <= P[e + 1]
        /\ \A i \in Nat : len <= i * P[z] => q <= i
    BY <2>2 DEF Pads, Shape, Fewest
  <2>4. P[e] \in Nat /\ P[e + 1] \in Nat /\ P[z] \in Nat \ {0} /\ P[e] <= len /\ len < P[e + 1]
    BY <2>3, TwoSteps DEF Highest
  <2>5. CASE n < P[e + 1]
    <3>1. Highest(n, e)  BY <1>1, <2>1, <2>4, <2>5 DEF Highest
    <3>2. d = e  BY <1>1, <1>4, <2>3, <3>1, HighestOnce
    <3>3. y = z  BY <1>4, <2>3, <3>2, ShapeOnce
    <3> DEFINE p == P[z]
    <3>4. p \in Nat \ {0} /\ Padded(n) = x * p /\ Padded(len) = q * p  BY <1>4, <2>3, <2>4, <3>3
    <3>5. q <= x
      <4>1. len <= x * p  BY <1>1, <1>4, <2>1, <3>4
      <4>2. QED  BY <1>4, <2>3, <4>1
    <3> HIDE DEF p
    <3>6. q * p <= x * p  BY <1>4, <2>3, <3>4, <3>5
    <3>7. QED  BY <3>4, <3>6 DEF n
  <2>6. CASE n = P[e + 1]  BY <1>4, <2>3, <2>6 DEF n
  <2>7. QED  BY <1>1, <2>1, <2>4, <2>5, <2>6
<1>7. QED  BY <1>5, <1>6

\* The step, compared with the length.
LEMMA Cheap ==
  ASSUME NEW len \in Nat, len < P[64]
  PROVE  8 * padding_len(len) < len \/ padding_len(len) = 0
<1>1. CASE len = 0  BY <1>1, PadsNothing
<1>2. CASE len # 0
  <2>1. PICK e, s, z, q : Pads(len, e, s, z, q)  BY <1>2, PadsIs
  <2>2. /\ Shape(len, e, s, z) /\ e \in Nat /\ s \in Nat /\ z \in Nat /\ e = z + s
        /\ Highest(len, e) /\ q \in Nat
        /\ Padded(len) \in Nat /\ Padded(len) = q * P[z]
        /\ len <= Padded(len) /\ Padded(len) < len + P[z]
        /\ padding_len(len) = Padded(len) - len
    BY <2>1 DEF Pads, Shape, Fewest
  <2> DEFINE m == Padded(len)
             d == padding_len(len)
             p == P[z]
  <2>3. p \in Nat \ {0} /\ m \in Nat /\ d \in Nat /\ d < p /\ m = q * p /\ len + d = m
    BY <2>2, TwoSteps
  <2> HIDE DEF m, d, p
  <2>4. CASE 4 <= e
    <3>1. 3 <= s
      <4>1. P[2] <= e /\ 2 \in Nat  BY <2>4, TwoFirst
      <4>2. 2 + 1 <= s  BY <2>2, <4>1, BitsOfExponent
      <4>3. QED  BY <4>2
    <3>2. 8 <= P[s] /\ P[s] \in Nat
      <4>1. P[3] <= P[s]  BY <2>2, <3>1, TwoGrow
      <4>2. QED  BY <2>2, <4>1, TwoFirst, TwoSteps
    <3>3. P[e] = p * P[s]  BY <2>2, TwoAdds DEF p
    <3> DEFINE w == P[s]
    <3>4. w \in Nat /\ 8 <= w /\ P[e] = p * w  BY <3>2, <3>3
    <3> HIDE DEF w
    <3>5. p * 8 <= p * w /\ p * w \in Nat  BY <2>3, <3>4
    <3>6. 8 * p <= P[e] /\ P[e] \in Nat  BY <2>3, <3>4, <3>5
    <3>7. 8 * p <= len  BY <2>2, <2>3, <3>6 DEF Highest
    <3>8. 8 * d < len  BY <2>3, <3>7
    <3>9. QED  BY <3>8 DEF d
  <2>5. CASE e = 3
    <3>1. 2 <= s
      <4>1. P[1] <= e /\ 1 \in Nat  BY <2>5, TwoFirst
      <4>2. 1 + 1 <= s  BY <2>2, <4>1, BitsOfExponent
      <4>3. QED  BY <4>2
    <3>2. z \in {0, 1}  BY <2>2, <2>5, <3>1
    <3>3. p \in {1, 2}  BY <3>2, TwoFirst, TwoSteps DEF p
    <3>4. 8 <= len  BY <2>2, <2>5, TwoFirst DEF Highest
    <3>5. CASE p = 1  BY <2>3, <3>5 DEF d
    <3>6. CASE p = 2
      <4>1. d = 0 \/ d = 1  BY <2>3, <3>6
      <4>2. d = 1 => len # 8
        <5>1. m = q * 2 /\ q \in Nat  BY <2>2, <2>3, <3>6
        <5>2. q * 2 # 9  BY <5>1
        <5>3. QED  BY <2>3, <5>1, <5>2
      <4>3. d = 0 \/ 8 * d < len  BY <3>4, <4>1, <4>2
      <4>4. QED  BY <4>3 DEF d
    <3>7. QED  BY <3>3, <3>5, <3>6
  <2>6. CASE e < 3
    <3>1. z = 0
      <4>1. CASE e = 0  BY <2>2, <4>1
      <4>2. CASE e = 1
        <5>1. P[0] <= e /\ 0 \in Nat  BY <4>2, TwoSteps
        <5>2. 0 + 1 <= s  BY <2>2, <5>1, BitsOfExponent
        <5>3. QED  BY <2>2, <4>2, <5>2
      <4>3. CASE e = 2
        <5>1. P[1] <= e /\ 1 \in Nat  BY <4>3, TwoFirst
        <5>2. 1 + 1 <= s  BY <2>2, <5>1, BitsOfExponent
        <5>3. QED  BY <2>2, <4>3, <5>2
      <4>4. QED  BY <2>2, <2>6, <4>1, <4>2, <4>3
    <3>2. p = 1  BY <3>1, TwoSteps DEF p
    <3>3. d = 0  BY <2>3, <3>2
    <3>4. QED  BY <3>3 DEF d
  <2>7. QED  BY <2>2, <2>4, <2>5, <2>6
<1>3. QED  BY <1>1, <1>2

\* Five bits of the exponent are enough for 25 to 31 others.
LEMMA StepBelow ==
  ASSUME NEW len, NEW e, NEW s, NEW z, Shape(len, e, s, z), NEW j \in 15..63, e <= j + 5
  PROVE  z <= j
<1>1. e \in Nat /\ s \in Nat /\ z \in Nat /\ e = z + s  BY DEF Shape
<1>2. CASE e <= 15  BY <1>1, <1>2
<1>3. CASE 16 <= e
  <2>1. P[4] <= e /\ 4 \in Nat  BY <1>3, TwoFirst
  <2>2. 4 + 1 <= s  BY <2>1, BitsOfExponent
  <2>3. QED  BY <1>1, <2>2
<1>4. QED  BY <1>1, <1>2, <1>3

LEMMA Fits ==
  ASSUME NEW len \in Nat, len < P[30]
  PROVE  padding_len(len) < P[24]
<1>1. 24 \in Nat /\ 30 \in Nat /\ 64 \in Nat /\ 30 <= 64  OBVIOUS
<1>2. P[24] \in Nat \ {0} /\ P[30] \in Nat /\ P[64] \in Nat /\ P[30] <= P[64]
  BY <1>1, TwoSteps, TwoGrow
<1>3. CASE len = 0  BY <1>2, <1>3, PadsNothing
<1>4. CASE len # 0
  <2>1. len < P[64]  BY <1>2
  <2>2. PICK e, s, z, q : Pads(len, e, s, z, q)  BY <1>4, <2>1, PadsIs
  <2>3. /\ Shape(len, e, s, z) /\ e \in Nat /\ z \in Nat /\ Highest(len, e)
        /\ Padded(len) \in Nat /\ Padded(len) < len + P[z]
        /\ padding_len(len) = Padded(len) - len
    BY <2>2 DEF Pads, Shape
  <2>4. e < 30
    <3>1. P[e] \in Nat /\ P[e] <= len  BY <2>3, TwoSteps DEF Highest
    <3>2. P[e] < P[30]  BY <1>2, <3>1
    <3>3. QED  BY <1>1, <2>3, <3>2, TwoBelow
  <2>5. z <= 24
    <3>1. 24 \in 15..63 /\ e <= 24 + 5  BY <2>3, <2>4
    <3>2. QED  BY <2>3, <3>1, StepBelow
  <2>6. P[z] <= P[24] /\ P[z] \in Nat  BY <1>1, <2>3, <2>5, TwoGrow, TwoSteps
  <2>7. QED  BY <1>2, <2>3, <2>6
<1>5. QED  BY <1>3, <1>4
\* Lengths of one class, where steps divide blocks.
LEMMA HidesBlocks ==
  ASSUME NEW len \in Nat, NEW B, B = P[16], len + 1 <= 64 * B,
         Padded(len) = Padded(len + 1)
  PROVE  (len + B - 1) \div B = (len + 1 + B - 1) \div B
<1>1. /\ B \in Nat \ {0} /\ 64 * B = P[22] /\ P[22] \in Nat /\ P[22] < P[64]
      /\ P[64] \in Nat
  <2>1. 16 \in Nat /\ 2 \in Nat /\ 4 \in Nat /\ 6 \in Nat /\ 22 \in Nat /\ 64 \in Nat
        /\ 16 + 6 = 22 /\ 2 + 4 = 6 /\ 22 <= 64
    OBVIOUS
  <2>a. P[16 + 6] = P[16] * P[6] /\ P[2 + 4] = P[2] * P[4]  BY <2>1, TwoAdds
  <2>2. P[22] = P[16] * P[6] /\ P[6] = P[2] * P[4]  BY <2>1, <2>a
  <2>3. P[16] \in Nat \ {0} /\ P[22] \in Nat /\ P[64] \in Nat  BY <2>1, TwoSteps
  <2>4. P[6] = 64  BY <2>2, TwoFirst
  <2>5. P[22] = P[16] * 64  BY <2>2, <2>4
  <2>6. P[22] < P[64]
    <3>1. 23 \in Nat /\ 23 <= 64 /\ 22 + 1 = 23  BY <2>1
    <3>2. P[23] <= P[64]  BY <2>1, <3>1, TwoGrow
    <3>3. P[22 + 1] = 2 * P[22] /\ P[22] \in Nat \ {0}  BY <2>1, TwoSteps
    <3>4. QED  BY <2>3, <3>1, <3>2, <3>3
  <2>7. QED  BY <2>3, <2>5, <2>6
<1>2. len + 1 \in Nat \ {0} /\ len + 1 < P[64] /\ len < P[64] /\ len < P[22]  BY <1>1
<1>3. len + 1 <= Padded(len + 1) /\ Padded(len + 1) \in Nat
  <2>1. PICK e, s, z, q : Pads(len + 1, e, s, z, q)  BY <1>2, PadsIs
  <2>2. QED  BY <2>1 DEF Pads
<1>4. len # 0  BY <1>3, PadsNothing
<1>5. PICK e, s, z, q : Pads(len, e, s, z, q)  BY <1>2, <1>4, PadsIs
<1>6. /\ Shape(len, e, s, z) /\ e \in Nat /\ z \in Nat /\ Highest(len, e)
      /\ Padded(len) = q * P[z]
  BY <1>5 DEF Pads, Shape
<1>7. z <= 16
  <2>1. P[e] \in Nat /\ P[e] <= len  BY <1>6, TwoSteps DEF Highest
  <2>2. P[e] < P[22] /\ 22 \in Nat  BY <1>1, <1>2, <2>1
  <2>3. e < 22  BY <1>6, <2>2, TwoBelow
  <2>4. 16 \in 15..63 /\ e <= 16 + 5  BY <1>6, <2>3
  <2>5. QED  BY <1>6, <2>4, StepBelow
<1>8. PICK w \in Nat \ {0} : B = w * P[z]
  <2>1. 16 \in Nat  OBVIOUS
  <2>2. QED  BY <1>6, <1>7, <2>1, TwoGrow
\* A last block that is full is a length of whole steps.
<1>9. \A t \in Nat : len # t * B
  <2>1. SUFFICES ASSUME NEW t \in Nat, len = t * B PROVE FALSE  OBVIOUS
  <2> DEFINE p == P[z]
  <2>2. p \in Nat  BY <1>6, TwoSteps
  <2>3. t * (w * p) = (t * w) * p /\ t * w \in Nat
    <3> HIDE DEF p
    <3>1. QED  BY <2>2
  <2>4. len = (t * w) * p  BY <1>8, <2>1, <2>3
  <2>5. Padded(len) = len  BY <1>5, <2>3, <2>4, WholeSteps
  <2>6. QED  BY <1>3, <2>5
<1> DEFINE n == len + 1
           a == (len + B - 1) \div B
           b == (n + B - 1) \div B
<1>10. n \in Nat /\ n = len + 1  OBVIOUS
<1> HIDE DEF n
<1>11. Fewest(a, len, B) /\ Fewest(b, n, B)  BY <1>1, <1>10, RoundsUp
<1> HIDE DEF a, b
<1>12. a \in Nat /\ b \in Nat /\ len <= a * B /\ n <= b * B /\ a * B \in Nat /\ b * B \in Nat
  BY <1>1, <1>11 DEF Fewest
<1>13. n <= a * B
  <2>1. len # a * B  BY <1>9, <1>12
  <2>2. QED  BY <1>10, <1>12, <2>1
<1>14. len <= b * B  BY <1>10, <1>12
<1>15. b <= a /\ a <= b  BY <1>11, <1>12, <1>13, <1>14 DEF Fewest
<1>16. a = b  BY <1>12, <1>15
<1>17. QED  BY <1>16 DEF a, b, n

-----------------------------------------------------------------------------
(* The walk.                                                               *)

LEMMA WalkRange ==
  ASSUME NEW n \in Nat, NEW m \in Nat, \E e \in 0..62 : m \div Power(2)[e] <= 1, n <= m
  PROVE  n < P[63]
<1>1. PICK e \in 0..62 : m \div P[e] <= 1  BY DEF P
<1>2. e \in Nat /\ e + 1 \in Nat /\ e + 1 <= 63 /\ 63 \in Nat  OBVIOUS
<1> DEFINE p == P[e]
<1>3. p \in Nat \ {0} /\ P[e + 1] = 2 * p /\ P[e + 1] <= P[63] /\ P[63] \in Nat
  BY <1>2, TwoSteps, TwoGrow
<1> HIDE DEF p
<1> DEFINE q == m \div p
           rest == m % p
<1>4. q \in Nat /\ rest \in Nat /\ rest < p /\ m = q * p + rest  BY <1>3, DivRest
<1>5. q <= 1  BY <1>1 DEF p
<1> HIDE DEF q, rest
<1>6. q \in {0, 1}  BY <1>4, <1>5
<1>7. m < 2 * p
  <2>1. CASE q = 0  BY <1>3, <1>4, <2>1
  <2>2. CASE q = 1  BY <1>3, <1>4, <2>2
  <2>3. QED  BY <1>6, <2>1, <2>2
<1>8. QED  BY <1>3, <1>7

\* The counter is a length that padding_len has room for.
Walks ==
  /\ start \in Starts /\ start \in Nat /\ read \in Nat
  /\ read <= start + Stretch /\ read < P[63]

LEMMA WalksHolds == Spec => []Walks
<1>1. Stretch \in Nat /\ Starts \subseteq Nat  BY WalkAssumption
<1>2. ASSUME NEW n \in Starts, NEW i \in Nat, i <= n + Stretch PROVE i < P[63]
  <2>1. n + Stretch \in Nat  BY <1>1
  <2>2. \E e \in 0..62 : (n + Stretch) \div Power(2)[e] <= 1  BY WalkAssumption
  <2>3. QED  BY <1>2, <2>1, <2>2, WalkRange
<1>3. Init => Walks
  <2>1. SUFFICES ASSUME Init PROVE Walks  OBVIOUS
  <2>2. start \in Starts /\ start \in Nat /\ read = start  BY <1>1, <2>1 DEF Init
  <2>3. read \in Nat /\ read <= start + Stretch  BY <1>1, <2>2
  <2>4. QED  BY <1>2, <2>2, <2>3 DEF Walks
<1>4. Walks /\ [OneMore]_vars => Walks'
  <2>1. SUFFICES ASSUME Walks, [OneMore]_vars PROVE Walks'  OBVIOUS
  <2>2. CASE OneMore
    <3>1. /\ start' = start /\ read' = read + 1 /\ read < start + Stretch
          /\ start \in Starts /\ start \in Nat /\ read \in Nat
      BY <2>1, <2>2 DEF OneMore, Walks
    <3>2. read' \in Nat /\ read' <= start + Stretch  BY <1>1, <3>1
    <3>3. QED  BY <1>2, <3>1, <3>2 DEF Walks
  <2>3. CASE UNCHANGED vars  BY <2>1, <2>3 DEF Walks, vars
  <2>4. QED  BY <2>1, <2>2, <2>3
<1>5. QED  BY <1>3, <1>4, PTL DEF Spec

LEMMA Bounds == P[63] \in Nat /\ P[64] \in Nat /\ P[63] < P[64]
<1>1. 63 \in Nat /\ 63 + 1 = 64  OBVIOUS
<1>2. P[63] \in Nat \ {0} /\ P[63 + 1] = 2 * P[63]  BY <1>1, TwoSteps
<1>3. QED  BY <1>1, <1>2

\* What walks from lengths below 1 GiB need to end there, and the real size of the
\* length in a block header.
HeadersOf24Bits ==
  /\ LEN_LIMIT = Power(2)[24]
  /\ \A n \in Starts : n + Stretch < Power(2)[30]

\* The real length of a block.
BlocksOf64KiB == BLOCK_LEN = Power(2)[16]

-----------------------------------------------------------------------------
(* The theorems.                                                           *)

\* For every plaintext of less than 1 GiB: the length of the padding fits the three
\* bytes of its block header, which takes it as it is.
THEOREM HeaderCorrect ==
  ASSUME HeadersOf24Bits
  PROVE  Spec => []PaddingFitsItsHeader
<1>1. ASSUME Walks PROVE PaddingFitsItsHeader
  <2>1. /\ read \in Nat /\ start \in Starts /\ start \in Nat /\ read <= start + Stretch
        /\ Stretch \in Nat
    BY <1>1, WalkAssumption DEF Walks
  <2>2. LEN_LIMIT = P[24] /\ start + Stretch < P[30]
    BY <2>1 DEF HeadersOf24Bits, P
  <2>3. P[30] \in Nat
    <3>1. 30 \in Nat  OBVIOUS
    <3>2. QED  BY <3>1, TwoSteps
  <2>4. read < P[30]  BY <2>1, <2>2, <2>3
  <2>5. QED  BY <2>1, <2>2, <2>4, Fits DEF PaddingFitsItsHeader
<1>2. QED  BY <1>1, WalksHolds, PTL

\* For every length: padding costs less than an eighth of the message.
THEOREM CheapCorrect == Spec => []PaddingIsCheap
<1>1. ASSUME Walks PROVE PaddingIsCheap
  <2>1. read \in Nat /\ read < P[64]  BY <1>1, Bounds DEF Walks
  <2>2. QED  BY <2>1, Cheap DEF PaddingIsCheap
<1>2. QED  BY <1>1, WalksHolds, PTL

\* For every length: a padded length is not padded further.
THEOREM FixedPointCorrect == Spec => []PaddedIsAFixedPoint
<1>1. ASSUME Walks PROVE PaddedIsAFixedPoint
  <2>1. read \in Nat /\ read < P[63]  BY <1>1 DEF Walks
  <2>2. QED  BY <2>1, Idempotent DEF PaddedIsAFixedPoint
<1>2. QED  BY <1>1, WalksHolds, PTL

\* For every length: a longer message is never padded to a shorter one.
THEOREM MonotoneCorrect == Spec => PaddedIsMonotone
<1>1. ASSUME Walks, Walks', OneMore PROVE Padded(read) <= Padded(read')
  <2>1. read \in Nat /\ read' = read + 1 /\ read + 1 < P[64]
    <3>1. read \in Nat /\ read' = read + 1 /\ read' \in Nat /\ read' < P[63]
      BY <1>1 DEF Walks, OneMore
    <3>2. QED  BY <3>1, Bounds
  <2>2. QED  BY <2>1, OneLonger
<1>2. Walks /\ Walks' /\ [OneMore]_vars => [Padded(read) <= Padded(read')]_vars
  BY <1>1
<1>3. QED  BY <1>2, WalksHolds, PTL DEF Spec, PaddedIsMonotone

\* With blocks of 64 KiB, up to 64 of them: lengths of one class have the same number
\* of blocks.
THEOREM ClassCorrect ==
  ASSUME BlocksOf64KiB
  PROVE  Spec => ClassHidesBlocks
<1>1. ASSUME Walks, OneMore, Padded(read) = Padded(read'),
             read' <= 64 * BLOCK_LEN
      PROVE  Blocks(read) = Blocks(read')
  <2>1. read \in Nat /\ read' = read + 1  BY <1>1 DEF Walks, OneMore
  <2>2. BLOCK_LEN = P[16]  BY DEF BlocksOf64KiB, P
  <2>3. /\ read + 1 <= 64 * BLOCK_LEN
        /\ Padded(read) = Padded(read + 1)
    BY <1>1, <2>1
  <2>4. (read + BLOCK_LEN - 1) \div BLOCK_LEN = (read + 1 + BLOCK_LEN - 1) \div BLOCK_LEN
    BY <2>1, <2>2, <2>3, HidesBlocks
  <2>5. QED  BY <2>1, <2>4 DEF Blocks
<1>2. Walks /\ [OneMore]_vars =>
        [(Padded(read) = Padded(read') /\ read' <= 64 * BLOCK_LEN)
           => Blocks(read) = Blocks(read')]_vars
  BY <1>1
<1>3. QED  BY <1>2, WalksHolds, PTL DEF Spec, ClassHidesBlocks
=============================================================================
