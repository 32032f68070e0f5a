---------------------------- MODULE KemeleonSafety ----------------------------
(***************************************************************************)
(* A ciphertext survives its encoding, for vectors of any length and every *)
(* draw; and decode_ct has right digits of whatever it is given.           *)
(***************************************************************************)
EXTENDS Kemeleon, PowersSafety

-----------------------------------------------------------------------------
(* Powers and sums.                                                        *)

Reduced == 0..(Q - 1)
Vectors == [1..Coefficients -> Reduced]

LEMMA VectorDigits ==
  ASSUME NEW digits \in Vectors, NEW j \in 1..Coefficients
  PROVE  digits[j] \in 0..3328 /\ digits[j] \in Nat /\ digits[j] < Q
<1>1. digits[j] \in Reduced  BY DEF Vectors
<1> DEFINE d == digits[j]
<1>2. d \in Reduced  BY <1>1
<1> HIDE DEF d
<1>3. d \in 0..3328 /\ d \in Nat /\ d < Q  BY <1>2 DEF Reduced, Q
<1>4. QED  BY <1>3 DEF d

LEMMA PowersOfQ ==
  /\ Coefficients \in Nat /\ Q \in Nat \ {0}
  /\ Power(Q)[0] = 1
  /\ \A n \in Nat : Power(Q)[n] \in Nat \ {0} /\ Power(Q)[n + 1] = Q * Power(Q)[n]
<1>1. Q \in Nat \ {0}  BY DEF Q
<1>2. QED  BY <1>1, PowerSteps, KemeleonAssumption

LEMMA SumsRecur ==
  ASSUME NEW digits \in Vectors
  PROVE  Sums(digits) =
           [j \in 0..Coefficients |->
              IF j = 0 THEN 0 ELSE Sums(digits)[j - 1] + digits[j] * Power(Q)[j - 1]]
<1> DEFINE step == [x \in Nat \X Nat |->
                      IF x[1] \in 1..Coefficients THEN x[2] + digits[x[1]] * Power(Q)[x[1] - 1]
                      ELSE 0]
<1>0. /\ Q \in Nat \ {0} /\ Coefficients \in Nat
      /\ \A n \in Nat : Power(Q)[n] \in Nat
  BY PowersOfQ
<1>1. step \in [Nat \X Nat -> Nat]
  <2>1. ASSUME NEW j \in 1..Coefficients, NEW m \in Nat
        PROVE  m + digits[j] * Power(Q)[j - 1] \in Nat
    <3> DEFINE d == digits[j]
               w == Power(Q)[j - 1]
    <3>1. d \in Nat /\ w \in Nat  BY <1>0 DEF Vectors, Reduced
    <3> HIDE DEF d, w
    <3>2. m + d * w \in Nat  BY <3>1
    <3>3. QED  BY <3>2 DEF d, w
  <2>2. QED  BY <2>1
<1>2. \A j \in 1..Coefficients, m \in Nat :
        step[<<j, m>>] = m + digits[j] * Power(Q)[j - 1]
  <2>1. \A j \in 1..Coefficients, m \in Nat : <<j, m>> \in Nat \X Nat  OBVIOUS
  <2>2. QED  BY <2>1
<1> HIDE DEF step
<1>3. PICK h : Iterates(h, Nat, 0, step)  BY <1>1, RecursionIn
<1> DEFINE g == [j \in 0..Coefficients |-> h[j]]
<1>4. ASSUME NEW j \in 0..Coefficients
      PROVE  g[j] = IF j = 0 THEN 0 ELSE g[j - 1] + digits[j] * Power(Q)[j - 1]
  <2>1. CASE j = 0
    <3>1. g[0] = 0  BY <1>0, <1>3 DEF Iterates
    <3> HIDE DEF g
    <3>2. QED  BY <2>1, <3>1
  <2>2. CASE j # 0
    <3>1. j - 1 \in Nat /\ j - 1 + 1 = j /\ j \in 1..Coefficients /\ h[j - 1] \in Nat
      BY <1>0, <1>3, <2>2 DEF Iterates
    <3>2. h[j] = step[<<j, h[j - 1]>>]  BY <1>3, <3>1 DEF Iterates
    <3>3. h[j] = h[j - 1] + digits[j] * Power(Q)[j - 1]  BY <1>2, <3>1, <3>2
    <3>4. g[j] = h[j] /\ g[j - 1] = h[j - 1]  BY <1>0, <2>2
    <3> HIDE DEF g
    <3>5. QED  BY <2>2, <3>3, <3>4
  <2>3. QED  BY <2>1, <2>2
<1>5. g = [j \in 0..Coefficients |-> g[j]]  OBVIOUS
<1> HIDE DEF g
<1>6. g = [j \in 0..Coefficients |->
             IF j = 0 THEN 0 ELSE g[j - 1] + digits[j] * Power(Q)[j - 1]]
  BY <1>4, <1>5
<1> DEFINE sum == CHOOSE s : s = [j \in 0..Coefficients |->
                     IF j = 0 THEN 0 ELSE s[j - 1] + digits[j] * Power(Q)[j - 1]]
<1>7. sum = [j \in 0..Coefficients |->
               IF j = 0 THEN 0 ELSE sum[j - 1] + digits[j] * Power(Q)[j - 1]]
  BY <1>6, Zenon
<1>8. Sums(digits) = sum  BY DEF Sums
<1>9. QED  BY <1>7, <1>8

LEMMA SumSteps ==
  ASSUME NEW digits \in Vectors
  PROVE  /\ Sums(digits)[0] = 0
         /\ \A j \in 0..(Coefficients - 1) :
              Sums(digits)[j + 1] = Sums(digits)[j] + digits[j + 1] * Power(Q)[j]
<1> DEFINE S == Sums(digits)
           Body(j) == IF j = 0 THEN 0 ELSE S[j - 1] + digits[j] * Power(Q)[j - 1]
<1>1. \A j \in 0..Coefficients : S[j] = Body(j)  BY SumsRecur, Zenon
<1>2. Body(0) = 0  OBVIOUS
<1>3. ASSUME NEW j \in 0..(Coefficients - 1)
      PROVE  j + 1 \in 0..Coefficients /\ Body(j + 1) = S[j] + digits[j + 1] * Power(Q)[j]
  <2>1. j + 1 # 0 /\ j + 1 - 1 = j /\ j + 1 \in 0..Coefficients  BY KemeleonAssumption
  <2>2. QED  BY <2>1
<1>4. 0 \in 0..Coefficients  BY KemeleonAssumption
<1> HIDE DEF Body, S
<1>5. S[0] = 0 /\ \A j \in 0..(Coefficients - 1) :
                    S[j + 1] = S[j] + digits[j + 1] * Power(Q)[j]
  BY <1>1, <1>2, <1>3, <1>4
<1>6. QED  BY <1>5 DEF S

\* The first j digits make less than the next place is worth.
LEMMA SumsSmall ==
  ASSUME NEW digits \in Vectors, NEW j \in 0..Coefficients
  PROVE  Sums(digits)[j] \in Nat /\ Sums(digits)[j] < Power(Q)[j]
<1> DEFINE S == Sums(digits)
           P == Power(Q)
           T == {n \in Nat : n <= Coefficients => S[n] \in Nat /\ S[n] < P[n]}
<1>1. /\ Coefficients \in Nat /\ Q \in Nat \ {0} /\ P[0] = 1
      /\ \A n \in Nat : P[n] \in Nat \ {0} /\ P[n + 1] = Q * P[n]
  BY PowersOfQ
<1>2. S[0] = 0 /\ \A n \in 0..(Coefficients - 1) : S[n + 1] = S[n] + digits[n + 1] * P[n]
  BY SumSteps
<1>3. 0 \in T  BY <1>1, <1>2
<1> HIDE DEF S, P
<1>4. ASSUME NEW n \in Nat, n \in T PROVE n + 1 \in T
  <2>1. SUFFICES ASSUME n + 1 <= Coefficients PROVE S[n + 1] \in Nat /\ S[n + 1] < P[n + 1]
    OBVIOUS
  <2>2. n \in 0..(Coefficients - 1) /\ n + 1 \in 1..Coefficients /\ n <= Coefficients
    BY <1>1, <2>1
  <2> DEFINE s == S[n]
             d == digits[n + 1]
             w == P[n]
  <2>3. s \in Nat /\ s < w /\ w \in Nat \ {0} /\ P[n + 1] = Q * w  BY <1>1, <1>4, <2>2
  <2>4. d \in 0..3328 /\ S[n + 1] = s + d * w
    <3>0. \A i \in 1..Coefficients : digits[i] \in 0..3328  BY VectorDigits
    <3>1. d \in 0..3328  BY <2>2, <3>0
    <3>2. S[n + 1] = S[n] + digits[n + 1] * P[n]  BY <1>2, <2>2
    <3> HIDE DEF d
    <3>3. S[n + 1] = s + d * w  BY <3>2 DEF d
    <3>4. QED  BY <3>1, <3>3
  <2> HIDE DEF s, d, w
  <2>5. d * w \in Nat /\ d * w <= 3328 * w  BY <2>3, <2>4
  <2>6. s + d * w \in Nat /\ s + d * w < 3329 * w  BY <2>3, <2>5
  <2>7. QED  BY <2>3, <2>4, <2>6 DEF Q
<1> HIDE DEF T
<1>5. j \in T /\ j <= Coefficients  BY <1>1, <1>3, <1>4, NaturalsUpTo
<1>6. QED  BY <1>5 DEF T, S, P

\* Every later sum and power is a multiple of the place of the j-th digit away.
LEMMA SumsGrow ==
  ASSUME NEW digits \in Vectors, NEW j \in 0..Coefficients, NEW n \in 0..Coefficients, j <= n
  PROVE  \E t \in Nat : Sums(digits)[n] = Sums(digits)[j] + t * Power(Q)[j]
<1> DEFINE S == Sums(digits)
           P == Power(Q)
           Away(i) == /\ \E t \in Nat : S[j + i] = S[j] + t * P[j]
                      /\ \E w \in Nat : P[j + i] = w * P[j]
           T == {i \in Nat : j + i <= Coefficients => Away(i)}
<1>1. /\ Coefficients \in Nat /\ Q \in Nat \ {0}
      /\ \A i \in Nat : P[i] \in Nat \ {0} /\ P[i + 1] = Q * P[i]
  BY PowersOfQ
<1>2. \A i \in 0..(Coefficients - 1) : S[i + 1] = S[i] + digits[i + 1] * P[i]  BY SumSteps
<1>3. \A i \in 0..Coefficients : S[i] \in Nat  BY SumsSmall
<1>4. \A i \in 1..Coefficients : digits[i] \in Nat  BY VectorDigits
<1> HIDE DEF S, P
<1>5. 0 \in T
  <2>1. j \in Nat /\ j + 0 = j /\ S[j] \in Nat /\ P[j] \in Nat  BY <1>1, <1>3
  <2>2. S[j] = S[j] + 0 * P[j] /\ P[j] = 1 * P[j]  BY <2>1
  <2>3. Away(0)  BY <2>1, <2>2
  <2>4. QED  BY <2>3
<1>6. ASSUME NEW i \in Nat, i \in T PROVE i + 1 \in T
  <2>1. SUFFICES ASSUME j + (i + 1) <= Coefficients PROVE Away(i + 1)  OBVIOUS
  <2> DEFINE m == j + i
  <2>2. m \in Nat /\ j + (i + 1) = m + 1 /\ m \in 0..(Coefficients - 1)
        /\ m + 1 \in 1..Coefficients /\ m <= Coefficients
    BY <1>1, <2>1
  <2>3. Away(i)  BY <1>6, <2>2
  <2>4. PICK t \in Nat, w \in Nat : S[m] = S[j] + t * P[j] /\ P[m] = w * P[j]  BY <2>3
  <2> DEFINE d == digits[m + 1]
             p == P[j]
             s == S[j]
  <2>5. d \in Nat /\ p \in Nat /\ s \in Nat  BY <1>1, <1>3, <1>4, <2>2
  <2>6. S[m + 1] = (s + t * p) + d * (w * p)  BY <1>2, <2>2, <2>4
  <2>7. P[m + 1] = Q * (w * p)  BY <1>1, <2>2, <2>4
  <2> HIDE DEF d, p, s, m
  <2>8. (s + t * p) + d * (w * p) = s + (t + d * w) * p /\ t + d * w \in Nat  BY <2>5
  <2>9. Q * (w * p) = (Q * w) * p /\ Q * w \in Nat  BY <1>1, <2>5
  <2>10. (\E t2 \in Nat : S[m + 1] = s + t2 * p) /\ (\E w2 \in Nat : P[m + 1] = w2 * p)
    BY <2>6, <2>7, <2>8, <2>9
  <2>11. QED  BY <2>2, <2>10 DEF p, s
<1> DEFINE i == n - j
<1>7. i \in Nat /\ j + i = n  BY <1>1
<1> HIDE DEF T
<1>8. i \in T  BY <1>5, <1>6, <1>7, NaturalsUpTo
<1>9. Away(i)  BY <1>7, <1>8 DEF T
<1>10. QED  BY <1>7, <1>9 DEF S, P

\* The digits of the sum are the ones that were summed up.
LEMMA DigitsOfSum ==
  ASSUME NEW digits \in Vectors, NEW j \in 1..Coefficients
  PROVE  (Accumulated(digits) \div Power(Q)[j - 1]) % Q = digits[j]
<1> DEFINE S == Sums(digits)
           P == Power(Q)
           s == S[j - 1]
           p == P[j - 1]
           d == digits[j]
<1>1. /\ Coefficients \in Nat /\ Q \in Nat \ {0}
      /\ j - 1 \in Nat /\ j - 1 + 1 = j /\ j - 1 \in 0..(Coefficients - 1)
      /\ j - 1 \in 0..Coefficients /\ j \in 0..Coefficients /\ Coefficients \in 0..Coefficients
      /\ j <= Coefficients
  BY PowersOfQ
<1>2. p \in Nat \ {0} /\ P[j] = Q * p
  <2>1. P[j - 1] \in Nat \ {0} /\ P[j - 1 + 1] = Q * P[j - 1]  BY <1>1, PowersOfQ
  <2>2. QED  BY <1>1, <2>1
<1>3. s \in Nat /\ s < p  BY <1>1, SumsSmall
<1>4. S[j] = s + d * p
  <2>1. S[j - 1 + 1] = S[j - 1] + digits[j - 1 + 1] * P[j - 1]  BY <1>1, SumSteps
  <2>2. QED  BY <1>1, <2>1
<1>5. d \in Nat /\ d < Q
  <2>1. \A i \in 1..Coefficients : digits[i] \in Nat /\ digits[i] < Q
    BY VectorDigits
  <2>2. QED  BY <2>1
<1>6. PICK t \in Nat : S[Coefficients] = S[j] + t * P[j]  BY <1>1, SumsGrow
<1> HIDE DEF S, P, s, p, d
<1>7. S[Coefficients] = (s + d * p) + t * (Q * p)  BY <1>2, <1>4, <1>6
<1>8. (s + d * p) + t * (Q * p) = (t * Q + d) * p + s /\ t * Q + d \in Nat
  BY <1>1, <1>2, <1>3, <1>5
<1> DEFINE q == t * Q + d
           n == S[Coefficients]
<1>9. n = q * p + s /\ q \in Nat  BY <1>7, <1>8
<1>10. n \in Nat
  <2>1. q * p + s \in Nat  BY <1>2, <1>3, <1>9
  <2>2. QED  BY <1>9, <2>1
<1>11. q % Q = d  BY <1>1, <1>5, <1>9, DivUnique
<1> HIDE DEF q, n
<1>12. n \div p = q  BY <1>2, <1>3, <1>9, <1>10, DivUnique
<1>13. (n \div p) % Q = d  BY <1>11, <1>12
<1>14. QED  BY <1>13 DEF n, S, p, P, d, Accumulated

\* One turn of decode_ct: to subtract the digits so far, and not what they are worth,
\* changes no digit further up.
LEMMA NextDigit ==
  ASSUME NEW n \in Nat, NEW p \in Nat \ {0}, NEW sub \in Nat, sub <= n % p,
         NEW digit, digit = ((n - sub) \div p) % Q
  PROVE  /\ sub <= n
         /\ digit = (n \div p) % Q /\ digit \in 0..(Q - 1)
         /\ sub + digit <= n % (Q * p)
<1> DEFINE q == n \div p
           rest == n % p
<1>1. q \in Nat /\ rest \in Nat /\ rest < p /\ n = q * p + rest  BY DivRest
<1>2. sub <= rest  OBVIOUS
<1> HIDE DEF q, rest
<1>3. q * p \in Nat /\ sub <= n  BY <1>1, <1>2
<1>4. n - sub \in Nat /\ n - sub = q * p + (rest - sub) /\ rest - sub \in Nat /\ rest - sub < p
  BY <1>1, <1>2, <1>3
<1>5. (n - sub) \div p = q
  <2> DEFINE m == n - sub
             left == rest - sub
  <2>1. m \in Nat /\ left \in Nat /\ left < p /\ m = q * p + left  BY <1>4
  <2> HIDE DEF m, left
  <2>2. m \div p = q  BY <1>1, <2>1, DivUnique
  <2>3. QED  BY <2>2 DEF m
<1>6. digit = q % Q  BY <1>5
<1>7. Q \in Nat \ {0}  BY DEF Q
<1> DEFINE t == q \div Q
<1>8. digit \in Nat /\ digit < Q /\ t \in Nat /\ q = t * Q + digit  BY <1>1, <1>6, <1>7, DivRest
<1> HIDE DEF t
<1>9. n = t * (Q * p) + (digit * p + rest)
  <2>1. n = (t * Q + digit) * p + rest  BY <1>1, <1>8
  <2>2. QED  BY <1>1, <1>7, <1>8, <2>1
<1>10. digit * p + rest \in Nat /\ digit * p + rest < Q * p /\ Q * p \in Nat \ {0}
  <2>1. digit * p <= (Q - 1) * p /\ digit * p \in Nat  BY <1>7, <1>8
  <2>2. (Q - 1) * p + p = Q * p  BY <1>7
  <2>3. Q * p \in Nat \ {0}  BY <1>7
  <2>4. (Q - 1) * p \in Nat  BY <1>7
  <2>5. QED  BY <1>1, <2>1, <2>2, <2>3, <2>4
<1>11. n % (Q * p) = digit * p + rest
  <2> DEFINE b == Q * p
             low == digit * p + rest
  <2>1. b \in Nat \ {0} /\ low \in Nat /\ low < b /\ n = t * b + low  BY <1>9, <1>10
  <2> HIDE DEF b, low
  <2>2. n % b = low  BY <1>8, <2>1, DivUnique
  <2>3. QED  BY <2>2 DEF b, low
<1>12. digit <= digit * p  BY <1>8
<1>13. sub + digit <= digit * p + rest  BY <1>1, <1>2, <1>8, <1>10, <1>12
<1>14. QED  BY <1>3, <1>6, <1>8, <1>7, <1>11, <1>13 DEF q
-----------------------------------------------------------------------------
(* The numbers of ML-KEM-768, ten bits at a time.                          *)

Up(y)   == decompress(y, 10)
Down(x) == compress(x, 10)

LEMMA UpOnce ==
  ASSUME NEW y \in TenBits, NEW z \in TenBits, Up(y) = Up(z)
  PROVE  y = z
BY DEF Up, decompress, TenBits, Q

LEMMA UpRange ==
  ASSUME NEW y \in TenBits
  PROVE  Up(y) \in 0..3326
BY DEF Up, decompress, TenBits, Q

LEMMA UpReduced ==
  ASSUME NEW y \in TenBits
  PROVE  Up(y) \in Reduced /\ Up(y) # 3328
<1> DEFINE x == Up(y)
<1>1. x \in 0..3326  BY UpRange
<1> HIDE DEF x
<1>2. x \in Reduced /\ x # 3328  BY <1>1 DEF Reduced, Q
<1>3. QED  BY <1>2 DEF x

LEMMA DownRange ==
  ASSUME NEW x \in Reduced
  PROVE  Down(x) \in TenBits
BY DEF Down, Reduced, compress, Remainder, Quotient, TenBits, Q

\* Barrett's quotient and its two corrections.
LEMMA CompressIsNearest ==
  ASSUME NEW x \in Reduced
  PROVE  compress(x, 10) = Nearest(x, 10)
BY DEF Reduced, compress, Nearest, Remainder, Quotient, Q

LEMMA RemainderRange ==
  ASSUME NEW x \in Reduced
  PROVE  Remainder(x, 10) \in 0..(Q + Q \div 2)
BY DEF Reduced, Remainder, Quotient, Q

\* A draw that is accepted does not pass Q.
LEMMA AcceptedStays ==
  ASSUME NEW y \in TenBits, NEW a \in 0..4, Accepted(Up(y), a)
  PROVE  Up(y) + a \in Reduced /\ Down(Up(y) + a) = y
<1> DEFINE x == Up(y)
           z == Down(fe_add(x, a))
<1>1. x \in 0..3326  BY UpRange
<1>2. x + a < 3329
  BY DEF Accepted, compress, Remainder, Quotient, fe_add, fe_reduce_once, Up, decompress, TenBits, Q
<1>3. Up(z) = x  BY DEF Accepted, Up, Down
<1> HIDE DEF x
<1>4. x + a \in Reduced  BY <1>1, <1>2 DEF Reduced, Q
<1>5. fe_add(x, a) = x + a  BY <1>1, <1>2 DEF fe_add, fe_reduce_once, Q
<1>6. z = Down(x + a) /\ z \in TenBits  BY <1>4, <1>5, DownRange
<1> HIDE DEF z
<1>7. Up(z) = Up(y)  BY <1>3 DEF x
<1>8. z = y  BY <1>6, <1>7, UpOnce
<1>9. QED  BY <1>4, <1>6, <1>8 DEF x

-----------------------------------------------------------------------------
(* Encoding and decoding.                                                  *)

LEMMA Limit == R_LIMIT \in Nat \ {0}
<1>1. MAX_R \in Nat /\ 2 \in Nat \ {0}  BY KemeleonAssumption
<1>2. QED  BY <1>1, PowerSteps DEF R_LIMIT

\* The mask comes off.
LEMMA Unmasked ==
  ASSUME NEW w \in Vectors, NEW m \in Nat
  PROVE  /\ Accumulated(w) \in Nat /\ Accumulated(w) + m * R_LIMIT \in Nat
         /\ Unmask(Accumulated(w) + m * R_LIMIT) = Accumulated(w)
<1> DEFINE s == Accumulated(w)
           b == R_LIMIT
<1>1. Coefficients \in 0..Coefficients  BY KemeleonAssumption
<1>2. Power(Q)[Coefficients] \in Nat /\ Power(Q)[Coefficients] <= b
  BY <1>1, PowersOfQ, KemeleonAssumption
<1>3. s \in Nat /\ s < Power(Q)[Coefficients]  BY <1>1, SumsSmall DEF Accumulated
<1>4. b \in Nat \ {0}  BY Limit
<1>5. s < b  BY <1>2, <1>3, <1>4
<1> HIDE DEF s, b
<1> DEFINE n == s + m * b
<1>6. n \in Nat /\ n = m * b + s  BY <1>3, <1>4
<1> HIDE DEF n
<1>7. n % b = s  BY <1>3, <1>4, <1>5, <1>6, DivUnique
<1>8. QED  BY <1>3, <1>6, <1>7 DEF Unmask, n, s, b

-----------------------------------------------------------------------------
(* The invariant.                                                          *)

\* What AddRandomness has passed compresses to the ciphertext, the rest is the
\* ciphertext decompressed.
Drawn ==
  pc = "encapsulate" =>
    /\ got = "sent" /\ ct \in Ciphertexts
    /\ \A j \in 1..Coefficients :
         IF j < k THEN Down(u[j]) = ct[1][j] ELSE u[j] = Up(ct[1][j])

\* What was sent is a vector that compresses to the ciphertext, masked.
Masked ==
  (pc # "encapsulate" /\ got = "sent") =>
    \E w \in Vectors, m \in Nat :
      /\ \A j \in 1..Coefficients : Down(w[j]) = ct[1][j]
      /\ ect = <<Accumulated(w) + m * R_LIMIT, ct[2]>>

\* The digits so far, and that what was subtracted is less than the next is worth.
Decoding ==
  pc \in {"decode", "decoded"} =>
    /\ r = Unmask(ect[1])
    /\ coeff = Power(Q)[k - 1]
    /\ f <= r % coeff
    /\ \A j \in 1..(k - 1) : u[j] = (r \div Power(Q)[j - 1]) % Q
    /\ pc = "decoded" => k > Coefficients

Inv == TypeOK /\ Drawn /\ Masked /\ Decoding

LEMMA VectorsAre ==
  /\ Vectors = [1..Coefficients -> 0..3328]
  /\ Q = 3329 /\ 0..(Q - 1) = 0..3328
  /\ Coefficients \in Nat \ {0}
BY KemeleonAssumption DEF Vectors, Reduced, Q

LEMMA DecompressedVector ==
  ASSUME NEW c \in [1..Coefficients -> TenBits]
  PROVE  /\ Decompressed(c) \in Vectors
         /\ \A j \in 1..Coefficients : Decompressed(c)[j] = Up(c[j])
<1>1. \A j \in 1..Coefficients : Up(c[j]) \in Reduced  BY UpReduced
<1>2. [j \in 1..Coefficients |-> Up(c[j])] \in [1..Coefficients -> Reduced]
  BY <1>1, Zenon
<1>3. Decompressed(c) = [j \in 1..Coefficients |-> Up(c[j])]  BY DEF Decompressed, Up
<1>4. /\ Decompressed(c) \in Vectors
      /\ \A j \in 1..Coefficients : Decompressed(c)[j] = Up(c[j])
  BY <1>2, <1>3, Zenon DEF Vectors
<1>5. QED  BY <1>4

LEMMA TypeAgain ==
  ASSUME pc \in {"encapsulate", "sent", "decode", "decoded"},
         ct \in [1..Coefficients -> TenBits] \X Seq(FourBits),
         u \in Vectors, k \in 1..(Coefficients + 1), ect \in Nat \X Seq(FourBits),
         r \in 0..(R_LIMIT - 1), coeff \in Nat, f \in Nat, got \in {"sent", "stray"}
  PROVE  TypeOK
BY Zenon DEF TypeOK, Vectors, Reduced

LEMMA InitInv == Init => Inv
<1> SUFFICES ASSUME Init PROVE Inv  OBVIOUS
<1>1. Coefficients \in Nat \ {0} /\ R_LIMIT \in Nat \ {0}  BY VectorsAre, Limit
<1>2. k = 1 /\ r = 0 /\ coeff = 1 /\ f = 0 /\ u = Decompressed(ct[1])  BY DEF Init
<1>3. k \in 1..(Coefficients + 1) /\ r \in 0..(R_LIMIT - 1) /\ coeff \in Nat /\ f \in Nat
  BY <1>1, <1>2
<1>4. CASE got = "sent" /\ pc = "encapsulate" /\ ct \in Ciphertexts /\ ect = <<0, << >>>>
  <2>1. ct \in [1..Coefficients -> TenBits] \X Seq(FourBits)  BY <1>4, KemeleonAssumption
  <2>2. ct[1] \in [1..Coefficients -> TenBits]  BY <2>1
  <2>3. u \in Vectors /\ \A j \in 1..Coefficients : u[j] = Up(ct[1][j])
    BY <1>2, <2>2, DecompressedVector
  <2>4. ect \in Nat \X Seq(FourBits)
    <3>1. << >> \in Seq(FourBits) /\ 0 \in Nat  OBVIOUS
    <3>2. QED  BY <1>4, <3>1, Zenon
  <2>5. TypeOK  BY <1>3, <1>4, <2>1, <2>3, <2>4, TypeAgain
  <2>6. \A j \in 1..Coefficients : ~(j < k)  BY <1>2
  <2>7. Drawn  BY <1>4, <2>3, <2>6 DEF Drawn
  <2>8. Masked /\ Decoding  BY <1>4 DEF Masked, Decoding
  <2>9. QED  BY <2>5, <2>7, <2>8 DEF Inv
<1>5. CASE /\ got = "stray" /\ pc = "sent" /\ ect \in Strays
           /\ ct = <<[j \in 1..Coefficients |-> 0], << >>>>
  <2> DEFINE zeros == [j \in 1..Coefficients |-> 0]
  <2>1. zeros \in [1..Coefficients -> TenBits] /\ << >> \in Seq(FourBits)  BY DEF TenBits
  <2>2. ct = <<zeros, << >>>>  BY <1>5
  <2> HIDE DEF zeros
  <2>3. ct \in [1..Coefficients -> TenBits] \X Seq(FourBits) /\ ct[1] = zeros
    BY <2>1, <2>2
  <2>4. u \in Vectors  BY <1>2, <2>1, <2>3, DecompressedVector
  <2>5. ect \in (0..(32 * R_LIMIT - 1)) \X Seq(FourBits)  BY <1>5, KemeleonAssumption
  <2>6. ect \in Nat \X Seq(FourBits)  BY <1>1, <2>5
  <2>7. TypeOK  BY <1>3, <1>5, <2>3, <2>4, <2>6, TypeAgain
  <2>8. Drawn /\ Masked /\ Decoding  BY <1>5 DEF Drawn, Masked, Decoding
  <2>9. QED  BY <2>7, <2>8 DEF Inv
<1>6. QED  BY <1>4, <1>5 DEF Init
LEMMA AddRandomnessInv ==
  ASSUME Inv, AddRandomness
  PROVE  Inv'
<1>1. /\ pc = "encapsulate" /\ k <= Coefficients
      /\ UNCHANGED <<ct, ect, r, coeff, f, got>>
  BY DEF AddRandomness
<1>2. TypeOK /\ Drawn  BY DEF Inv
<1>3. /\ ct \in [1..Coefficients -> TenBits] \X Seq(FourBits)
      /\ k \in 1..(Coefficients + 1) /\ u \in Vectors
  BY <1>2 DEF TypeOK, Vectors, Reduced
<1>4. k \in 1..Coefficients /\ Coefficients \in Nat \ {0}  BY <1>1, <1>3, VectorsAre
<1> DEFINE c == ct[1]
           y == c[k]
<1>5. c \in [1..Coefficients -> TenBits]  BY <1>3
<1>6. y \in TenBits  BY <1>4, <1>5
<1>7. u[k] = Up(y)
  <2>1. ~(k < k)  BY <1>4
  <2>2. QED  BY <1>1, <1>2, <1>4, <2>1, Zenon DEF Drawn
<1> HIDE DEF c, y
<1>8. u[k] # 3328  BY <1>6, <1>7, UpReduced
<1>9. PICK a \in 0..4 : /\ Accepted(u[k], a)
                        /\ u' = [u EXCEPT ![k] = @ + a] /\ k' = k + 1 /\ pc' = pc
  BY <1>8 DEF AddRandomness
<1>10. u[k] + a \in Reduced /\ Down(u[k] + a) = y
  BY <1>6, <1>7, <1>9, AcceptedStays
<1> DEFINE x == u[k] + a
<1>11. /\ u' = [u EXCEPT ![k] = x] /\ x \in Reduced /\ Down(x) = y
  BY <1>9, <1>10
<1> HIDE DEF x
<1>12. /\ u' \in Vectors /\ u'[k] = x
       /\ \A j \in 1..Coefficients : j # k => u'[j] = u[j]
  BY <1>3, <1>4, <1>11 DEF Vectors
<1>13. k' \in 1..(Coefficients + 1) /\ k' = k + 1  BY <1>4, <1>9
<1>14. TypeOK'
  BY <1>1, <1>2, <1>9, <1>12, <1>13, Zenon DEF TypeOK, Vectors, Reduced
<1>15. Drawn'
  <2>1. got' = "sent" /\ ct' \in Ciphertexts /\ ct'[1] = c
    BY <1>1, <1>2 DEF Drawn, c
  <2>2. ASSUME NEW j \in 1..Coefficients
        PROVE  IF j < k' THEN Down(u'[j]) = c[j] ELSE u'[j] = Up(c[j])
    <3>1. IF j < k THEN Down(u[j]) = c[j] ELSE u[j] = Up(c[j])
      BY <1>1, <1>2, Zenon DEF Drawn, c
    <3>2. CASE j = k
      <4>1. j < k'  BY <1>4, <1>13, <3>2
      <4>2. Down(u'[j]) = c[j]  BY <1>11, <1>12, <3>2, Zenon DEF y
      <4>3. QED  BY <4>1, <4>2
    <3>3. CASE j # k
      <4>1. u'[j] = u[j]  BY <1>12, <3>3
      <4>2. j < k' <=> j < k  BY <1>4, <1>13, <3>3
      <4>3. QED  BY <3>1, <4>1, <4>2, Zenon
    <3>4. QED  BY <3>2, <3>3
  <2>3. QED  BY <2>1, <2>2, Zenon DEF Drawn
<1>16. Masked' /\ Decoding'  BY <1>1, <1>9 DEF Masked, Decoding
<1>17. QED  BY <1>14, <1>15, <1>16 DEF Inv

LEMMA EncapsulateInv ==
  ASSUME Inv, Encapsulate
  PROVE  Inv'
<1>1. /\ pc = "encapsulate" /\ ct' \in Redrawn /\ u' = Decompressed(ct'[1]) /\ k' = 1
      /\ UNCHANGED <<pc, ect, r, coeff, f, got>>
  BY DEF Encapsulate
<1>2. TypeOK /\ Drawn  BY DEF Inv
<1>3. /\ ct' \in Ciphertexts /\ ct' \in [1..Coefficients -> TenBits] \X Seq(FourBits)
      /\ Coefficients \in Nat \ {0}
  BY <1>1, KemeleonAssumption
<1>4. ct'[1] \in [1..Coefficients -> TenBits]  BY <1>3
<1>5. /\ u' \in Vectors
      /\ \A j \in 1..Coefficients : u'[j] = Up(ct'[1][j])
  BY <1>1, <1>4, DecompressedVector, Zenon
<1>6. k' \in 1..(Coefficients + 1) /\ \A j \in 1..Coefficients : ~(j < k')  BY <1>1, <1>3
<1>7. TypeOK'
  BY <1>1, <1>2, <1>3, <1>5, <1>6, Zenon DEF TypeOK, Vectors, Reduced
<1>8. got' = "sent"  BY <1>1, <1>2 DEF Drawn
<1>9. Drawn'  BY <1>3, <1>5, <1>6, <1>8, Zenon DEF Drawn
<1>10. Masked' /\ Decoding'  BY <1>1 DEF Masked, Decoding
<1>11. QED  BY <1>7, <1>9, <1>10 DEF Inv

LEMMA EncodeInv ==
  ASSUME Inv, Encode
  PROVE  Inv'
<1>1. /\ pc = "encapsulate" /\ k > Coefficients /\ pc' = "sent"
      /\ UNCHANGED <<ct, u, k, r, coeff, f, got>>
      /\ \E mask \in Masks : ect' = <<Accumulated(u) + mask * R_LIMIT, ct[2]>>
  BY DEF Encode
<1>2. TypeOK /\ Drawn  BY DEF Inv
<1>3. /\ ct \in [1..Coefficients -> TenBits] \X Seq(FourBits)
      /\ k \in 1..(Coefficients + 1) /\ u \in Vectors
  BY <1>2 DEF TypeOK, Vectors, Reduced
<1>4. PICK mask \in Masks : ect' = <<Accumulated(u) + mask * R_LIMIT, ct[2]>>  BY <1>1
<1>5. mask \in Nat  BY KemeleonAssumption
<1>6. Accumulated(u) + mask * R_LIMIT \in Nat  BY <1>3, <1>5, Unmasked
<1> DEFINE n == Accumulated(u) + mask * R_LIMIT
<1>7. ect' = <<n, ct[2]>> /\ n \in Nat  BY <1>4, <1>6
<1> HIDE DEF n
<1>8. ct[2] \in Seq(FourBits)  BY <1>3
<1>9. ect' \in Nat \X Seq(FourBits)  BY <1>7, <1>8
<1>10. TypeOK'
  BY <1>1, <1>2, <1>9, Zenon DEF TypeOK
<1>11. \A j \in 1..Coefficients : Down(u[j]) = ct[1][j]
  <2>1. \A j \in 1..Coefficients : j < k  BY <1>1, <1>3, VectorsAre
  <2>2. QED  BY <1>1, <1>2, <2>1, Zenon DEF Drawn
<1>12. Masked'
  <2>1. \E w \in Vectors, m \in Nat :
          /\ \A j \in 1..Coefficients : Down(w[j]) = ct'[1][j]
          /\ ect' = <<Accumulated(w) + m * R_LIMIT, ct'[2]>>
    BY <1>1, <1>3, <1>5, <1>7, <1>11, Zenon DEF n
  <2>2. QED  BY <2>1, Zenon DEF Masked
<1>13. Drawn' /\ Decoding'  BY <1>1 DEF Drawn, Decoding
<1>14. QED  BY <1>10, <1>12, <1>13 DEF Inv
\* The same, of what the prover need not look into.
Below(sub, n, p) == sub <= n % p

Goes(n, p, sub, digit) ==
  /\ sub <= n /\ digit \in Reduced
  /\ digit = (n \div p) % Q
  /\ Below(sub + digit, n, Q * p)

LEMMA NextGoes ==
  ASSUME NEW n \in Nat, NEW p \in Nat \ {0}, NEW sub \in Nat, Below(sub, n, p)
  PROVE  Goes(n, p, sub, ((n - sub) \div p) % Q)
<1> DEFINE digit == ((n - sub) \div p) % Q
<1>1. sub <= n % p  BY DEF Below
<1>2. digit = ((n - sub) \div p) % Q  OBVIOUS
<1> HIDE DEF digit
<1>3. /\ sub <= n /\ digit = (n \div p) % Q /\ digit \in 0..(Q - 1)
      /\ sub + digit <= n % (Q * p)
  BY <1>1, <1>2, NextDigit
<1>4. Goes(n, p, sub, digit)  BY <1>3, Zenon DEF Goes, Below, Reduced
<1>5. QED  BY <1>4 DEF digit

LEMMA NothingBelow ==
  ASSUME NEW n \in Nat
  PROVE  Below(0, n, 1)
BY DEF Below

LEMMA UnmaskedRange ==
  ASSUME NEW n \in Nat
  PROVE  Unmask(n) \in 0..(R_LIMIT - 1)
<1> DEFINE b == R_LIMIT
<1>1. b \in Nat \ {0}  BY Limit
<1> HIDE DEF b
<1>2. n % b \in 0..(b - 1)  BY <1>1
<1>3. QED  BY <1>2 DEF Unmask, b

LEMMA DecapsulateInv ==
  ASSUME Inv, Decapsulate
  PROVE  Inv'
<1>1. /\ pc = "sent" /\ r' = Unmask(ect[1]) /\ coeff' = 1 /\ f' = 0
      /\ u' = [j \in 1..Coefficients |-> 0] /\ k' = 1 /\ pc' = "decode"
      /\ UNCHANGED <<ct, ect, got>>
  BY DEF Decapsulate
<1>2. TypeOK /\ Masked  BY DEF Inv
<1>3. ect[1] \in Nat  BY <1>2 DEF TypeOK
<1>4. r' \in 0..(R_LIMIT - 1)  BY <1>1, <1>3, UnmaskedRange
<1>5. /\ coeff' \in Nat /\ f' \in Nat /\ k' \in 1..(Coefficients + 1) /\ 0 \in Reduced
      /\ \A j \in 1..(k' - 1) : FALSE
  BY <1>1, VectorsAre DEF Reduced
<1>6. u' \in Vectors  BY <1>1, <1>5, Zenon DEF Vectors
<1>7. TypeOK'
  BY <1>1, <1>2, <1>4, <1>5, <1>6, Zenon DEF TypeOK, Vectors, Reduced
<1>8. Drawn'  BY <1>1 DEF Drawn
<1>9. Masked'
  <2>1. got = "sent" => \E w \in Vectors, m \in Nat :
          /\ \A j \in 1..Coefficients : Down(w[j]) = ct[1][j]
          /\ ect = <<Accumulated(w) + m * R_LIMIT, ct[2]>>
    BY <1>1, <1>2 DEF Masked
  <2>2. QED  BY <1>1, <2>1, Zenon DEF Masked
<1>10. Decoding'
  <2>1. coeff' = Power(Q)[k' - 1]
    <3>1. k' - 1 = 0  BY <1>1
    <3>2. QED  BY <1>1, <3>1, PowersOfQ
  <2>2. f' <= r' % coeff'
    <3>1. r' \in Nat  BY <1>4, Limit
    <3>2. Below(f', r', coeff')  BY <1>1, <3>1, NothingBelow
    <3>3. QED  BY <3>2 DEF Below
  <2>3. pc' # "decoded" /\ r' = Unmask(ect'[1])  BY <1>1
  <2>4. QED  BY <1>5, <2>1, <2>2, <2>3, Zenon DEF Decoding
<1>11. QED  BY <1>7, <1>8, <1>9, <1>10 DEF Inv

LEMMA DecodeDigitInv ==
  ASSUME Inv, DecodeDigit
  PROVE  Inv'
<1>1. pc = "decode" /\ k <= Coefficients /\ UNCHANGED <<ct, ect, r, got>>
  BY DEF DecodeDigit
<1>2. TypeOK /\ Masked /\ Decoding  BY DEF Inv
<1>3. k \in 1..(Coefficients + 1) /\ u \in Vectors /\ r \in Nat /\ f \in Nat
  BY <1>2, Limit DEF TypeOK, Vectors, Reduced
<1>4. k \in 1..Coefficients /\ k - 1 \in Nat /\ k - 1 + 1 = k
  BY <1>1, <1>3, VectorsAre
<1>5. coeff = Power(Q)[k - 1] /\ f <= r % coeff  BY <1>1, <1>2 DEF Decoding
<1>6. coeff \in Nat \ {0} /\ Power(Q)[k] = Q * coeff
  <2>1. Power(Q)[k - 1] \in Nat \ {0} /\ Power(Q)[k - 1 + 1] = Q * Power(Q)[k - 1]
    BY <1>4, PowersOfQ
  <2>2. QED  BY <1>4, <1>5, <2>1
<1> DEFINE digit == ((r - f) \div coeff) % Q
<1>a. digit = ((r - f) \div coeff) % Q  OBVIOUS
<1> HIDE DEF digit
<1>7. /\ f <= r /\ digit = (r \div coeff) % Q /\ digit \in 0..(Q - 1)
      /\ f + digit <= r % (Q * coeff)
  <2>1. Below(f, r, coeff)  BY <1>5 DEF Below
  <2>2. Goes(r, coeff, f, digit)  BY <1>3, <1>6, <1>a, <2>1, NextGoes, Zenon
  <2>3. QED  BY <2>2, Zenon DEF Goes, Below, Reduced
<1>8. ~(f > r)  BY <1>3, <1>7
<1>9. /\ u' = [u EXCEPT ![k] = digit] /\ coeff' = coeff * Q /\ f' = f + digit
      /\ k' = k + 1 /\ pc' = pc
  BY <1>8 DEF DecodeDigit, Subtracted, digit
<1>10. digit \in Nat  BY <1>7 DEF Q
<1>11. coeff' = Q * coeff /\ Q * coeff \in Nat /\ f' \in Nat
  BY <1>3, <1>6, <1>9, <1>10 DEF Q
<1>12. k' \in 1..(Coefficients + 1) /\ k' - 1 = k  BY <1>4, <1>9, VectorsAre
<1>13. /\ u' \in Vectors /\ u'[k] = digit
       /\ \A j \in 1..Coefficients : j # k => u'[j] = u[j]
  BY <1>3, <1>4, <1>7, <1>9 DEF Vectors, Reduced
<1>14. TypeOK'
  BY <1>1, <1>2, <1>9, <1>11, <1>12, <1>13, Zenon DEF TypeOK, Vectors, Reduced
<1>15. Drawn'  BY <1>1, <1>9 DEF Drawn
<1>16. Masked'
  <2>1. got = "sent" => \E w \in Vectors, m \in Nat :
          /\ \A j \in 1..Coefficients : Down(w[j]) = ct[1][j]
          /\ ect = <<Accumulated(w) + m * R_LIMIT, ct[2]>>
    BY <1>1, <1>2 DEF Masked
  <2>2. QED  BY <1>1, <2>1, Zenon DEF Masked
<1>17. Decoding'
  <2>1. coeff' = Power(Q)[k' - 1]  BY <1>6, <1>11, <1>12
  <2>2. f' <= r' % coeff'  BY <1>1, <1>7, <1>9, <1>11
  <2>3. ASSUME NEW j \in 1..k
        PROVE  u'[j] = (r' \div Power(Q)[j - 1]) % Q
    <3>1. CASE j = k  BY <1>1, <1>5, <1>7, <1>13, <3>1
    <3>2. CASE j # k
      <4>1. j \in 1..(k - 1) /\ j \in 1..Coefficients  BY <1>4, <3>2, VectorsAre
      <4>2. u[j] = (r \div Power(Q)[j - 1]) % Q  BY <1>1, <1>2, <4>1 DEF Decoding
      <4>3. QED  BY <1>1, <1>13, <3>2, <4>1, <4>2
    <3>3. QED  BY <3>1, <3>2
  <2>4. pc' # "decoded" /\ r' = Unmask(ect'[1])  BY <1>1, <1>2, <1>9 DEF Decoding
  <2>5. QED  BY <1>12, <2>1, <2>2, <2>3, <2>4, Zenon DEF Decoding
<1>18. QED  BY <1>14, <1>15, <1>16, <1>17 DEF Inv

LEMMA RecompressInv ==
  ASSUME Inv, Recompress
  PROVE  Inv'
<1>1. /\ pc = "decode" /\ k > Coefficients /\ pc' = "decoded"
      /\ UNCHANGED <<ct, u, k, ect, r, coeff, f, got>>
  BY DEF Recompress
<1>2. TypeOK /\ Masked /\ Decoding  BY DEF Inv
<1>3. TypeOK'  BY <1>1, <1>2, Zenon DEF TypeOK
<1>4. Drawn'  BY <1>1 DEF Drawn
<1>5. Masked'
  <2>1. got = "sent" => \E w \in Vectors, m \in Nat :
          /\ \A j \in 1..Coefficients : Down(w[j]) = ct[1][j]
          /\ ect = <<Accumulated(w) + m * R_LIMIT, ct[2]>>
    BY <1>1, <1>2 DEF Masked
  <2>2. QED  BY <1>1, <2>1, Zenon DEF Masked
<1>6. Decoding'
  <2>1. /\ r = Unmask(ect[1]) /\ coeff = Power(Q)[k - 1] /\ f <= r % coeff
        /\ \A j \in 1..(k - 1) : u[j] = (r \div Power(Q)[j - 1]) % Q
    BY <1>1, <1>2 DEF Decoding
  <2>2. QED  BY <1>1, <2>1, Zenon DEF Decoding
<1>7. QED  BY <1>3, <1>4, <1>5, <1>6 DEF Inv

LEMMA InvHolds == Spec => []Inv
<1>1. Inv /\ [Next]_vars => Inv'
  <2>1. SUFFICES ASSUME Inv, [Next]_vars PROVE Inv'  OBVIOUS
  <2>2. CASE UNCHANGED vars
    <3>1. UNCHANGED <<pc, ct, u, k, ect, r, coeff, f, got>>  BY <2>2 DEF vars
    <3>2. Inv  BY <2>1
    <3>3. QED  BY <3>1, <3>2, Zenon DEF Inv, TypeOK, Drawn, Masked, Decoding
  <2>3. QED
    BY <2>1, <2>2, AddRandomnessInv, EncapsulateInv, EncodeInv, DecapsulateInv,
       DecodeDigitInv, RecompressInv
       DEF Next
<1>2. QED  BY InitInv, <1>1, PTL DEF Spec

-----------------------------------------------------------------------------
(* The theorems.                                                           *)

\* For ciphertexts of any length: no sum or difference leaves its range and neither
\* encapsulate nor decode_ct panics.
THEOREM TypesCorrect == Spec => []TypeOK
<1>1. Inv => TypeOK  BY DEF Inv
<1>2. QED  BY <1>1, InvHolds, PTL

\* compress rounds every coefficient that comes up as FIPS 203 says.
THEOREM RoundingCorrect == Spec => []CompressRounds
<1>1. ASSUME Inv PROVE CompressRounds
  <2>1. u \in Vectors  BY <1>1 DEF Inv, TypeOK, Vectors, Reduced
  <2>2. ASSUME NEW j \in 1..Coefficients
        PROVE  /\ compress(u[j], 10) = Nearest(u[j], 10)
               /\ Remainder(u[j], 10) \in 0..(Q + Q \div 2)
    <3>1. u[j] \in Reduced  BY <2>1 DEF Vectors
    <3>2. QED  BY <3>1, CompressIsNearest, RemainderRange
  <2>3. QED  BY <2>2 DEF CompressRounds
<1>2. QED  BY <1>1, InvHolds, PTL

\* decode_ct finds the digits of any integer below the mask, whoever encoded it.
THEOREM DigitsCorrect == Spec => []DigitsAreRight
<1>1. Inv => DigitsAreRight  BY DEF Inv, Decoding, DigitsAreRight
<1>2. QED  BY <1>1, InvHolds, PTL

\* For every number of coefficients and every draw that is accepted: decode_ct returns
\* the ciphertext that encode_ct was given.
THEOREM DecodeCorrect == Spec => []DecodeUndoesEncode
<1>1. ASSUME Inv, pc = "decoded", got = "sent" PROVE Decoded = ct
  <2>1. TypeOK /\ Masked /\ Decoding  BY <1>1 DEF Inv
  <2>2. /\ ct \in [1..Coefficients -> TenBits] \X Seq(FourBits) /\ u \in Vectors
        /\ k \in 1..(Coefficients + 1)
    BY <2>1 DEF TypeOK, Vectors, Reduced
  <2>3. PICK w \in Vectors, m \in Nat :
          /\ \A j \in 1..Coefficients : Down(w[j]) = ct[1][j]
          /\ ect = <<Accumulated(w) + m * R_LIMIT, ct[2]>>
    BY <1>1, <2>1 DEF Masked
  <2>4. r = Accumulated(w)
    <3>1. r = Unmask(ect[1])  BY <1>1, <2>1 DEF Decoding
    <3>2. ect[1] = Accumulated(w) + m * R_LIMIT  BY <2>3
    <3>3. QED  BY <3>1, <3>2, Unmasked
  <2>5. \A j \in 1..Coefficients : j \in 1..(k - 1)
    <3>1. k > Coefficients  BY <1>1, <2>1 DEF Decoding
    <3>2. QED  BY <2>2, <3>1, VectorsAre
  <2>6. ASSUME NEW j \in 1..Coefficients PROVE Down(u[j]) = ct[1][j]
    <3>1. u[j] = (r \div Power(Q)[j - 1]) % Q  BY <1>1, <2>1, <2>5 DEF Decoding
    <3>2. u[j] = w[j]  BY <2>4, <3>1, DigitsOfSum
    <3>3. QED  BY <2>3, <3>2
  <2>7. Compressed(u) = [j \in 1..Coefficients |-> Down(u[j])]  BY DEF Compressed, Down
  <2>a. ct = <<ct[1], ct[2]>> /\ ct[1] \in [1..Coefficients -> TenBits]  BY <2>2
  <2>8. ct[1] = [j \in 1..Coefficients |-> ct[1][j]] /\ ct = <<ct[1], ct[2]>>
    BY <2>a, Zenon
  <2>9. Compressed(u) = ct[1]  BY <2>6, <2>7, <2>8
  <2>10. ect[2] = ct[2]  BY <2>3
  <2>11. QED  BY <2>8, <2>9, <2>10 DEF Decoded
<1>2. Inv => DecodeUndoesEncode  BY <1>1 DEF DecodeUndoesEncode
<1>3. QED  BY <1>2, InvHolds, PTL
=============================================================================
