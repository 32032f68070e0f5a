----------------------------- MODULE PowersSafety -----------------------------
(***************************************************************************)
(* Induction and recursion over the natural numbers, without an operator   *)
(* for a parameter; and what follows of powers and of division.            *)
(***************************************************************************)
EXTENDS Powers, Integers, WellFoundedInduction, TLAPS

-----------------------------------------------------------------------------
(* Induction and recursion.                                                *)

\* Induction, over a set.
LEMMA NaturalsUpTo ==
  ASSUME NEW T, 0 \in T, \A n \in Nat : n \in T => n + 1 \in T
  PROVE  Nat \subseteq T
<1> DEFINE R == OpToRel(<, Nat)
           U == Nat \ T
<1>1. SUFFICES ASSUME U # {} PROVE FALSE  OBVIOUS
<1>2. IsWellFoundedOn(R, Nat)  BY NatLessThanWellFounded
<1>3. \A x \in Nat, y \in Nat : <<y, x>> \in R <=> y < x  BY DEF OpToRel
<1>4. U \subseteq Nat  OBVIOUS
<1> HIDE DEF R, U
<1>5. PICK x \in U : \A y \in U : ~ (<<y, x>> \in R)  BY <1>1, <1>2, <1>4, WFMin
<1>6. x \in Nat /\ x \notin T /\ x # 0  BY <1>5 DEF U
<1>7. x - 1 \in Nat /\ x - 1 < x /\ x - 1 + 1 = x  BY <1>6
<1>8. x - 1 \notin U  BY <1>3, <1>4, <1>5, <1>6, <1>7
<1>9. x - 1 \in T  BY <1>7, <1>8 DEF U
<1>10. QED  BY <1>6, <1>7, <1>9

\* h is what the recursion gives up to n.
Recurs(n, h, a, step) == h = [j \in 0..n |-> IF j = 0 THEN a ELSE step[<<j, h[j - 1]>>]]

LEMMA RecursAt ==
  ASSUME NEW n \in Nat, NEW h, NEW a, NEW step, Recurs(n, h, a, step), NEW j \in 0..n
  PROVE  h[j] = IF j = 0 THEN a ELSE step[<<j, h[j - 1]>>]
BY Zenon DEF Recurs

LEMMA RecursFrom ==
  ASSUME NEW n \in Nat, NEW h, NEW a, NEW step, Recurs(n, h, a, step)
  PROVE  h[0] = a /\ \A j \in 1..n : h[j] = step[<<j, h[j - 1]>>]
<1> DEFINE Body(j) == IF j = 0 THEN a ELSE step[<<j, h[j - 1]>>]
<1>1. \A j \in 0..n : h[j] = Body(j)  BY RecursAt
<1>2. Body(0) = a  OBVIOUS
<1>3. \A j \in 1..n : Body(j) = step[<<j, h[j - 1]>>]  OBVIOUS
<1>4. 0 \in 0..n /\ \A j \in 1..n : j \in 0..n  OBVIOUS
<1> HIDE DEF Body
<1>5. QED  BY <1>1, <1>2, <1>3, <1>4

LEMMA RecursFits ==
  ASSUME NEW n \in Nat, NEW a, NEW step
  PROVE  \E h : Recurs(n, h, a, step)
<1> DEFINE T == {i \in Nat : \E h : Recurs(i, h, a, step)}
<1>1. 0 \in T
  <2> DEFINE h == [j \in 0..0 |-> a]
  <2>1. h = [j \in 0..0 |-> IF j = 0 THEN a ELSE step[<<j, h[j - 1]>>]]  OBVIOUS
  <2> HIDE DEF h
  <2>2. Recurs(0, h, a, step)  BY <2>1 DEF Recurs
  <2>3. QED  BY <2>2
<1>2. ASSUME NEW i \in Nat, i \in T PROVE i + 1 \in T
  <2>1. PICK h : Recurs(i, h, a, step)  BY <1>2
  <2> DEFINE g == [j \in 0..(i + 1) |-> IF j <= i THEN h[j] ELSE step[<<i + 1, h[i]>>]]
  <2>2. ASSUME NEW j \in 0..(i + 1) PROVE g[j] = IF j = 0 THEN a ELSE step[<<j, g[j - 1]>>]
    <3>1. CASE j = 0
      <4>1. g[0] = h[0]  BY <1>2
      <4>2. QED  BY <2>1, <3>1, <4>1, RecursFrom
    <3>2. CASE j # 0 /\ j <= i
      <4>1. j \in 1..i /\ g[j] = h[j] /\ g[j - 1] = h[j - 1]  BY <3>2
      <4> HIDE DEF g
      <4>2. h[j] = step[<<j, h[j - 1]>>]  BY <2>1, <4>1, RecursFrom
      <4>3. QED  BY <3>2, <4>1, <4>2
    <3>3. CASE j = i + 1
      <4>1. j - 1 = i /\ j # 0 /\ ~(j <= i)  BY <3>3
      <4>2. g[j] = step[<<i + 1, h[i]>>]  BY <4>1
      <4>3. g[j - 1] = h[i]  BY <4>1
      <4> HIDE DEF g
      <4>4. QED  BY <3>3, <4>1, <4>2, <4>3
    <3>4. QED  BY <3>1, <3>2, <3>3
  <2>3. g = [j \in 0..(i + 1) |-> g[j]]  OBVIOUS
  <2> HIDE DEF g
  <2>4. Recurs(i + 1, g, a, step)  BY <2>2, <2>3 DEF Recurs
  <2>5. QED  BY <2>4
<1> HIDE DEF T
<1>3. Nat \subseteq T  BY <1>1, <1>2, NaturalsUpTo
<1>4. QED  BY <1>3 DEF T

\* There is one such function.
LEMMA RecursOnce ==
  ASSUME NEW n \in Nat, NEW m \in Nat, NEW h, NEW g, NEW a, NEW step,
         Recurs(n, h, a, step), Recurs(m, g, a, step), NEW j \in Nat, j <= n, j <= m
  PROVE  h[j] = g[j]
<1> DEFINE T == {i \in Nat : i <= n /\ i <= m => h[i] = g[i]}
<1>1. 0 \in T
  <2>1. h[0] = a /\ g[0] = a  BY RecursFrom
  <2>2. QED  BY <2>1
<1>2. ASSUME NEW i \in Nat, i \in T PROVE i + 1 \in T
  <2>1. SUFFICES ASSUME i + 1 <= n, i + 1 <= m PROVE h[i + 1] = g[i + 1]  OBVIOUS
  <2>2. i + 1 \in 1..n /\ i + 1 \in 1..m /\ i + 1 - 1 = i /\ h[i] = g[i]
    BY <1>2, <2>1
  <2>3. h[i + 1] = step[<<i + 1, h[i]>>]  BY <2>2, RecursFrom
  <2>4. g[i + 1] = step[<<i + 1, g[i]>>]  BY <2>2, RecursFrom
  <2>5. QED  BY <2>2, <2>3, <2>4
<1> HIDE DEF T
<1>3. j \in T  BY <1>1, <1>2, NaturalsUpTo
<1>4. QED  BY <1>3 DEF T

\* Recursion over all natural numbers.
Unfolds(h, a, step) == h = [n \in Nat |-> IF n = 0 THEN a ELSE step[<<n, h[n - 1]>>]]

LEMMA Recursion ==
  ASSUME NEW a, NEW step PROVE \E h : Unfolds(h, a, step)
<1> DEFINE G(n) == CHOOSE g : Recurs(n, g, a, step)
           h == [n \in Nat |-> G(n)[n]]
<1>1. \A n \in Nat : Recurs(n, G(n), a, step)
  <2>1. ASSUME NEW n \in Nat PROVE Recurs(n, G(n), a, step)
    <3>1. \E g : Recurs(n, g, a, step)  BY RecursFits
    <3>2. QED  BY <3>1, Zenon
  <2>2. QED  BY <2>1
<1>2. \A n \in Nat : h[n] = G(n)[n]  OBVIOUS
<1>3. h = [n \in Nat |-> h[n]]  OBVIOUS
<1> HIDE DEF G, h
<1>4. ASSUME NEW n \in Nat PROVE h[n] = IF n = 0 THEN a ELSE step[<<n, h[n - 1]>>]
  <2>1. n \in 0..n  OBVIOUS
  <2>2. G(n)[n] = IF n = 0 THEN a ELSE step[<<n, G(n)[n - 1]>>]  BY <1>1, <2>1, RecursAt
  <2>3. CASE n = 0  BY <1>2, <2>2, <2>3
  <2>4. CASE n # 0
    <3>1. n - 1 \in Nat /\ n - 1 <= n /\ n - 1 <= n - 1  BY <2>4
    <3>2. Recurs(n, G(n), a, step) /\ Recurs(n - 1, G(n - 1), a, step)  BY <1>1, <3>1
    <3>3. G(n)[n - 1] = G(n - 1)[n - 1]  BY <3>1, <3>2, RecursOnce
    <3>4. h[n - 1] = G(n)[n - 1]  BY <1>2, <3>1, <3>3
    <3>5. QED  BY <1>2, <2>2, <2>4, <3>4
  <2>5. QED  BY <2>3, <2>4
<1>5. Unfolds(h, a, step)  BY <1>3, <1>4 DEF Unfolds
<1>6. QED  BY <1>5
\* And its steps, where they stay in a set.
Iterates(h, A, a, step) ==
  h \in [Nat -> A] /\ h[0] = a /\ \A n \in Nat : h[n + 1] = step[<<n + 1, h[n]>>]

LEMMA RecursionIn ==
  ASSUME NEW A, NEW a \in A, NEW step \in [Nat \X A -> A]
  PROVE  \E h : Iterates(h, A, a, step)
<1>0. PICK h : Unfolds(h, a, step)  BY Recursion
<1>1. h = [n \in Nat |-> IF n = 0 THEN a ELSE step[<<n, h[n - 1]>>]]  BY <1>0 DEF Unfolds
<1>2. h[0] = a /\ \A n \in Nat : h[n + 1] = step[<<n + 1, h[n]>>]
  <2> DEFINE Body(n) == IF n = 0 THEN a ELSE step[<<n, h[n - 1]>>]
  <2>1. \A n \in Nat : h[n] = Body(n)  BY <1>1, Zenon
  <2>2. Body(0) = a  OBVIOUS
  <2>3. ASSUME NEW n \in Nat PROVE Body(n + 1) = step[<<n + 1, h[n]>>]
    <3>1. n + 1 # 0 /\ n + 1 - 1 = n  OBVIOUS
    <3>2. QED  BY <3>1
  <2> HIDE DEF Body
  <2>4. \A n \in Nat : n + 1 \in Nat  OBVIOUS
  <2>5. QED  BY <2>1, <2>2, <2>3, <2>4
<1> DEFINE T == {n \in Nat : h[n] \in A}
<1>3. 0 \in T  BY <1>2
<1>4. ASSUME NEW n \in Nat, n \in T PROVE n + 1 \in T
  <2>1. <<n + 1, h[n]>> \in Nat \X A  BY <1>4
  <2>2. QED  BY <1>2, <2>1
<1> HIDE DEF T
<1>5. Nat \subseteq T  BY <1>3, <1>4, NaturalsUpTo
<1>6. \A n \in Nat : h[n] \in A  BY <1>5 DEF T
<1>7. h = [n \in Nat |-> h[n]]  BY <1>1, Zenon
<1>8. h \in [Nat -> A]  BY <1>6, <1>7
<1>9. QED  BY <1>2, <1>8 DEF Iterates

-----------------------------------------------------------------------------
(* Powers and division.                                                    *)

LEMMA PowerRecurs ==
  ASSUME NEW b \in Nat
  PROVE  Power(b) = [n \in Nat |-> IF n = 0 THEN 1 ELSE b * Power(b)[n - 1]]
<1> DEFINE step == [x \in Nat \X Nat |-> b * x[2]]
<1>1. step \in [Nat \X Nat -> Nat]  OBVIOUS
<1>2. \A n \in Nat, m \in Nat : step[<<n, m>>] = b * m  OBVIOUS
<1> HIDE DEF step
<1>3. PICK h : Iterates(h, Nat, 1, step)  BY <1>1, RecursionIn
<1>4. ASSUME NEW n \in Nat PROVE h[n] = IF n = 0 THEN 1 ELSE b * h[n - 1]
  <2>1. CASE n = 0  BY <1>3, <2>1 DEF Iterates
  <2>2. CASE n # 0
    <3>1. n - 1 \in Nat /\ n - 1 + 1 = n /\ h[n - 1] \in Nat  BY <1>3, <2>2 DEF Iterates
    <3>2. h[n] = step[<<n, h[n - 1]>>]  BY <1>3, <3>1 DEF Iterates
    <3>3. QED  BY <1>2, <2>2, <3>1, <3>2
  <2>3. QED  BY <2>1, <2>2
<1>5. h = [n \in Nat |-> h[n]]  BY <1>3 DEF Iterates
<1>6. h = [n \in Nat |-> IF n = 0 THEN 1 ELSE b * h[n - 1]]  BY <1>4, <1>5
<1> DEFINE power == CHOOSE g : g = [n \in Nat |-> IF n = 0 THEN 1 ELSE b * g[n - 1]]
<1>7. power = [n \in Nat |-> IF n = 0 THEN 1 ELSE b * power[n - 1]]  BY <1>6, Zenon
<1>8. Power(b) = power  BY DEF Power
<1>9. QED  BY <1>7, <1>8

\* A power is its base times the one before it.
LEMMA PowerSteps ==
  ASSUME NEW b \in Nat \ {0}
  PROVE  /\ Power(b)[0] = 1
         /\ \A n \in Nat : /\ Power(b)[n] \in Nat \ {0}
                           /\ Power(b)[n + 1] = b * Power(b)[n]
<1> DEFINE P == Power(b)
           Body(n) == IF n = 0 THEN 1 ELSE b * P[n - 1]
<1>1. \A n \in Nat : P[n] = Body(n)  BY PowerRecurs, Zenon
<1>2. Body(0) = 1  OBVIOUS
<1>3. ASSUME NEW n \in Nat PROVE n + 1 \in Nat /\ Body(n + 1) = b * P[n]
  <2>1. n + 1 # 0 /\ n + 1 - 1 = n  OBVIOUS
  <2>2. QED  BY <2>1
<1> HIDE DEF Body, P
<1>4. P[0] = 1 /\ \A n \in Nat : P[n + 1] = b * P[n]  BY <1>1, <1>2, <1>3
<1> DEFINE T == {n \in Nat : P[n] \in Nat \ {0}}
<1>5. 0 \in T  BY <1>4
<1>6. ASSUME NEW n \in Nat, n \in T PROVE n + 1 \in T
  <2> DEFINE m == P[n]
  <2>1. P[n + 1] = b * m /\ m \in Nat \ {0}  BY <1>4, <1>6
  <2> HIDE DEF m
  <2>2. b * m \in Nat \ {0}  BY <2>1
  <2>3. QED  BY <2>1, <2>2
<1> HIDE DEF T
<1>7. Nat \subseteq T  BY <1>5, <1>6, NaturalsUpTo
<1>8. QED  BY <1>4, <1>7 DEF T, P

\* Quotient and remainder are the ones there are.
LEMMA DivUnique ==
  ASSUME NEW n \in Nat, NEW b \in Nat \ {0}, NEW q \in Nat, NEW rest \in Nat, rest < b,
         n = q * b + rest
  PROVE  n \div b = q /\ n % b = rest
OBVIOUS

LEMMA DivRest ==
  ASSUME NEW n \in Nat, NEW b \in Nat \ {0}
  PROVE  n \div b \in Nat /\ n % b \in Nat /\ n % b < b /\ n = (n \div b) * b + (n % b)
OBVIOUS
=============================================================================
