---------------------------- MODULE BalloonSafety ----------------------------
(***************************************************************************)
(* For buffers of any length, any number of rounds and any DELTA: no hash  *)
(* reads a block before one was written there.                             *)
(***************************************************************************)
EXTENDS Balloon, WellFoundedInduction, TLAPS

\* The blocks before m are written in step 1, and all blocks afterwards.
FilledSoFar ==
  \A k \in Slots : (at # "fill" \/ k < m) => buf[k] # Zero

\* What the types of the counters and of the buffer come to.
LEMMA CountersRange ==
  ASSUME TypeOK
  PROVE  /\ slots \in Nat \ {0} /\ rounds \in Nat \ {0}
         /\ m \in Slots /\ idx \in Slots /\ Slots \subseteq Nat
         /\ \A k \in Slots : buf[k] \in Int
BY SizesAssumption DEF TypeOK, Slots

\* hash! of blocks, or of the inputs, keeps the buffer in its type.
LEMMA HashTyped ==
  ASSUME TypeOK, NEW inputs \in SUBSET Int, HashInto(inputs), slots' = slots
  PROVE  from' \in Seq(SUBSET Int) /\ buf' \in [Slots' -> 0..Len(from')]
BY DEF HashInto, TypeOK, Slots

LEMMA FillTyped == TypeOK /\ Fill => TypeOK'
<1> SUFFICES ASSUME TypeOK, Fill PROVE TypeOK'
  OBVIOUS
<1>1. (IF m = 0 THEN {Passphrase, Salt} ELSE {buf[m - 1]}) \in SUBSET Int
  BY CountersRange DEF Passphrase, Salt, Slots
<1>2. from' \in Seq(SUBSET Int) /\ buf' \in [Slots' -> 0..Len(from')]
  BY <1>1, HashTyped DEF Fill
<1>3. m' \in Slots' /\ at' \in {"fill", "last"}
  BY CountersRange DEF Fill, Slots
<1>4. QED
  BY <1>2, <1>3, SizesAssumption DEF Fill, TypeOK, Slots

LEMMA LastTyped == TypeOK /\ HashLast => TypeOK'
<1> SUFFICES ASSUME TypeOK, HashLast PROVE TypeOK'
  OBVIOUS
<1>1. {buf[Previous], buf[m]} \in SUBSET Int
  BY CountersRange DEF Previous, Slots
<1>2. from' \in Seq(SUBSET Int) /\ buf' \in [Slots' -> 0..Len(from')]
  BY <1>1, HashTyped DEF HashLast
<1>3. QED
  BY <1>2, CountersRange, SizesAssumption DEF HashLast, TypeOK, Slots

LEMMA IndexTyped == TypeOK /\ HashIndex => TypeOK'
<1> SUFFICES ASSUME TypeOK, HashIndex PROVE TypeOK'
  OBVIOUS
<1>1. from' \in Seq(SUBSET Int) /\ Len(from') = Len(from) + 1
  BY DEF HashIndex, Salt, TypeOK
<1>2. QED
  BY <1>1, CountersRange, SizesAssumption DEF HashIndex, TypeOK, Slots

LEMMA PickedTyped == TypeOK /\ HashPicked => TypeOK'
<1> SUFFICES ASSUME TypeOK, HashPicked PROVE TypeOK'
  OBVIOUS
<1>1. {buf[idx]} \in SUBSET Int
  BY CountersRange
<1>2. from' \in Seq(SUBSET Int) /\ buf' \in [Slots' -> 0..Len(from')]
  BY <1>1, HashTyped DEF HashPicked
<1>3. m' \in Slots' /\ i' \in 0..(DELTA - 1)
  BY CountersRange, SizesAssumption DEF HashPicked, NextHash, TypeOK, Slots
<1>4. /\ at' \in {"index", "last", "done"}
      /\ t' \in 0..rounds /\ (at' # "done" => t' < rounds)
  BY CountersRange DEF HashPicked, NextHash, TypeOK
<1>5. QED
  BY <1>2, <1>3, <1>4, SizesAssumption DEF HashPicked, TypeOK, Slots

\* ctr and the loops' counters stay in their ranges, and a block holds the number of a
\* hash that was made: every index of expand_key is in its bounds.
THEOREM TypesHold == Spec => []TypeOK
<1>1. ASSUME Init PROVE TypeOK
  BY <1>1, SizesAssumption DEF Init, TypeOK, Slots, Zero
<1>2. ASSUME TypeOK, UNCHANGED vars PROVE TypeOK'
  BY <1>2 DEF vars, TypeOK, Slots
<1>3. TypeOK /\ [Next]_vars => TypeOK'
  BY <1>2, FillTyped, LastTyped, IndexTyped, PickedTyped DEF Next
<1>4. QED
  BY <1>1, <1>3, PTL DEF Spec

\* hash! writes a block that was hashed, and adds what it read.
LEMMA HashAdds ==
  ASSUME TypeOK, NEW inputs \in SUBSET Int, HashInto(inputs),
         ReadsAreFilled, Zero \notin inputs
  PROVE  /\ ReadsAreFilled'
         /\ buf'[m] # Zero
         /\ \A k \in Slots \ {m} : buf'[k] = buf[k]
<1>1. Len(from') = Len(from) + 1 /\ from'[Len(from) + 1] = inputs
  BY DEF TypeOK, HashInto
<1>2. \A c \in 1..Len(from) : from'[c] = from[c]
  BY DEF TypeOK, HashInto
<1>3. ReadsAreFilled'
  BY <1>1, <1>2 DEF ReadsAreFilled, TypeOK
<1>4. QED
  BY <1>1, <1>3 DEF HashInto, TypeOK, Zero

\* So each hash finds its blocks filled, and fills the one it writes.
LEMMA FillFills ==
  ASSUME TypeOK, FilledSoFar, ReadsAreFilled, Fill
  PROVE  FilledSoFar' /\ ReadsAreFilled'
<1> DEFINE inputs == IF m = 0 THEN {Passphrase, Salt} ELSE {buf[m - 1]}
<1>1. inputs \in SUBSET Int /\ Zero \notin inputs
  BY CountersRange DEF Fill, FilledSoFar, Slots, Passphrase, Salt, Zero
<1>2. HashInto(inputs)
  BY DEF Fill
<1> HIDE DEF inputs
<1>3. /\ ReadsAreFilled' /\ buf'[m] # Zero
      /\ \A k \in Slots \ {m} : buf'[k] = buf[k]
  BY <1>1, <1>2, HashAdds
<1>4. FilledSoFar'
  BY <1>3, CountersRange DEF Fill, FilledSoFar, Slots
<1>5. QED
  BY <1>3, <1>4

LEMMA LastFills ==
  ASSUME TypeOK, FilledSoFar, ReadsAreFilled, HashLast
  PROVE  FilledSoFar' /\ ReadsAreFilled'
<1>1. Previous \in Slots
  BY CountersRange DEF Previous, Slots
<1>2. {buf[Previous], buf[m]} \in SUBSET Int /\ Zero \notin {buf[Previous], buf[m]}
  BY <1>1, CountersRange DEF HashLast, FilledSoFar
<1>3. /\ ReadsAreFilled' /\ buf'[m] # Zero
      /\ \A k \in Slots \ {m} : buf'[k] = buf[k]
  BY <1>2, HashAdds DEF HashLast
<1>4. FilledSoFar'
  BY <1>3, CountersRange DEF HashLast, FilledSoFar, Slots
<1>5. QED
  BY <1>3, <1>4

LEMMA IndexFills ==
  ASSUME TypeOK, FilledSoFar, ReadsAreFilled, HashIndex
  PROVE  FilledSoFar' /\ ReadsAreFilled'
<1>1. /\ Len(from') = Len(from) + 1 /\ from'[Len(from) + 1] = {Salt}
      /\ \A c \in 1..Len(from) : from'[c] = from[c]
  BY DEF HashIndex, TypeOK, Salt
<1>2. Zero \notin {Salt} /\ Len(from) \in Nat
  BY DEF Salt, Zero, TypeOK
<1>3. ReadsAreFilled'
  BY <1>1, <1>2 DEF ReadsAreFilled
<1>4. at # "fill" /\ Slots' = Slots /\ buf' = buf
  BY DEF HashIndex, Slots
<1>5. QED
  BY <1>3, <1>4 DEF FilledSoFar

LEMMA PickedFills ==
  ASSUME TypeOK, FilledSoFar, ReadsAreFilled, HashPicked
  PROVE  FilledSoFar' /\ ReadsAreFilled'
<1>1. {buf[idx]} \in SUBSET Int /\ Zero \notin {buf[idx]}
  BY CountersRange DEF HashPicked, FilledSoFar
<1>2. /\ ReadsAreFilled' /\ buf'[m] # Zero
      /\ \A k \in Slots \ {m} : buf'[k] = buf[k]
  BY <1>1, HashAdds DEF HashPicked
<1>3. at # "fill" /\ Slots' = Slots
  BY DEF HashPicked, Slots
<1>4. FilledSoFar'
  BY <1>2, <1>3 DEF FilledSoFar
<1>5. QED
  BY <1>2, <1>4

LEMMA FilledHolds == Spec => [](FilledSoFar /\ ReadsAreFilled)
<1>1. ASSUME Init PROVE FilledSoFar /\ ReadsAreFilled
  BY <1>1 DEF Init, FilledSoFar, ReadsAreFilled, Slots
<1>2. ASSUME FilledSoFar, ReadsAreFilled, UNCHANGED vars
      PROVE  FilledSoFar' /\ ReadsAreFilled'
  BY <1>2 DEF vars, FilledSoFar, ReadsAreFilled, Slots
<1>3. TypeOK /\ FilledSoFar /\ ReadsAreFilled /\ [Next]_vars
        => FilledSoFar' /\ ReadsAreFilled'
  BY <1>2, FillFills, LastFills, IndexFills, PickedFills DEF Next
<1>4. QED
  BY <1>1, <1>3, TypesHold, PTL DEF Spec

\* The chain of step 1 fills the buffer before step 2 reads any of it.
THEOREM FilledCorrect == Spec => []ReadsAreFilled
BY FilledHolds, PTL
-----------------------------------------------------------------------------
\* The hashes of step 2a and 2b for one block.
PerBlock == 1 + 2 * DELTA

\* How many blocks were mixed since step 2 began, and the hashes of the one that is
\* being mixed.
Mixed == t * slots + m
OfThisBlock == IF at = "last" THEN 0 ELSE IF at = "index" THEN 1 + 2 * i ELSE 2 + 2 * i

\* The counters say how many hashes were made.
CostSoFar ==
  /\ at = "fill" => t = 0 /\ Len(from) = m
  /\ at \in {"last", "index", "pick"} => Len(from) = slots + Mixed * PerBlock + OfThisBlock
  /\ at \in {"fill", "last"} => i = 0
  /\ at = "done" => Len(from) = slots + (rounds * slots) * PerBlock

LEMMA Products ==
  ASSUME NEW a \in Nat, NEW b \in Nat, NEW p \in Nat
  PROVE  /\ a * p \in Nat /\ (a + 1) * p = a * p + p /\ 0 * p = 0
         /\ a * b + (b - 1) + 1 = (a + 1) * b
         /\ a * b * p = (a * b) * p
OBVIOUS

\* The work that expand_key does is the work that time_cost and memory_cost ask for:
\* no round, no block and no hash of a block is left out or made twice.
THEOREM CostCorrect == Spec => []CostIsPaid
<1>1. Init => CostSoFar
  BY DEF Init, CostSoFar
<1>2. TypeOK /\ TypeOK' /\ CostSoFar /\ [Next]_vars => CostSoFar'
  <2> SUFFICES ASSUME TypeOK, TypeOK', CostSoFar, [Next]_vars PROVE CostSoFar'
    OBVIOUS
  <2>0. /\ slots \in Nat \ {0} /\ rounds \in Nat \ {0} /\ DELTA \in Nat \ {0}
        /\ m \in 0..(slots - 1) /\ t \in Nat /\ i \in 0..(DELTA - 1)
        /\ Len(from) \in Nat /\ at \in {"fill", "last", "index", "pick", "done"}
    BY SizesAssumption DEF TypeOK, Slots
  <2>1. PerBlock \in Nat /\ PerBlock = 1 + 2 * DELTA
    BY <2>0 DEF PerBlock
  <2>2. Mixed \in Nat /\ Mixed * PerBlock \in Nat
    <3>1. t * slots \in Nat  BY <2>0, Products
    <3>2. Mixed \in Nat  BY <2>0, <3>1 DEF Mixed
    <3>3. QED  BY <3>2, <2>1, Products
  <2>3. \A inputs : HashInto(inputs) => Len(from') = Len(from) + 1
    BY DEF HashInto, TypeOK
  <2>4. CASE Fill
    <3>1. /\ at = "fill" /\ Len(from') = Len(from) + 1 /\ Len(from) = m
          /\ t = 0 /\ i = 0 /\ t' = t /\ i' = i /\ slots' = slots
      BY <2>4, <2>3 DEF Fill, CostSoFar
    <3>2. CASE m + 1 < slots /\ m' = m + 1 /\ at' = at
      BY <3>1, <3>2, <2>0 DEF CostSoFar
    <3>3. CASE ~(m + 1 < slots) /\ m' = 0 /\ at' = "last"
      <4>1. Len(from') = slots  BY <3>1, <3>3, <2>0
      <4>2. Mixed' = 0  BY <3>1, <3>3, <2>0, Products DEF Mixed
      <4>3. Mixed' * PerBlock' = 0  BY <4>2, <2>1, Products DEF PerBlock
      <4>4. OfThisBlock' = 0  BY <3>3 DEF OfThisBlock
      <4>5. Len(from') = slots' + Mixed' * PerBlock' + OfThisBlock'
        <5>1. \A x, y : x = 0 /\ y = 0 => slots = slots + x + y  BY <2>0
        <5>2. slots' = slots /\ Len(from') = slots  BY <4>1, <3>1
        <5>3. QED  BY <5>1, <5>2, <4>3, <4>4, Zenon
      <4>6. i' = 0 /\ at' = "last"  BY <3>1, <3>3
      <4> QED  BY <4>5, <4>6 DEF CostSoFar
    <3>4. QED  BY <3>2, <3>3, <2>4 DEF Fill
  <2>5. CASE HashLast
    <3>1. /\ at = "last" /\ at' = "index" /\ i' = 0 /\ Len(from') = Len(from) + 1
          /\ UNCHANGED <<slots, t, m>>
      BY <2>5, <2>3 DEF HashLast
    <3>2. Mixed' * PerBlock' = Mixed * PerBlock  BY <3>1 DEF Mixed, PerBlock
    <3>3. OfThisBlock = 0 /\ OfThisBlock' = 1  BY <3>1 DEF OfThisBlock
    <3>4. QED  BY <3>1, <3>2, <3>3, <2>0, <2>2 DEF CostSoFar
  <2>6. CASE HashIndex
    <3>1. /\ at = "index" /\ at' = "pick" /\ Len(from') = Len(from) + 1
          /\ UNCHANGED <<slots, t, m, i>>
      BY <2>6 DEF HashIndex, TypeOK
    <3>2. Mixed' * PerBlock' = Mixed * PerBlock  BY <3>1 DEF Mixed, PerBlock
    <3>3. OfThisBlock = 1 + 2 * i /\ OfThisBlock' = 2 + 2 * i  BY <3>1 DEF OfThisBlock
    <3>4. QED  BY <3>1, <3>2, <3>3, <2>0, <2>2 DEF CostSoFar
  <2>7. CASE HashPicked
    <3>1. /\ at = "pick" /\ Len(from') = Len(from) + 1 /\ UNCHANGED <<slots, rounds>>
          /\ Len(from) = slots + Mixed * PerBlock + 2 + 2 * i
      BY <2>7, <2>3, <2>0, <2>2 DEF HashPicked, CostSoFar, OfThisBlock
    <3>2. CASE i + 1 < DELTA
      <4>1. i' = i + 1 /\ at' = "index" /\ UNCHANGED <<t, m>>
        BY <3>2, <2>7 DEF HashPicked, NextHash
      <4>2. Mixed' * PerBlock' = Mixed * PerBlock  BY <4>1, <3>1 DEF Mixed, PerBlock
      <4>3. OfThisBlock' = 1 + 2 * (i + 1)  BY <4>1 DEF OfThisBlock
      <4>4. QED  BY <4>1, <4>2, <4>3, <3>1, <2>0, <2>2 DEF CostSoFar
    <3>3. CASE ~(i + 1 < DELTA)
      <4>1. i' = 0 /\ at' \in {"last", "done"}  BY <3>3, <2>7 DEF HashPicked, NextHash
      <4>2. Len(from') = slots + Mixed * PerBlock + PerBlock
        BY <3>1, <3>3, <2>0, <2>1, <2>2
      <4>3. (Mixed + 1) * PerBlock = Mixed * PerBlock + PerBlock
        BY <2>1, <2>2, Products
      <4>4. Len(from') = slots + (Mixed + 1) * PerBlock
        BY <4>2, <4>3, <2>0, <2>1, <2>2
      <4>5. CASE m + 1 < slots
        <5>1. at' = "last" /\ m' = m + 1 /\ t' = t  BY <3>3, <4>5, <2>7 DEF HashPicked, NextHash
        <5>2. Mixed' = Mixed + 1  BY <5>1, <3>1, <2>0 DEF Mixed
        <5>3. PerBlock' = PerBlock /\ OfThisBlock' = 0  BY <5>1 DEF PerBlock, OfThisBlock
        <5>4. (Mixed + 1) * PerBlock \in Nat  BY <2>1, <2>2, Products
        <5>5. Mixed' * PerBlock' = (Mixed + 1) * PerBlock  BY <5>2, <5>3
        <5>6. QED  BY <4>1, <4>4, <5>1, <5>3, <5>4, <5>5, <3>1, <2>0 DEF CostSoFar
      <4>6. CASE ~(m + 1 < slots)
        <5>1. m' = 0 /\ t' = t + 1 /\ at' = (IF t + 1 < rounds THEN "last" ELSE "done")
          BY <3>3, <4>6, <2>7 DEF HashPicked, NextHash
        <5>2. m = slots - 1  BY <4>6, <2>0
        <5>3. Mixed + 1 = (t + 1) * slots
          <6>1. t * slots \in Nat /\ t * slots + (slots - 1) + 1 = (t + 1) * slots
            BY <2>0, Products
          <6>2. QED  BY <6>1, <5>2 DEF Mixed
        <5>4. CASE t + 1 < rounds
          <6>1. at' = "last" /\ OfThisBlock' = 0  BY <5>1, <5>4 DEF OfThisBlock
          <6>2. (t + 1) * slots \in Nat  BY <5>3, <2>2
          <6>3. Mixed' = Mixed + 1
            <7>1. Mixed' = (t + 1) * slots + 0  BY <5>1, <3>1 DEF Mixed
            <7>2. QED  BY <7>1, <6>2, <5>3
          <6>4. PerBlock' = PerBlock  BY DEF PerBlock
          <6>5. (Mixed + 1) * PerBlock \in Nat  BY <2>1, <2>2, Products
          <6>6. Mixed' * PerBlock' = (Mixed + 1) * PerBlock  BY <6>3, <6>4
          <6>7. QED  BY <4>1, <4>4, <6>1, <6>5, <6>6, <3>1, <2>0 DEF CostSoFar
        <5>5. CASE ~(t + 1 < rounds)
          <6>1. at' = "done" /\ t < rounds  BY <5>1, <5>5, <3>1 DEF TypeOK
          <6>2. t + 1 = rounds  BY <6>1, <5>5, <2>0
          <6>3. Len(from') = slots + (rounds * slots) * PerBlock  BY <4>4, <5>3, <6>2
          <6>4. QED  BY <6>1, <6>3, <3>1 DEF CostSoFar, PerBlock
        <5>6. QED  BY <5>4, <5>5
      <4>7. QED  BY <4>5, <4>6
    <3>4. QED  BY <3>2, <3>3
  <2>8. CASE UNCHANGED vars
    BY <2>8 DEF vars, CostSoFar, Mixed, PerBlock, OfThisBlock
  <2>9. QED  BY <2>4, <2>5, <2>6, <2>7, <2>8 DEF Next
<1>3. TypeOK /\ CostSoFar => CostIsPaid
  BY DEF CostSoFar, CostIsPaid, PerBlock
<1>4. QED
  BY <1>1, <1>2, <1>3, TypesHold, PTL DEF Spec
-----------------------------------------------------------------------------
\* The first hash reads the passphrase and the salt.  Any other reads the salt alone, for
\* an index, or blocks; a block is written by no hash that read the salt alone.
Hashed ==
  /\ at = "fill" => Len(from) = m
  /\ at # "fill" => Len(from) > 0
  /\ Len(from) > 0 => from[1] = {Passphrase, Salt}
  /\ \A c \in 2..Len(from) :
       \/ from[c] = {Salt}
       \/ from[c] # {} /\ \A x \in from[c] : x \in 1..(c - 1) /\ from[x] # {Salt}
  /\ \A k \in Slots : buf[k] # Zero => from[buf[k]] # {Salt}

\* A hash of blocks, after the first one.
LEMMA HashKeeps ==
  ASSUME TypeOK, Hashed, NEW inputs \in SUBSET Int, HashInto(inputs), slots' = slots,
         Len(from) > 0, inputs # {},
         \A x \in inputs : x \in 1..Len(from) /\ from[x] # {Salt},
         at' = "fill" => Len(from') = m'
  PROVE  Hashed'
<1> DEFINE n == Len(from) + 1
<1>1. /\ Len(from) \in Nat /\ from' = Append(from, inputs) /\ from \in Seq(SUBSET Int)
      /\ buf' = [buf EXCEPT ![m] = Len(from')] /\ buf \in [Slots -> 0..Len(from)]
      /\ m \in Slots /\ Slots' = Slots
  BY DEF TypeOK, HashInto, Slots
<1>2. /\ Len(from') = n /\ from'[n] = inputs /\ n \in Nat /\ n > 1
      /\ \A c \in 1..Len(from) : from'[c] = from[c]
  BY <1>1
<1>3. \A c \in 1..n : c = n \/ c \in 1..Len(from)  BY <1>1
<1> HIDE DEF n
<1>4. inputs # {Salt}  BY DEF Salt
<1>5. ASSUME NEW c \in 2..n
      PROVE  \/ from'[c] = {Salt}
             \/ from'[c] # {} /\ \A x \in from'[c] : x \in 1..(c - 1) /\ from'[x] # {Salt}
  <2>1. CASE c = n
    <3>1. n - 1 = Len(from)  BY <1>1 DEF n
    <3>2. \A x \in inputs : x \in 1..(n - 1) /\ from'[x] # {Salt}  BY <3>1, <1>2
    <3>3. QED  BY <2>1, <3>2, <1>2
  <2>2. CASE c \in 2..Len(from)
    <3>1. c \in 1..Len(from) /\ from'[c] = from[c]  BY <2>2, <1>1, <1>2
    <3>2. \A x \in 1..(c - 1) : from'[x] = from[x]  BY <3>1, <1>1, <1>2
    <3>3. \/ from[c] = {Salt}
          \/ from[c] # {} /\ \A x \in from[c] : x \in 1..(c - 1) /\ from[x] # {Salt}
      BY <2>2 DEF Hashed
    <3>4. QED  BY <3>1, <3>2, <3>3
  <2>3. c \in 1..n /\ (c \in 1..Len(from) => c \in 2..Len(from))  BY <1>1, <1>2
  <2>4. QED  BY <2>1, <2>2, <2>3, <1>3
<1>6. from'[1] = {Passphrase, Salt}  BY <1>1, <1>2 DEF Hashed
<1>7. ASSUME NEW k \in Slots, buf'[k] # Zero
      PROVE  from'[buf'[k]] # {Salt}
  <2>1. CASE k = m  BY <2>1, <1>1, <1>2, <1>4
  <2>2. CASE k # m
    <3>1. buf'[k] = buf[k] /\ buf[k] \in 1..Len(from)  BY <2>2, <1>1, <1>7 DEF Zero
    <3>2. from[buf[k]] # {Salt}  BY <1>7, <3>1 DEF Hashed
    <3>3. QED  BY <3>1, <3>2, <1>2
  <2>3. QED  BY <2>1, <2>2
<1>8. /\ at' = "fill" => Len(from') = m'
      /\ at' # "fill" => Len(from') > 0
  BY <1>2
<1>9. QED  BY <1>1, <1>2, <1>5, <1>6, <1>7, <1>8 DEF Hashed

LEMMA HashedInductive ==
  ASSUME TypeOK, TypeOK', FilledSoFar, Hashed, [Next]_vars
  PROVE  Hashed'
<1>1. /\ slots \in Nat \ {0} /\ m \in Slots /\ idx \in Slots /\ Slots \subseteq Nat
      /\ Len(from) \in Nat /\ Slots = 0..(slots - 1)
  BY SizesAssumption DEF TypeOK, Slots
<1>2. \A k \in Slots : buf[k] # Zero => buf[k] \in 1..Len(from) /\ buf[k] \in Int
  BY <1>1 DEF TypeOK, Zero
<1>3. \A k \in Slots : buf[k] # Zero => from[buf[k]] # {Salt}  BY DEF Hashed
<1>4. CASE Fill
  <2>1. /\ at = "fill" /\ Len(from) = m /\ slots' = slots
        /\ at' = "fill" => m' = m + 1
    BY <1>4 DEF Fill, Hashed
  <2>2. CASE m = 0
    <3>1. /\ from' = Append(from, {Passphrase, Salt}) /\ Len(from) = 0
          /\ buf' = [buf EXCEPT ![m] = Len(from')]
      BY <1>4, <2>1, <2>2 DEF Fill, HashInto
    <3>2. from \in Seq(SUBSET Int) /\ {Passphrase, Salt} \in SUBSET Int
      BY DEF TypeOK, Passphrase, Salt
    <3>3. Len(from') = 1 /\ from'[1] = {Passphrase, Salt}  BY <3>1, <3>2
    <3>4. \A k \in Slots : buf'[k] # Zero => buf'[k] = 1
      <4>1. \A k \in Slots : buf[k] = 0  BY <3>1, <1>1 DEF TypeOK
      <4>2. QED  BY <4>1, <3>1, <3>3 DEF TypeOK, Zero
    <3>5. {Passphrase, Salt} # {Salt}
      <4>1. Passphrase # Salt  BY DEF Passphrase, Salt
      <4>2. QED  BY <4>1
    <3>6. Slots' = Slots  BY <2>1 DEF Slots
    <3>7. at' = "fill" => Len(from') = m'  BY <2>1, <2>2, <3>3
    <3>8. QED  BY <3>3, <3>4, <3>5, <3>6, <3>7 DEF Hashed
  <2>3. CASE m # 0
    <3>1. m - 1 \in Slots /\ m - 1 < m /\ Len(from) > 0  BY <2>1, <2>3, <1>1
    <3>2. buf[m - 1] # Zero  BY <3>1, <2>1 DEF FilledSoFar
    <3>3. HashInto({buf[m - 1]})  BY <1>4, <2>3 DEF Fill
    <3>4. {buf[m - 1]} \in SUBSET Int  BY <1>2, <3>1, <3>2
    <3>5. at' = "fill" => Len(from') = m'  BY <2>1, <3>3 DEF HashInto, TypeOK
    <3>6. \A x \in {buf[m - 1]} : x \in 1..Len(from) /\ from[x] # {Salt}
      BY <1>2, <1>3, <3>1, <3>2
    <3>7. QED  BY <2>1, <3>1, <3>3, <3>4, <3>5, <3>6, HashKeeps
  <2>4. QED  BY <2>2, <2>3
<1>5. CASE HashLast
  <2>1. /\ at = "last" /\ slots' = slots /\ HashInto({buf[Previous], buf[m]})
        /\ Previous \in Slots /\ Len(from) > 0 /\ at' # "fill"
    BY <1>1, <1>5 DEF HashLast, Previous, Hashed
  <2>2. buf[Previous] # Zero /\ buf[m] # Zero  BY <2>1, <1>1 DEF FilledSoFar
  <2>3. \A x \in {buf[Previous], buf[m]} : x \in 1..Len(from) /\ from[x] # {Salt} /\ x \in Int
    BY <1>1, <1>2, <1>3, <2>1, <2>2
  <2>4. QED  BY <2>1, <2>3, HashKeeps
<1>6. CASE HashIndex
  <2>1. /\ at = "index" /\ from' = Append(from, {Salt}) /\ UNCHANGED <<slots, buf>>
        /\ at' # "fill" /\ Len(from) > 0
    BY <1>6 DEF HashIndex, Hashed
  <2>2. from \in Seq(SUBSET Int) /\ {Salt} \in SUBSET Int  BY DEF TypeOK, Salt
  <2>3. /\ Len(from') = Len(from) + 1 /\ from'[Len(from) + 1] = {Salt}
        /\ \A c \in 1..Len(from) : from'[c] = from[c]
    BY <2>1, <2>2
  <2>4. from'[1] = {Passphrase, Salt}  BY <2>1, <2>3, <1>1 DEF Hashed
  <2>5. ASSUME NEW c \in 2..Len(from')
        PROVE  \/ from'[c] = {Salt}
               \/ from'[c] # {} /\ \A x \in from'[c] : x \in 1..(c - 1) /\ from'[x] # {Salt}
    <3>1. CASE c = Len(from) + 1  BY <3>1, <2>3
    <3>2. CASE c \in 2..Len(from)
      <4>1. c \in 1..Len(from) /\ from'[c] = from[c]  BY <3>2, <1>1, <2>3
      <4>2. \A x \in 1..(c - 1) : from'[x] = from[x]  BY <4>1, <1>1, <2>3
      <4>3. \/ from[c] = {Salt}
            \/ from[c] # {} /\ \A x \in from[c] : x \in 1..(c - 1) /\ from[x] # {Salt}
        BY <3>2 DEF Hashed
      <4>4. QED  BY <4>1, <4>2, <4>3
    <3>3. QED  BY <3>1, <3>2, <2>3, <1>1
  <2>6. \A k \in Slots : buf'[k] # Zero => from'[buf'[k]] # {Salt}  BY <1>2, <1>3, <2>1, <2>3
  <2>7. Slots' = Slots  BY <2>1 DEF Slots
  <2>8. at' # "fill" => Len(from') > 0  BY <1>1, <2>1, <2>3
  <2>9. QED  BY <2>1, <2>4, <2>5, <2>6, <2>7, <2>8 DEF Hashed
<1>7. CASE HashPicked
  <2>1. /\ at = "pick" /\ slots' = slots /\ HashInto({buf[idx]}) /\ Len(from) > 0
        /\ at' # "fill"
    BY <1>7 DEF HashPicked, NextHash, Hashed
  <2>2. buf[idx] # Zero  BY <2>1, <1>1 DEF FilledSoFar
  <2>3. \A x \in {buf[idx]} : x \in 1..Len(from) /\ from[x] # {Salt} /\ x \in Int
    BY <1>1, <1>2, <1>3, <2>2
  <2>4. QED  BY <2>1, <2>3, HashKeeps
<1>8. CASE UNCHANGED vars  BY <1>8 DEF vars, Hashed, Slots
<1>9. QED  BY <1>4, <1>5, <1>6, <1>7, <1>8 DEF Next

LEMMA HashedHolds == Spec => [](TypeOK /\ Hashed)
<1>1. Init => Hashed
  BY DEF Init, Hashed
<1>2. TypeOK /\ TypeOK' /\ FilledSoFar /\ Hashed /\ [Next]_vars => Hashed'
  BY HashedInductive
<1>3. QED  BY <1>1, <1>2, TypesHold, FilledHolds, PTL DEF Spec

\* Strong induction, over a set.
LEMMA StrongInduction ==
  ASSUME NEW T, \A k \in Nat \ {0} : 1..(k - 1) \subseteq T => k \in T
  PROVE  Nat \ {0} \subseteq T
<1> DEFINE R == OpToRel(<, Nat)
           U == (Nat \ {0}) \ T
<1>1. SUFFICES ASSUME U # {} PROVE FALSE  OBVIOUS
<1>2. IsWellFoundedOn(R, Nat)  BY NatLessThanWellFounded
<1>3. \A x \in Nat, y \in Nat : <<y, x>> \in R <=> y < x  BY DEF OpToRel
<1>4. U \subseteq Nat  OBVIOUS
<1> HIDE DEF R, U
<1>5. PICK x \in U : \A y \in U : ~ (<<y, x>> \in R)  BY <1>1, <1>2, <1>4, WFMin
<1>6. x \in Nat \ {0} /\ x \notin T  BY <1>5 DEF U
<1>7. ASSUME NEW y \in 1..(x - 1) PROVE y \in T
  <2>1. y \in Nat /\ y # 0 /\ y < x  BY <1>6
  <2>2. y \notin U  BY <1>3, <1>5, <1>6, <2>1
  <2>3. QED  BY <2>1, <2>2 DEF U
<1>8. QED  BY <1>6, <1>7

\* What a hash goes back to, by what f says of the hashes before it.
Origins(reads, f) == UNION {IF x > 0 THEN f[x] ELSE {x} : x \in reads}

LEMMA OriginsAgree ==
  ASSUME NEW reads, NEW f, NEW g, \A x \in reads : x > 0 => f[x] = g[x]
  PROVE  Origins(reads, f) = Origins(reads, g)
<1>1. {IF x > 0 THEN f[x] ELSE {x} : x \in reads} = {IF x > 0 THEN g[x] ELSE {x} : x \in reads}
  OBVIOUS
<1>2. QED  BY <1>1 DEF Origins

\* A hash reads what was hashed before it; so what hashes go back to is well defined.
LEMMA RootsExist ==
  ASSUME TypeOK, Hashed, NEW hash \in 1..Len(from)
  PROVE  \E f : f = [c \in 1..hash |-> Origins(from[c], f)]
<1>1. Len(from) \in Nat  BY DEF TypeOK
<1>2. \A c \in 1..Len(from) : \A x \in from[c] : x > 0 => x \in 1..(c - 1)
  <2>1. ASSUME NEW c \in 1..Len(from), NEW x \in from[c], x > 0
        PROVE  x \in 1..(c - 1)
    <3>1. CASE c = 1
      <4>1. from[1] = {Passphrase, Salt}  BY <1>1, <2>1 DEF Hashed
      <4>2. QED  BY <2>1, <3>1, <4>1 DEF Passphrase, Salt
    <3>2. CASE c # 1
      <4>1. c \in 2..Len(from)  BY <1>1, <3>2
      <4>2. from[c] # {Salt}  BY <2>1 DEF Salt
      <4>3. QED  BY <4>1, <4>2 DEF Hashed
    <3>3. QED  BY <3>1, <3>2
  <2>2. QED  BY <2>1
<1> DEFINE Fits(n, f) == f = [c \in 1..n |-> Origins(from[c], f)]
           T == {n \in Nat \ {0} : n <= Len(from) => \E f : Fits(n, f)}
<1>3. ASSUME NEW n \in Nat, n + 1 <= Len(from), NEW f, Fits(n, f)
      PROVE  \E g : Fits(n + 1, g)
  <2> DEFINE g == [c \in 1..(n + 1) |-> IF c <= n THEN f[c] ELSE Origins(from[c], f)]
  <2>1. \A c \in 1..n : g[c] = f[c]  OBVIOUS
  <2>2. ASSUME NEW c \in 1..(n + 1) PROVE g[c] = Origins(from[c], g)
    <3>1. g[c] = Origins(from[c], f)
      <4>1. CASE c \in 1..n
        <5>1. f[c] = Origins(from[c], f)  BY <1>3, <4>1, Zenon
        <5>2. QED  BY <2>1, <4>1, <5>1
      <4>2. CASE c = n + 1  BY <4>2
      <4>3. QED  BY <4>1, <4>2
    <3>2. ASSUME NEW x \in from[c], x > 0 PROVE f[x] = g[x]
      <4>1. c \in 1..Len(from)  BY <1>1, <1>3
      <4>2. x \in 1..(c - 1)  BY <1>2, <3>2, <4>1
      <4>3. x \in 1..n  BY <4>2
      <4>4. QED  BY <2>1, <4>3
    <3> HIDE DEF g
    <3>3. Origins(from[c], f) = Origins(from[c], g)  BY <3>2, OriginsAgree
    <3>4. QED  BY <3>1, <3>3
  <2>3. g = [c \in 1..(n + 1) |-> g[c]]  OBVIOUS
  <2> HIDE DEF g
  <2>4. g = [c \in 1..(n + 1) |-> Origins(from[c], g)]  BY <2>2, <2>3
  <2>5. QED  BY <2>4
<1>4. \E f : Fits(0, f)
  <2> DEFINE f == [c \in 1..0 |-> {}]
  <2>1. Fits(0, f)  OBVIOUS
  <2>2. QED  BY <2>1
<1> HIDE DEF Fits
<1>5. ASSUME NEW k \in Nat \ {0}, 1..(k - 1) \subseteq T PROVE k \in T
  <2>1. SUFFICES ASSUME k <= Len(from) PROVE \E f : Fits(k, f)  OBVIOUS
  <2>2. k - 1 \in Nat /\ (k - 1) + 1 = k  OBVIOUS
  <2>3. \E f : Fits(k - 1, f)
    <3>1. CASE k = 1  BY <3>1, <1>4
    <3>2. CASE k # 1
      <4>1. k - 1 \in 1..(k - 1) /\ k - 1 <= Len(from)  BY <1>1, <2>1, <3>2
      <4>2. QED  BY <4>1, <1>5
    <3>3. QED  BY <3>1, <3>2
  <2>4. \E g : Fits((k - 1) + 1, g)  BY <1>3, <2>1, <2>2, <2>3
  <2>5. QED  BY <2>2, <2>4
<1> HIDE DEF T
<1>6. hash \in T  BY <1>1, <1>5, StrongInduction
<1>7. QED  BY <1>6 DEF T, Fits

\* Every block that was written, and so the key that is taken from the last one, goes
\* back to both the passphrase and the salt and to nothing else, whatever the indices.
THEOREM RootsCorrect == Spec => []BlocksAreRooted
<1>1. ASSUME TypeOK, Hashed PROVE BlocksAreRooted
  <2>1. SUFFICES ASSUME NEW k \in Slots, buf[k] # Zero
                 PROVE  Roots(buf[k]) = {Passphrase, Salt}
    BY DEF BlocksAreRooted
  <2>2. Len(from) \in Nat /\ buf[k] \in 1..Len(from)  BY <1>1, <2>1 DEF TypeOK, Zero
  <2>3. from[buf[k]] # {Salt}  BY <1>1, <2>1 DEF Hashed
  <2> DEFINE hash == buf[k]
             roots == CHOOSE f : f = [c \in 1..hash |-> Origins(from[c], f)]
  <2>4. Roots(hash) = roots[hash]  BY DEF Roots, Origins
  <2>5. hash \in 1..Len(from)  BY <2>2
  <2> HIDE DEF hash
  <2>6. roots = [c \in 1..hash |-> Origins(from[c], roots)]  BY <1>1, <2>5, RootsExist
  <2> HIDE DEF roots
  <2>7. \A c \in 1..hash : roots[c] = Origins(from[c], roots)  BY <2>6, Zenon
  <2> DEFINE T == {c \in Nat \ {0} : c <= hash /\ from[c] # {Salt} => roots[c] = {Passphrase, Salt}}
  <2>8. ASSUME NEW c \in Nat \ {0}, 1..(c - 1) \subseteq T PROVE c \in T
    <3>1. SUFFICES ASSUME c <= hash, from[c] # {Salt} PROVE roots[c] = {Passphrase, Salt}
      OBVIOUS
    <3>2. c \in 1..hash /\ c \in 1..Len(from)  BY <2>2, <2>5, <3>1
    <3>3. CASE c = 1
      <4>1. from[c] = {Passphrase, Salt}  BY <1>1, <3>2, <3>3, <2>2 DEF Hashed
      <4>2. Origins({Passphrase, Salt}, roots) = {Passphrase, Salt}
        BY DEF Origins, Passphrase, Salt
      <4>3. QED  BY <2>7, <3>2, <4>1, <4>2
    <3>4. CASE c # 1
      <4>1. c \in 2..Len(from)  BY <3>2, <3>4, <2>2
      <4>2. from[c] # {} /\ \A x \in from[c] : x \in 1..(c - 1) /\ from[x] # {Salt}
        BY <1>1, <3>1, <4>1 DEF Hashed
      <4>3. \A x \in from[c] : x > 0 /\ roots[x] = {Passphrase, Salt}
        <5>1. ASSUME NEW x \in from[c] PROVE x > 0 /\ roots[x] = {Passphrase, Salt}
          <6>1. x \in 1..(c - 1) /\ from[x] # {Salt}  BY <4>2
          <6>2. x \in T /\ x <= hash /\ x > 0  BY <2>8, <6>1, <3>2, <2>2, <2>5
          <6>3. QED  BY <6>1, <6>2
        <5>2. QED  BY <5>1
      <4>4. {IF x > 0 THEN roots[x] ELSE {x} : x \in from[c]} = {{Passphrase, Salt}}
        BY <4>2, <4>3
      <4>5. Origins(from[c], roots) = {Passphrase, Salt}  BY <4>4 DEF Origins
      <4>6. QED  BY <2>7, <3>2, <4>5
    <3>5. QED  BY <3>3, <3>4
  <2> HIDE DEF T
  <2>9. hash \in T /\ hash \in Nat  BY <2>2, <2>5, <2>8, StrongInduction
  <2>10. from[hash] # {Salt}  BY <2>3 DEF hash
  <2>11. roots[hash] = {Passphrase, Salt}  BY <2>9, <2>10 DEF T
  <2>12. QED  BY <2>4, <2>11 DEF hash
<1>2. QED  BY <1>1, HashedHolds, PTL

\* The hash that an index is taken from reads the salt and the counters alone: which
\* blocks are accessed does not depend on the passphrase, for buffers of any length.
THEOREM IndexCorrect == Spec => IndexIgnoresPassphrase
<1>1. ASSUME TypeOK, [Next]_vars
      PROVE  [at = "index" => Passphrase \notin
                UNION {IF x > 0 THEN Roots(x) ELSE {x} : x \in from'[Len(from')]}]_vars
  <2>1. SUFFICES ASSUME at = "index", Next
                 PROVE  Passphrase \notin
                          UNION {IF x > 0 THEN Roots(x) ELSE {x} : x \in from'[Len(from')]}
    BY <1>1
  <2>2. HashIndex  BY <2>1 DEF Next, Fill, HashLast, HashPicked
  <2>3. from \in Seq(SUBSET Int) /\ from' = Append(from, {Salt}) /\ {Salt} \in SUBSET Int
    BY <1>1, <2>2 DEF TypeOK, HashIndex, Salt
  <2>4. from'[Len(from')] = {Salt}  BY <2>3
  <2>5. \A x \in {Salt} : (IF x > 0 THEN Roots(x) ELSE {x}) = {Salt}  BY DEF Salt
  <2>6. {IF x > 0 THEN Roots(x) ELSE {x} : x \in {Salt}} = {{Salt}}  BY <2>5
  <2>7. UNION {IF x > 0 THEN Roots(x) ELSE {x} : x \in from'[Len(from')]} = {Salt}
    BY <2>4, <2>6
  <2>8. Passphrase # Salt  BY DEF Passphrase, Salt
  <2>9. Passphrase \notin {Salt}  BY <2>8
  <2>10. QED  BY <2>7, <2>9, Zenon
<1>2. QED  BY <1>1, TypesHold, PTL DEF Spec, IndexIgnoresPassphrase
=============================================================================
