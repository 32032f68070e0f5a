------------------------------- MODULE Kemeleon -------------------------------
(***************************************************************************)
(* kemeleon.rs: a sender encapsulates a key, draws until the ciphertext    *)
(* can be encoded, and sends the encoding; a receiver decodes what is at   *)
(* that place of a message, which may also be a header of somebody else or *)
(* a fake.                                                                 *)
(*                                                                         *)
(* A ciphertext is a vector of ten-bit numbers (u) and one of four-bit     *)
(* numbers (v): how these are packed into bytes is left out.  The encoding *)
(* is a big integer, of which u are the digits, and v as it was.           *)
(***************************************************************************)
EXTENDS Integers, Sequences, Powers

CONSTANTS
  Coefficients,  \* how many there are in u: K * N, 768
  MAX_R,         \* 8987: the bits below are the vector's, those above are masked
  Ciphertexts,   \* what the KEM makes: pairs <<u, v>>
  Redrawn,       \* bound: those of them it makes after a rejection
  Masks,         \* 0..31, the five masked bits
  Strays         \* encodings that are none: pairs of any integer and a v

Q == 3329

TenBits  == 0..1023
FourBits == 0..15

\* Where the mask begins.
R_LIMIT == Power(2)[MAX_R]

\* The bits below the mask hold every vector.
ASSUME KemeleonAssumption ==
  /\ Coefficients \in Nat \ {0} /\ MAX_R \in Nat
  /\ Power(Q)[Coefficients] <= R_LIMIT
  /\ Masks \subseteq 0..31
  /\ Ciphertexts \subseteq [1..Coefficients -> TenBits] \X Seq(FourBits)
  /\ Redrawn \subseteq Ciphertexts
  /\ Strays \subseteq (0..(32 * R_LIMIT - 1)) \X Seq(FourBits)

VARIABLES
  pc,    \* where the sender or the receiver is
  ct,    \* the ciphertext of the KEM
  u,     \* the coefficients: u of encode_ct, then u of decode_ct
  k,     \* the index of the loop over them
  ect,   \* the encoding
  r, coeff, f,  \* the big integers of decode_ct
  got    \* which encoding the receiver reads: "sent" or "stray" (history)

vars == <<pc, ct, u, k, ect, r, coeff, f, got>>

-----------------------------------------------------------------------------
fe_reduce_once(a) == IF a >= Q THEN a - Q ELSE a

fe_add(a, b) == fe_reduce_once(a + b)

\* (x << d) * BARRETT_MULTIPLIER >> BARRETT_SHIFT
Quotient(x, d) == (x * 5039) \div 2^(24 - d)

Remainder(x, d) == x * 2^d - Quotient(x, d) * Q

\* A mutation of compress: a remainder is cut off.
compress_down(x, d) == Quotient(x, d) % 2^d

\* The quotient, corrected where the remainder is more than half of Q, and once
\* more where it is more than Q and a half.
compress(x, d) ==
  (Quotient(x, d) + (IF Remainder(x, d) > Q \div 2 THEN 1 ELSE 0)
                  + (IF Remainder(x, d) > Q + Q \div 2 THEN 1 ELSE 0)) % 2^d

decompress(y, d) == ((y * Q) \div 2^d) + (((y * Q) \div 2^(d - 1)) % 2)

\* ring_decode_and_decompress10 and ring_compress_and_encode10
Decompressed(values) == [j \in 1..Coefficients |-> decompress(values[j], 10)]
Compressed(values)   == [j \in 1..Coefficients |-> compress(values[j], 10)]

\* r += coeff * t_i, coeff *= Q
Sums(digits) ==
  LET sum[j \in 0..Coefficients] ==
        IF j = 0 THEN 0 ELSE sum[j - 1] + digits[j] * Power(Q)[j - 1]
  IN  sum

Accumulated(digits) == Sums(digits)[Coefficients]

\* r.bit(MAX_R)
MaskBit(n) == (n \div R_LIMIT) % 2

-----------------------------------------------------------------------------
\* A sender begins, or a stray has come to where a receiver looks.
Init ==
  /\ \/ /\ got = "sent" /\ pc = "encapsulate"
        /\ ct \in Ciphertexts
        /\ ect = <<0, << >>>>
     \/ /\ got = "stray" /\ pc = "sent"
        /\ ct = <<[j \in 1..Coefficients |-> 0], << >>>>
        /\ ect \in Strays
  /\ u = Decompressed(ct[1])
  /\ k = 1
  /\ r = 0 /\ coeff = 1 /\ f = 0

\* A mutation of Accepted: any draw is.
AcceptedAny(x, a) == a \in 0..4

\* A mutation of Accepted: the sum is compressed and not decompressed.
AcceptedCompressed(x, a) == compress(fe_add(x, a), 10) = x

\* A number between 0 and 4 that does not change what x compresses to.
Accepted(x, a) == decompress(compress(fe_add(x, a), 10), 10) = x

\* One coefficient, when such a number has been drawn.
AddRandomness ==
  /\ pc = "encapsulate" /\ k <= Coefficients
  /\ \E a \in 0..4 :
       /\ Accepted(u[k], a)
       /\ IF u[k] = 3328
          THEN pc' = "Panic" /\ UNCHANGED <<u, k>>
          ELSE /\ u' = [u EXCEPT ![k] = @ + a]
               /\ k' = k + 1
               /\ UNCHANGED pc
  /\ UNCHANGED <<ct, ect, r, coeff, f, got>>

\* encode_ct returns None: because of its size, or drawn for a zero in v.
Rejected(n) ==
  \/ MaskBit(n) = 1
  \/ \E j \in 1..Len(ct[2]) : decompress(ct[2][j], 4) = 0

\* The loop of encapsulate begins again with a new ciphertext.
Encapsulate ==
  /\ pc = "encapsulate" /\ k > Coefficients
  /\ Rejected(Accumulated(u))
  /\ ct' \in Redrawn
  /\ u' = Decompressed(ct'[1])
  /\ k' = 1
  /\ UNCHANGED <<pc, ect, r, coeff, f, got>>

\* The digits and the mask.
Encode ==
  /\ pc = "encapsulate" /\ k > Coefficients
  /\ MaskBit(Accumulated(u)) = 0
  /\ \E mask \in Masks : ect' = <<Accumulated(u) + mask * R_LIMIT, ct[2]>>
  /\ pc' = "sent"
  /\ UNCHANGED <<ct, u, k, r, coeff, f, got>>

\* A mutation of Unmask: one bit too few.
UnmaskFewer(n) == n % (2 * R_LIMIT)

\* ect[..] &= !BIT_MASK
Unmask(n) == n % R_LIMIT

\* decode_ct begins.
Decapsulate ==
  /\ pc = "sent"
  /\ r' = Unmask(ect[1])
  /\ coeff' = 1 /\ f' = 0
  /\ u' = [j \in 1..Coefficients |-> 0]
  /\ k' = 1
  /\ pc' = "decode"
  /\ UNCHANGED <<ct, ect, got>>

\* A mutation of Subtracted: each digit counts double.
SubtractedTwice(digit) == f + 2 * digit * coeff

\* f += big_u_i.  (Not its place value, as one would expect.)
Subtracted(digit) == f + digit

\* One digit; the subtraction of the big integers panics below zero.
DecodeDigit ==
  /\ pc = "decode" /\ k <= Coefficients
  /\ IF f > r
     THEN pc' = "Panic" /\ UNCHANGED <<u, k, coeff, f>>
     ELSE LET digit == ((r - f) \div coeff) % Q
          IN  /\ u' = [u EXCEPT ![k] = digit]
              /\ coeff' = coeff * Q
              /\ f' = Subtracted(digit)
              /\ k' = k + 1
              /\ UNCHANGED pc
  /\ UNCHANGED <<ct, ect, r, got>>

\* What decode_ct returns.
Decoded == <<Compressed(u), ect[2]>>

Recompress ==
  /\ pc = "decode" /\ k > Coefficients
  /\ pc' = "decoded"
  /\ UNCHANGED <<ct, u, k, ect, r, coeff, f, got>>

Next == AddRandomness \/ Encapsulate \/ Encode \/ Decapsulate \/ DecodeDigit \/ Recompress

Spec == Init /\ [][Next]_vars

\* Each loop goes on; and a draw that accepts, which can come every time, comes.
FairSpec == Spec /\ WF_vars(Next) /\ SF_vars(Encode)

-----------------------------------------------------------------------------
\* No sum or difference leaves its range and nothing panics; the coefficients are
\* reduced although only the test, not the sum, is made modulo Q.
TypeOK ==
  /\ pc \in {"encapsulate", "sent", "decode", "decoded"}
  /\ ct \in [1..Coefficients -> TenBits] \X Seq(FourBits)
  /\ u \in [1..Coefficients -> 0..(Q - 1)]
  /\ k \in 1..(Coefficients + 1)
  /\ ect \in Nat \X Seq(FourBits)
  /\ r \in 0..(R_LIMIT - 1) /\ coeff \in Nat /\ f \in Nat
  /\ got \in {"sent", "stray"}

\* The receiver has the ciphertext that the sender's KEM made, whatever was drawn.
DecodeUndoesEncode == (pc = "decoded" /\ got = "sent") => Decoded = ct

\* decode_ct finds the digits of any integer, its own encodings or not: what it
\* subtracts in all is not enough to change a digit further up.
DigitsAreRight ==
  (pc = "decode") => \A j \in 1..(k - 1) : u[j] = (r \div Power(Q)[j - 1]) % Q

\* FIPS 203, definition 4.7: (2^d / q) * x, rounded to the nearest integer.
Nearest(x, d) == ((x * 2^(d + 1) + Q) \div (2 * Q)) % 2^d

\* compress rounds every reduced coefficient as FIPS 203 says, and its second
\* correction, a subtraction that may not go below zero, stays above it.
CompressRounds ==
  \A j \in 1..Coefficients :
    /\ compress(u[j], 10) = Nearest(u[j], 10)
    /\ Remainder(u[j], 10) \in 0..(Q + Q \div 2)

\* Every receiver has its ciphertext in the end: for every coefficient some number is
\* accepted, and encapsulate does not reject for ever.
EveryLoopEnds == <>(pc = "decoded")
=============================================================================
