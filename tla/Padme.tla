-------------------------------- MODULE Padme --------------------------------
(***************************************************************************)
(* padding_len of message.rs: the PADME rule for how many random bytes     *)
(* follow a plaintext, in the arithmetic of u64.                           *)
(***************************************************************************)
EXTENDS Powers

\* The exponent of the highest bit of n, for n > 0.
HighestBit(n) == CHOOSE e \in 0..63 : n \div Power(2)[e] = 1

\* u64::leading_zeros
LeadingZeros(n) == IF n = 0 THEN 64 ELSE 63 - HighestBit(n)

SaturatingSub(m, n) == IF n > m THEN 0 ELSE m - n

\* A mutation of Kept: one bit fewer.
KeptFewer(len) == 63 - LeadingZeros(SaturatingSub(63, LeadingZeros(len)))

\* e, s and z of the code: a length of e + 1 bits keeps its s + 1 highest ones.
Exponent(len)  == SaturatingSub(63, LeadingZeros(len))
Kept(len)      == 64 - LeadingZeros(Exponent(len))
LowBits(len)   == Exponent(len) - Kept(len)

\* A mutation of RoundUp: the mask is not one less than the step.
RoundUpFurther(len, z) == ((len + Power(2)[z]) \div Power(2)[z]) * Power(2)[z]

\* (len + mask) & !mask
RoundUp(len, z) == ((len + Power(2)[z] - 1) \div Power(2)[z]) * Power(2)[z]

\* A mutation of padding_len: the low bits themselves.
padding_len_low(len) == len % Power(2)[LowBits(len)]

padding_len(len) == RoundUp(len, LowBits(len)) - len
=============================================================================
