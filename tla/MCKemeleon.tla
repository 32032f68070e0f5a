------------------------------ MODULE MCKemeleon ------------------------------
(***************************************************************************)
(* Vectors of two coefficients: 2^23 < 3329^2 < 2^24, as 2^8986 < 3329^768 *)
(* < 2^8987.                                                               *)
(***************************************************************************)
EXTENDS Kemeleon

\* One of the two takes all values, the other the least and the greatest.
Edges == {0, 1023}
MCCiphertexts ==
  {<<<<x, y>>, <<3>>>> : x \in TenBits, y \in Edges}
    \union {<<<<x, y>>, <<3>>>> : x \in Edges, y \in TenBits}
    \union {<<<<x, y>>, <<0>>>> : x \in Edges, y \in Edges}
MCRedrawn == {<<<<x, y>>, <<v>>>> : x \in Edges, y \in Edges, v \in {0, 3}}
MCMasks == {0, 1, 31}
\* Integers whose digits are all values of a coefficient, and the largest of 24
\* and of 29 bits.
MCStrays ==
  {<<x + Q * y, <<7>>>> : x \in 0..(Q - 1), y \in {0, Q - 1}}
    \union {<<2^24 - 1, <<7>>>>, <<2^29 - 1, <<7>>>>}
=============================================================================
