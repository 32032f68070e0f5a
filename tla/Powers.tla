-------------------------------- MODULE Powers --------------------------------
(***************************************************************************)
(* Powers of natural numbers, multiplied out: what padding_len shifts by,  *)
(* and what the digits of a Kemeleon encoding are worth.                   *)
(***************************************************************************)
EXTENDS Naturals

\* b, n times multiplied, at n.
Power(b) ==
  LET power[n \in Nat] == IF n = 0 THEN 1 ELSE b * power[n - 1]
  IN  power
=============================================================================
