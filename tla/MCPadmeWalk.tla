----------------------------- MODULE MCPadmeWalk -----------------------------
(***************************************************************************)
(* Walks of 300 lengths with the real numbers: from 0, and around the      *)
(* powers of two, where the exponent and the step of the rule change.      *)
(***************************************************************************)
EXTENDS PadmeWalk

Around(exponents) == {2^e - 150 : e \in exponents}

\* All of them below 2^30; 2^21 + 2^16 begins another block and another class.
Below1GiB == {0} \union Around(8..29)
                 \union {2^30 - 301, 2^29 + 2^24 - 150, 2^21 + 2^16 - 150,
                         2^22 + 2^16 - 150}
Past1GiB  == Around({30})
=============================================================================
