------------------------------ MODULE MCBalloon ------------------------------
(***************************************************************************)
(* Buffers of one, two and four blocks; every index is tried.              *)
(***************************************************************************)
EXTENDS Balloon

MCSizes == {<<1, 1>>, <<1, 2>>, <<2, 2>>, <<4, 1>>}
=============================================================================
