---------------------------- MODULE MCVeilMessage ----------------------------
(***************************************************************************)
(* Instances of VeilMessage for TLC.  Lengths are scaled down: a unit of   *)
(* plaintext stands for three bytes, so that three units (nine bytes) are  *)
(* the shortest plaintext that padding_len pads.                           *)
(***************************************************************************)
EXTENDS VeilMessage, TLC

CONSTANTS alice, bob

P == INSTANCE Padme

\* The j-th byte session s reads.
MCByte == Sessions \X (1..MAX_PLAINTEXT)
TextsOf(lens) ==
  [s \in Sessions |-> {[j \in 1..n |-> <<s, j>>] : n \in lens}]
MCPaddingLen == [n \in 0..MAX_PLAINTEXT |-> P!padding_len(3 * n)]

\* With blocks of two: a last block that is short, one that is full, none.
ShortFullEmpty == TextsOf({0, 3, 4})
Short          == TextsOf({3})
Single         == TextsOf({1})

AnyList   == {<< >>, <<bob>>, <<bob, bob>>, <<alice, bob>>}
OneOrBoth == {<<bob>>, <<alice, bob>>}
JustBob   == {<<bob>>}

NoFakes   == {0}
OneFake   == {1}
NoneOrOne == {0, 1}
=============================================================================
