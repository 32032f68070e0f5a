------------------------------- MODULE MCPbenc -------------------------------
(***************************************************************************)
(* Instances of Pbenc.  A cost is a byte: 1 << 8 in a u8 and 1 << 64 in a  *)
(* u64 or a usize are 1 << 0 where overflow is not checked.                *)
(***************************************************************************)
EXTENDS Pbenc

\* One thread, two and four; and costs with the same shifted values.
Usual   == {<<0, 0, 0>>, <<1, 0, 1>>, <<0, 1, 2>>}
Wrapped == {<<0, 0, 1>>, <<64, 0, 1>>, <<0, 64, 1>>, <<0, 0, 9>>}
Huge    == {<<0, 0, 0>>, <<0, 60, 0>>}
Every   == Usual \union Wrapped \union Huge
=============================================================================
