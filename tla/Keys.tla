---------------------------------- MODULE Keys ----------------------------------
(***************************************************************************)
(* keys.rs: the keys that a seed stands for.  The public halves of a key   *)
(* are named by the values that the library generates them from.           *)
(***************************************************************************)

\* What the protocol of a seed derives under a label, each in its turn.
DerivedFrom(seed, label) == <<label, seed>>

\* A public key with its encoded form.
from_parts(ek, vk) == [ek |-> ek, vk |-> vk, encoded |-> <<ek, vk>>]

\* The public key of SecKey::from_canonical_bytes.
pub_key(seed) ==
  from_parts(<<DerivedFrom(seed, "ml-kem-768-d"), DerivedFrom(seed, "ml-kem-768-z")>>,
             <<DerivedFrom(seed, "ml-dsa-65-x")>>)

\* PubKey::from_canonical_bytes, of bytes that are two valid halves.
Decoded(b) == [ek |-> b[1], vk |-> b[2], encoded |-> b]
=============================================================================
