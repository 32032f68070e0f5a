----------------------------- MODULE Lockstitch -----------------------------
(***************************************************************************)
(* The lockstitch::Protocol object as Veil uses it (external: the crate's  *)
(* source is not in the repository).                                       *)
(*                                                                         *)
(* A protocol is the history of the operations performed on it: its hidden *)
(* state is a cryptographic function of that whole history and of nothing  *)
(* else, so two protocols agree exactly when their histories do.  A value  *)
(* is derived from, sealed under or opened by the history that precedes    *)
(* it; `open' succeeds exactly on what was sealed under the same history   *)
(* and label.                                                              *)
(***************************************************************************)
EXTENDS Naturals, Sequences

\* Protocol::new(domain)
New(domain) == << <<"new", "domain", domain>> >>

\* A mutation of Mix: neither side mixes in the encrypted headers.
MixNoHeaders(protocol, label, value) ==
  IF label = "header" THEN protocol ELSE Append(protocol, <<"mix", label, value>>)

\* protocol.mix(label, value)
Mix(protocol, label, value) == Append(protocol, <<"mix", label, value>>)

\* The state seal and open leave behind.  Both parties know the plaintext, so
\* both append the same operation.
Sealed(protocol, label, plaintext) ==
  Append(protocol, <<"seal", label, plaintext>>)

\* protocol.derive_array(label)
Derived(protocol, label) == Append(protocol, <<"derive", label, "output">>)

\* A ciphertext: what was sealed (or encrypted), under which history and label.
\* n is its length on the wire, tag included.
Ciphertext(protocol, label, plaintext, n) ==
  [under |-> protocol, label |-> label, plain |-> plaintext, n |-> n]

\* Does protocol.open(label, c) return Some(_)?
Opens(protocol, label, c) == c.label = label /\ c.under = protocol
=============================================================================
