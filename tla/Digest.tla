--------------------------------- MODULE Digest ---------------------------------
(***************************************************************************)
(* digest.rs: the digest of a sequence of metadata values and a message.   *)
(***************************************************************************)
EXTENDS Lockstitch, SequencesExt

\* A mutation of Described: the values are mixed in as one.
DescribedAtOnce(metadata) == Mix(New("veil.digest"), "metadata", FlattenSeq(metadata))

\* The metadata values, in order.
Described(metadata) ==
  LET digest[j \in 0..Len(metadata)] ==
        IF j = 0 THEN New("veil.digest") ELSE Mix(digest[j - 1], "metadata", metadata[j])
  IN  digest[Len(metadata)]

\* Digest::new, when io::copy has mixed in what it read.
NewDigest(metadata, text) == Derived(Mix(Described(metadata), "message", text), "digest")
=============================================================================
