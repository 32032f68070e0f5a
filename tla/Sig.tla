---------------------------------- MODULE Sig ----------------------------------
(***************************************************************************)
(* sig.rs: a signature is made of a protocol and encrypted under it.  The  *)
(* scheme is ideal: only the owner of a key makes its signatures, and each *)
(* is of one transcript.                                                   *)
(***************************************************************************)
EXTENDS Lockstitch

CONSTANT SIG_LEN  \* of a signature, in bytes

\* The digest is derived before the signature is encrypted.
SignedProtocol(protocol) == Derived(protocol, "digest")

sign_protocol(protocol, signer) ==
  Ciphertext(SignedProtocol(protocol), "signature", <<signer, protocol>>, SIG_LEN)

\* What decrypts to anything but a signature of this transcript does not verify.
verify_protocol(protocol, signer, sig) ==
  /\ Opens(SignedProtocol(protocol), "signature", sig)
  /\ sig.plain = <<signer, protocol>>

-----------------------------------------------------------------------------
\* The protocol of a detached signature, when io::copy has mixed in what it read.
Transcript(signer, text) ==
  Mix(Mix(New("veil.sig"), "signer", signer.encoded), "message", text)

sign(signer, text) == sign_protocol(Transcript(signer, text), signer.vk)

\* A mutation of verify: the signer is mixed in after the message.
verify_reordered(signer, text, sig) ==
  verify_protocol(Mix(Mix(New("veil.sig"), "message", text), "signer", signer.encoded),
                  signer.vk, sig)

verify(signer, text, sig) == verify_protocol(Transcript(signer, text), signer.vk, sig)
=============================================================================
