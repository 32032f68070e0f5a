--------------------------- MODULE MessageDecrypt ---------------------------
(***************************************************************************)
(* veil::message::decrypt and the three functions it calls, with           *)
(* SecretKey::decrypt in front: one call, reading a stream that the        *)
(* sessions of MessageEncrypt write.  A step is one round of the loop over *)
(* the headers, or one read_exact of the loop over the blocks with what    *)
(* the code does with the bytes.                                           *)
(***************************************************************************)
EXTENDS MessageEncrypt

CONSTANTS
  U64_MAX,    \* u64::MAX: the number of headers before one is opened
  NoDek       \* None

ASSUME DecryptAssumption == U64_MAX \in Nat /\ NoDek \notin Sessions

VARIABLES
  dpc,        \* where the call is, or how it ended
  claimed,    \* the `sender' argument
  receiver,   \* the `receiver' argument
  dmsg,       \* message: the protocol
  pos,        \* bytes of the stream read so far
  i,          \* headers read so far
  recvCount,  \* recv_count
  dek,        \* dek
  hdr,        \* header: the block header opened last
  out,        \* the blocks written to writer, whole
  torn,       \* what was written of a block whose write failed
  dwritten    \* written

decryptVars ==
  <<dpc, claimed, receiver, dmsg, pos, i, recvCount, dek, hdr, out, torn, dwritten>>

\* Err(DecryptError::..), Ok, or a panic.  "UnexpectedEof" is the ReadIo whose
\* io::Error is of that kind.
DecryptEnded ==
  {"Ok", "InvalidCiphertext", "ReadIo", "UnexpectedEof", "WriteIo",
   "InvalidBlockType", "Panic"}

DecryptInit ==
  /\ dpc = "headers"
  /\ claimed \in Keys
  /\ receiver \in Keys
  /\ dmsg = Start(claimed)
  /\ pos = 0
  /\ i = 0
  /\ recvCount = U64_MAX
  /\ dek = NoDek
  /\ hdr = << >>
  /\ out = << >>
  /\ torn = << >>
  /\ dwritten = 0

\* The stream is at its end once every writer has returned.
Closed == \A s \in Sessions : epc[s] \in EncryptEnded

\* reader.read_exact of n bytes: they are there, ...
Avail(n) == pos + n <= Len(wire)
NextBytes(n) == SubSeq(wire, pos + 1, pos + n)
\* A mutation of Eof: the read is tried again.
EofRetried(n) == FALSE

\* ... or io::ErrorKind::UnexpectedEof, ...
Eof(n) == Closed /\ ~Avail(n)

\* ... and a return with an error, which changes nothing else.
Return(result) ==
  /\ dpc' = result
  /\ UNCHANGED <<claimed, receiver, dmsg, pos, i, recvCount, dek, hdr, out, torn,
                 dwritten>>

\* decrypt_header: the protocol it leaves behind is dropped.
HeaderOpens(clone, bytes) ==
  /\ Intact(bytes)
  /\ Opens(HeaderProtocol(clone, receiver, SubSeq(bytes, 1, ENC_CT_LEN)),
           "header", Chunk(bytes))

\* A mutation of HeadersStep: i is compared before it counts the header just read.
HeadersStepLate(protocol, dek_, count) ==
  LET more == i < count
  IN  /\ i' = i + 1
      /\ dek' = dek_
      /\ recvCount' = count
      /\ dmsg' = IF more \/ dek_ = NoDek THEN protocol ELSE Keyed(protocol, dek_)
      /\ dpc' = IF more THEN "headers"
                ELSE IF dek_ = NoDek THEN "InvalidCiphertext" ELSE "block-header"

\* After a round of the loop over the headers: another one, or its end, where
\* the DEK is mixed in or its absence returned.
HeadersStep(protocol, dek_, count) ==
  LET more == i + 1 < count
  IN  /\ i' = i + 1
      /\ dek' = dek_
      /\ recvCount' = count
      /\ dmsg' = IF more \/ dek_ = NoDek THEN protocol ELSE Keyed(protocol, dek_)
      /\ dpc' = IF more THEN "headers"
                ELSE IF dek_ = NoDek THEN "InvalidCiphertext" ELSE "block-header"

\* One round of decrypt_headers.
DecryptHeader ==
  /\ dpc = "headers"
  /\ \/ LET bytes == NextBytes(ENC_HEADER_LEN)
        IN  /\ Avail(ENC_HEADER_LEN)
            /\ pos' = pos + ENC_HEADER_LEN
            /\ IF dek = NoDek /\ HeaderOpens(dmsg, bytes)
               THEN HeadersStep(Mix(dmsg, "header", bytes),
                                Chunk(bytes).plain[1], Chunk(bytes).plain[2])
               ELSE HeadersStep(Mix(dmsg, "header", bytes), dek, recvCount)
            /\ UNCHANGED <<claimed, receiver, hdr, out, torn, dwritten>>
     \/ Eof(ENC_HEADER_LEN) /\ Return("InvalidCiphertext")
     \/ IoErrors /\ Return("ReadIo")
  /\ UNCHANGED <<encryptVars, wireVars>>

\* A mutation of BytesOpen: a block is sealed under its place in the message alone.
BytesOpenInPlace(label, bytes) ==
  Intact(bytes) /\ Chunk(bytes).label = label /\ Len(Chunk(bytes).under) = Len(dmsg)

\* Does message.open(label, bytes) succeed?
BytesOpen(label, bytes) == Intact(bytes) /\ Opens(dmsg, label, Chunk(bytes))

\* The first half of a round of decrypt_message: the block header.
DecryptBlockHeader ==
  LET bytes == NextBytes(ENC_BLOCK_HEADER_LEN)
  IN  /\ dpc = "block-header"
      /\ \/ /\ Avail(ENC_BLOCK_HEADER_LEN)
            /\ BytesOpen("block-header", bytes)
            /\ pos' = pos + ENC_BLOCK_HEADER_LEN
            /\ hdr' = Chunk(bytes).plain
            /\ dmsg' = Sealed(dmsg, "block-header", hdr')
            /\ dpc' = "block"
            /\ UNCHANGED <<claimed, receiver, i, recvCount, dek, out, torn, dwritten>>
         \/ /\ Avail(ENC_BLOCK_HEADER_LEN)
            /\ ~BytesOpen("block-header", bytes)
            /\ Return("InvalidCiphertext")
         \/ Eof(ENC_BLOCK_HEADER_LEN) /\ Return("UnexpectedEof")
         \/ IoErrors /\ Return("ReadIo")
      /\ UNCHANGED <<encryptVars, wireVars>>

\* writer.write_all(plaintext), or an error after some of its bytes.
Release(block) ==
  \/ /\ out' = Append(out, block)
     /\ dwritten' = dwritten + Len(block)
     /\ dpc' = "block-header"
     /\ UNCHANGED torn
  \/ /\ IoErrors
     /\ \E k \in 0..(Len(block) - 1) : torn' = SubSeq(block, 1, k)
     /\ dpc' = "WriteIo"
     /\ UNCHANGED <<out, dwritten>>

\* The second half: the block, which is opened before its type is looked at.
DecryptBlock ==
  LET n     == hdr[2] + TAG_LEN
      bytes == NextBytes(n)
      block == Chunk(bytes).plain
  IN  /\ dpc = "block"
      /\ \/ /\ Avail(n)
            /\ BytesOpen("block", bytes)
            /\ pos' = pos + n
            /\ dmsg' = Sealed(dmsg, "block", block)
            /\ IF hdr[1] = "Data"
               THEN Release(block)
               ELSE /\ dpc' = IF hdr[1] = "Padding" THEN "sig" ELSE "InvalidBlockType"
                    /\ UNCHANGED <<out, torn, dwritten>>
            /\ UNCHANGED <<claimed, receiver, i, recvCount, dek, hdr>>
         \/ /\ Avail(n)
            /\ ~BytesOpen("block", bytes)
            /\ Return("InvalidCiphertext")
         \/ Eof(n) /\ Return("UnexpectedEof")
         \/ IoErrors /\ Return("ReadIo")
      /\ UNCHANGED <<encryptVars, wireVars>>

\* sig::verify_protocol on SIG_LEN bytes.
Verifies(bytes) ==
  /\ Intact(bytes)
  /\ verify_protocol(dmsg, claimed, Chunk(bytes))

\* A mutation of Rest: a signature is read and no more.
RestTruncated ==
  SubSeq(wire, pos + 1, IF Len(wire) < pos + SIG_LEN THEN Len(wire) ELSE pos + SIG_LEN)

\* reader.read_to_end
Rest == SubSeq(wire, pos + 1, Len(wire))

\* All that is left of the stream should be the signature: try_into().expect()
\* panics unless it is as long as one.
ReadSignature ==
  LET bytes == Rest
  IN  /\ dpc = "sig"
      /\ \/ /\ Closed
            /\ pos' = Len(wire)
            /\ dpc' = IF Len(bytes) # SIG_LEN THEN "Panic"
                      ELSE IF Verifies(bytes) THEN "Ok" ELSE "InvalidCiphertext"
            /\ UNCHANGED <<claimed, receiver, dmsg, i, recvCount, dek, hdr, out, torn,
                           dwritten>>
         \/ IoErrors /\ Return("ReadIo")
      /\ UNCHANGED <<encryptVars, wireVars>>

DecryptStep ==
  \/ DecryptHeader
  \/ DecryptBlockHeader
  \/ DecryptBlock
  \/ ReadSignature
=============================================================================
