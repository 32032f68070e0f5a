--------------------------- MODULE MessageEncrypt ---------------------------
(***************************************************************************)
(* veil::message::encrypt and the two functions it calls, with             *)
(* SecretKey::encrypt in front.  Each session is one call; its steps are   *)
(* the I/O calls of the loop: every write_all, and every read of a block.  *)
(***************************************************************************)
EXTENDS Sig, Wire, SequencesExt

CONSTANTS
  Keys,              \* key pairs; a public key is named by its key pair
  Fake,              \* None in the list of receivers
  Byte,              \* plaintext bytes
  Plaintexts,        \* Plaintexts[s]: what the reader of session s may hold
  ReceiverLists,     \* the `receivers' arguments
  Fakes,             \* the `fakes' arguments
  MAX_PLAINTEXT,     \* bound: the longest plaintext
  PaddingLen,        \* the table of padding_len (module Padme)
  BLOCK_LEN, TAG_LEN, BLOCK_HEADER_LEN, HEADER_LEN, ENC_CT_LEN,
  LEN_LIMIT,         \* 2^24: a block header has three bytes for a length
  IoErrors           \* may readers and writers fail?

ENC_HEADER_LEN       == ENC_CT_LEN + HEADER_LEN + TAG_LEN
ENC_BLOCK_HEADER_LEN == BLOCK_HEADER_LEN + TAG_LEN

ASSUME LengthsAssumption ==
  /\ BLOCK_LEN \in Nat \ {0}
  /\ TAG_LEN \in Nat \ {0}
  /\ BLOCK_HEADER_LEN \in Nat \ {0}
  /\ HEADER_LEN \in Nat \ {0}
  /\ ENC_CT_LEN \in Nat \ {0}
  /\ SIG_LEN \in Nat \ {0}
  /\ LEN_LIMIT \in Nat \ {0}
  /\ MaxEdits \in Nat
  /\ Reach \in Nat
  /\ MAX_PLAINTEXT \in Nat
  /\ IoErrors \in BOOLEAN

ASSUME KeysAssumption ==
  /\ Fake \notin Keys
  /\ Noise \notin [from : Sessions, chunk : Nat, byte : Nat]
  /\ ReceiverLists \subseteq Seq(Keys)
  /\ Fakes \subseteq Nat

ASSUME PlaintextsAssumption ==
  /\ PaddingLen \in [0..MAX_PLAINTEXT -> Nat]
  /\ \A s \in Sessions : \A p \in Plaintexts[s] :
       p \in Seq(Byte) /\ Len(p) <= MAX_PLAINTEXT

VARIABLES
  epc,        \* epc[s]: where session s is, or how it ended
  sender,     \* sender[s]: the secret key of self
  receivers,  \* receivers[s]: the shuffled list, fakes included
  plain,      \* plain[s]: what the reader holds
  message,    \* message[s]: the protocol
  read,       \* read[s]: bytes read so far
  blocks,     \* blocks[s]: the blocks read so far (history)
  written     \* written[s]: bytes of ciphertext counted so far

encryptVars == <<epc, sender, receivers, plain, message, read, blocks, written>>

EncryptEnded == {"Ok", "ReadIo", "WriteIo"}

EncryptInit ==
  /\ epc = [s \in Sessions |-> "idle"]
  /\ sender \in [Sessions -> Keys]
  /\ receivers = [s \in Sessions |-> << >>]
  /\ plain \in {f \in [Sessions -> UNION {Plaintexts[s] : s \in Sessions}] :
                  \A s \in Sessions : f[s] \in Plaintexts[s]}
  /\ message = [s \in Sessions |-> << >>]
  /\ read = [s \in Sessions |-> 0]
  /\ blocks = [s \in Sessions |-> << >>]
  /\ written = [s \in Sessions |-> 0]

\* receivers.shuffle: every order of the receivers and the fakes.
Shuffled(list) ==
  {[i \in 1..Len(list) |-> list[f[i]]] :
     f \in {g \in [1..Len(list) -> 1..Len(list)] :
              \A i, j \in 1..Len(list) : g[i] = g[j] => i = j}}

\* All headers written: the DEK keys the protocol for the blocks.
Keyed(protocol, dek) == Mix(protocol, "dek", dek)

\* Both sides start by mixing in the sender's public key.
Start(key) == Mix(New("veil.message"), "sender", key)

\* SecretKey::encrypt, and message::encrypt up to its loop over the receivers.
Encrypt(s) ==
  /\ epc[s] = "idle"
  /\ \E list \in ReceiverLists, fakes \in Fakes :
       \E shuffled \in Shuffled(list \o [i \in 1..fakes |-> Fake]) :
         LET start == Start(sender[s])
         IN  /\ receivers' = [receivers EXCEPT ![s] = shuffled]
             /\ message' = [message EXCEPT ![s] =
                              IF shuffled = << >> THEN Keyed(start, s) ELSE start]
             /\ epc' = [epc EXCEPT ![s] =
                          IF shuffled = << >> THEN "read" ELSE "headers"]
  /\ UNCHANGED <<sender, plain, read, blocks, written, wireVars>>

\* A mutation of HeaderProtocol: what is known to the receiver alone is not mixed in.
HeaderProtocolForAll(clone, receiver, ect) == Mix(clone, "ml-kem-768-ect", ect)

\* The protocol a header is sealed under: a clone of the message's protocol
\* with the receiver's key, the encapsulation and the shared secret mixed in.
\* The secret is a function of the key pair and the encapsulation: another key
\* decapsulates the same bytes to another secret (implicit rejection).
HeaderProtocol(clone, receiver, ect) ==
  Mix(Mix(Mix(clone, "receiver", receiver), "ml-kem-768-ect", ect),
      "ml-kem-768-ss", <<receiver, ect>>)

\* A mutation of EncHeader: the fakes are not counted.
EncHeaderUncounted(s, receiver, bytes) ==
  IF receiver = Fake
  THEN Ciphertext(<< >>, "random", << >>, ENC_HEADER_LEN)
  ELSE Ciphertext(HeaderProtocol(message[s], receiver, SubSeq(bytes, 1, ENC_CT_LEN)),
                  "header", <<s, Len(Remove(receivers[s], Fake))>>, ENC_HEADER_LEN)

\* encrypt_header for a receiver; random bytes for a fake one.
EncHeader(s, receiver, bytes) ==
  IF receiver = Fake
  THEN Ciphertext(<< >>, "random", << >>, ENC_HEADER_LEN)
  ELSE Ciphertext(HeaderProtocol(message[s], receiver, SubSeq(bytes, 1, ENC_CT_LEN)),
                  "header", <<s, Len(receivers[s])>>, ENC_HEADER_LEN)

\* A mutation of Write: the bytes are counted before they are sealed.
WriteUntagged(s, chunk, pc) ==
  \/ /\ WriteAll(s, chunk)
     /\ written' = [written EXCEPT ![s] = @ + chunk.n - TAG_LEN]
     /\ epc' = [epc EXCEPT ![s] = pc]
  \/ /\ IoErrors
     /\ WriteFails(s, chunk)
     /\ epc' = [epc EXCEPT ![s] = "WriteIo"]
     /\ UNCHANGED written

\* write_all, then count the bytes and go to pc; or return WriteIo.
Write(s, chunk, pc) ==
  \/ /\ WriteAll(s, chunk)
     /\ written' = [written EXCEPT ![s] = @ + chunk.n]
     /\ epc' = [epc EXCEPT ![s] = pc]
  \/ /\ IoErrors
     /\ WriteFails(s, chunk)
     /\ epc' = [epc EXCEPT ![s] = "WriteIo"]
     /\ UNCHANGED written

\* One round of the loop over the receivers.
WriteHeader(s) ==
  LET i     == Len(sent[s]) + 1
      last  == i = Len(receivers[s])
      bytes == Cells(s, i, ENC_HEADER_LEN)
      mixed == Mix(message[s], "header", bytes)
  IN  /\ epc[s] = "headers"
      /\ Write(s, EncHeader(s, receivers[s][i], bytes),
               IF last THEN "read" ELSE "headers")
      /\ message' = [message EXCEPT ![s] = IF last THEN Keyed(mixed, s) ELSE mixed]
      /\ UNCHANGED <<sender, receivers, plain, read, blocks>>

\* How many bytes reader.take(BLOCK_LEN).read_to_end(&mut block) finds.
Taken(rest) == IF rest < BLOCK_LEN THEN rest ELSE BLOCK_LEN

ReadBlock(s) ==
  /\ epc[s] = "read"
  /\ \/ LET n == Taken(Len(plain[s]) - read[s])
        IN  /\ read' = [read EXCEPT ![s] = @ + n]
            /\ IF n = 0
               THEN /\ epc' = [epc EXCEPT ![s] = "padding-header"]
                    /\ UNCHANGED blocks
               ELSE /\ epc' = [epc EXCEPT ![s] = "block-header"]
                    /\ blocks' = [blocks EXCEPT ![s] =
                         Append(@, SubSeq(plain[s], read[s] + 1, read[s] + n))]
     \/ /\ IoErrors
        /\ epc' = [epc EXCEPT ![s] = "ReadIo"]
        /\ UNCHANGED <<read, blocks>>
  /\ UNCHANGED <<sender, receivers, plain, message, written, wireVars>>

\* Mutations of BlockHeader: the length is written over the type, or the type of
\* the last header stays in the buffer.
BlockHeaderShifted(type, len) == <<"Length", len % LEN_LIMIT>>
BlockHeaderStale(type, len) == <<"Data", len % LEN_LIMIT>>

\* The three length bytes of a block header hold a length modulo 2^24.
BlockHeader(type, len) == <<type, len % LEN_LIMIT>>

\* seal(label, plaintext) and write the result.
SealAndWrite(s, label, plaintext, len, pc) ==
  /\ Write(s, Ciphertext(message[s], label, plaintext, len + TAG_LEN), pc)
  /\ message' = [message EXCEPT ![s] = Sealed(@, label, plaintext)]
  /\ UNCHANGED <<sender, receivers, plain, read, blocks>>

WriteBlockHeader(s) ==
  /\ epc[s] = "block-header"
  /\ SealAndWrite(s, "block-header", BlockHeader("Data", Len(Last(blocks[s]))),
                  BLOCK_HEADER_LEN, "block")

\* A mutation of WriteBlock: the first block is the last one.
WriteOneBlock(s) ==
  LET block == Last(blocks[s])
  IN  /\ epc[s] = "block"
      /\ SealAndWrite(s, "block", block, Len(block), "padding-header")

\* An undersized block is the last one.
WriteBlock(s) ==
  LET block == Last(blocks[s])
  IN  /\ epc[s] = "block"
      /\ SealAndWrite(s, "block", block, Len(block),
                      IF Len(block) < BLOCK_LEN THEN "padding-header" ELSE "read")

WritePaddingHeader(s) ==
  /\ epc[s] = "padding-header"
  /\ SealAndWrite(s, "block-header", BlockHeader("Padding", PaddingLen[read[s]]),
                  BLOCK_HEADER_LEN, "padding")

WritePadding(s) ==
  /\ epc[s] = "padding"
  /\ SealAndWrite(s, "block", Random(PaddingLen[read[s]]), PaddingLen[read[s]],
                  "sign")

WriteSignature(s) ==
  /\ epc[s] = "sign"
  /\ Write(s, sign_protocol(message[s], sender[s]), "Ok")
  /\ UNCHANGED <<sender, receivers, plain, message, read, blocks>>

EncryptStep(s) ==
  \/ Encrypt(s)
  \/ WriteHeader(s)
  \/ ReadBlock(s)
  \/ WriteBlockHeader(s)
  \/ WriteBlock(s)
  \/ WritePaddingHeader(s)
  \/ WritePadding(s)
  \/ WriteSignature(s)
=============================================================================
