----------------------------- MODULE VeilMessage -----------------------------
(***************************************************************************)
(* Encryptions, the stream they write to, and one decryption that reads it *)
(* while they write.                                                       *)
(***************************************************************************)
EXTENDS MessageDecrypt

vars == <<encryptVars, wireVars, decryptVars>>

Init == EncryptInit /\ WireInit /\ DecryptInit

Writer(s) == EncryptStep(s) /\ UNCHANGED decryptVars

\* The stream may be damaged anywhere past what was read of it.
Environment ==
  /\ dpc \notin DecryptEnded
  /\ Damage(pos)
  /\ UNCHANGED <<encryptVars, decryptVars>>

Next ==
  \/ \E s \in Sessions : Writer(s)
  \/ DecryptStep
  \/ Environment

Spec == Init /\ [][Next]_vars

\* The same with a file in the place of a pipe: one encryption after the other
\* writes it, and then it is read.
BatchNext ==
  \/ \E s \in Sessions :
       /\ \A t \in Sessions \ {s} : epc[t] \in {"idle"} \union EncryptEnded
       /\ Writer(s)
  \/ Closed /\ (DecryptStep \/ Environment)

BatchSpec == Init /\ [][BatchNext]_vars

\* Both programs are single threads, which the operating system runs: their
\* next step is taken.  Nothing is assumed of the environment; in particular
\* a read that waits is not owed an error.
NoFault(pc) == pc \notin {"ReadIo", "WriteIo"}

Fairness ==
  /\ \A s \in Sessions : WF_vars(Writer(s) /\ NoFault(epc'[s]))
  /\ WF_vars(DecryptStep /\ NoFault(dpc'))

FairSpec == Spec /\ Fairness

-----------------------------------------------------------------------------
\* What a protocol can have gone through.
Op == ({"new"}    \X {"domain"}         \X {"veil.message"})
  \union ({"mix"}    \X {"sender"}         \X Keys)
  \union ({"mix"}    \X {"header"}         \X Seq(Cell))
  \union ({"mix"}    \X {"dek"}            \X Sessions)
  \union ({"mix"}    \X {"receiver"}       \X Keys)
  \union ({"mix"}    \X {"ml-kem-768-ect"} \X Seq(Cell))
  \union ({"mix"}    \X {"ml-kem-768-ss"}  \X (Keys \X Seq(Cell)))
  \union ({"seal"}   \X {"block-header"}   \X ({"Data", "Padding"} \X Nat))
  \union ({"seal"}   \X {"block"}          \X Seq(Byte \union {Noise}))
  \union ({"derive"} \X {"digest"}         \X {"output"})

\* What can be written with one write_all.
CiphertextOf(label, plaintexts) ==
  [under : Seq(Op), label : {label}, plain : plaintexts, n : Nat]

WriteUnit == CiphertextOf("random", {<< >>})
  \union CiphertextOf("header", Sessions \X Nat)
  \union CiphertextOf("block-header", {"Data", "Padding"} \X Nat)
  \union CiphertextOf("block", Seq(Byte \union {Noise}))
  \union CiphertextOf("signature", Keys \X Seq(Op))

EncryptTypeOK ==
  /\ epc \in [Sessions -> EncryptEnded \union
                {"idle", "headers", "read", "block-header", "block",
                 "padding-header", "padding", "sign"}]
  /\ sender \in [Sessions -> Keys]
  /\ receivers \in [Sessions -> Seq(Keys \union {Fake})]
  /\ plain \in [Sessions -> Seq(Byte)]
  /\ message \in [Sessions -> Seq(Op)]
  /\ read \in [Sessions -> Nat]
  /\ blocks \in [Sessions -> Seq(Seq(Byte))]
  /\ written \in [Sessions -> Nat]

WireTypeOK ==
  /\ sent \in [Sessions -> Seq(WriteUnit)]
  /\ wire \in Seq(Cell)
  /\ edits \in Nat

DecryptTypeOK ==
  /\ dpc \in DecryptEnded \union {"headers", "block-header", "block", "sig"}
  /\ claimed \in Keys
  /\ receiver \in Keys
  /\ dmsg \in Seq(Op)
  /\ pos \in 0..Len(wire)
  /\ i \in Nat
  /\ recvCount \in Nat
  /\ dek \in Sessions \union {NoDek}
  /\ hdr \in ({"Data", "Padding"} \X Nat) \union {<< >>}
  /\ dpc = "block" => hdr \in {"Data", "Padding"} \X Nat
  /\ out \in Seq(Seq(Byte \union {Noise}))
  /\ torn \in Seq(Byte \union {Noise})
  /\ dwritten \in Nat

\* Every variable has its type; no index of decrypt lies past the stream, and
\* no block type other than the two of the code is ever met.
TypeOK ==
  /\ EncryptTypeOK /\ WireTypeOK /\ DecryptTypeOK
  /\ \A s \in Sessions : plain[s] \in Plaintexts[s] /\ read[s] <= Len(plain[s])
  /\ edits <= MaxEdits
  /\ dpc # "InvalidBlockType"

\* The loops of encrypt stand where their bodies find what they index: a receiver
\* yet to be written for, a block that was read.
LoopsOK ==
  \A s \in Sessions :
    /\ epc[s] = "idle" => sent[s] = << >> /\ blocks[s] = << >>
    /\ epc[s] = "headers" => Len(sent[s]) < Len(receivers[s])
    /\ epc[s] \in {"block-header", "block"} => blocks[s] # << >>

-----------------------------------------------------------------------------
\* The blocks an encryption has read are its plaintext up to where it has read,
\* in order and without a gap; all but the last are full, none is empty, and an
\* encryption that reached its padding has read everything.  (The loop of
\* encrypt_message: n == 0 after a full block, n < BLOCK_LEN, the reset of
\* the block buffer.)
BlocksTileThePlaintext ==
  \A s \in Sessions :
    /\ \A k \in 1..Len(blocks[s]) :
         blocks[s][k] = SubSeq(plain[s], (k - 1) * BLOCK_LEN + 1,
                               IF k * BLOCK_LEN < read[s] THEN k * BLOCK_LEN
                               ELSE read[s])
    /\ \A k \in 1..Len(blocks[s]) : blocks[s][k] # << >>
    /\ Len(blocks[s]) * BLOCK_LEN >= read[s]
    /\ epc[s] \in {"padding-header", "padding", "sign", "Ok"}
         => read[s] = Len(plain[s])

\* What a message's length is made of.
CiphertextLength(s) ==
  Len(receivers[s]) * ENC_HEADER_LEN
    + (Len(blocks[s]) + 1) * (ENC_BLOCK_HEADER_LEN + TAG_LEN)
    + Len(plain[s]) + PaddingLen[Len(plain[s])] + SIG_LEN

\* The count encrypt returns is the length of the ciphertext: headers, two
\* seals a block and two for the padding, the padding and the signature.
EncryptCountsItsBytes ==
  \A s \in Sessions : epc[s] = "Ok" => written[s] = CiphertextLength(s)

\* Session s was told to encrypt for the key that decrypts, with the key that
\* the decryption claims for its sender.
Addressed(s) == sender[s] = claimed /\ receiver \in Range(receivers[s])

\* Plaintext reaches the writer of decrypt before the signature is checked, and
\* whatever happened to the stream, it is always a beginning of what one
\* session read, block by block, from the claimed sender for this receiver.
ReleasedIsAuthentic ==
  IF dek = NoDek
  THEN out = << >> /\ torn = << >>
  ELSE /\ Addressed(dek)
       /\ IsPrefix(out, blocks[dek])
       /\ torn # << >> => /\ Len(out) < Len(blocks[dek])
                          /\ IsPrefix(torn, blocks[dek][Len(out) + 1])

\* The byte that its session wrote after byte x.
NextByte(x) ==
  IF x.byte < sent[x.from][x.chunk].n
  THEN [x EXCEPT !.byte = @ + 1]
  ELSE [from |-> x.from, chunk |-> x.chunk + 1, byte |-> 1]

\* The first p bytes of the stream are what session s wrote, byte after byte, up to
\* the end of its c-th chunk.
InOrder(s, p, c) ==
  /\ p >= 1
  /\ wire[1] = [from |-> s, chunk |-> 1, byte |-> 1]
  /\ \A q \in 2..p : wire[q - 1] # Noise /\ wire[q] = NextByte(wire[q - 1])
  /\ wire[p] = [from |-> s, chunk |-> c, byte |-> sent[s][c].n]

\* The stream is all that session s wrote, as it wrote it.
Delivered(s) == InOrder(s, Len(wire), Len(sent[s]))

\* decrypt returns Ok only for a message that its sender completed and of which
\* not one byte was changed, the headers of others and the fakes included; it
\* has then written all of the plaintext, and returns its length.
OkIsComplete ==
  dpc = "Ok" => /\ dek # NoDek
                /\ epc[dek] = "Ok"
                /\ Delivered(dek)
                /\ out = blocks[dek]
                /\ read[dek] = Len(plain[dek])
                /\ dwritten = Len(plain[dek])

\* A message of one session that arrives as it was written is decrypted by each
\* of its receivers, wherever in the list and among however many fakes.
RoundTrip ==
  \A s \in Sessions :
    (/\ dpc \in DecryptEnded
     /\ epc[s] = "Ok" /\ Addressed(s)
     /\ edits = 0 /\ \A t \in Sessions \ {s} : sent[t] = << >>)
      => \/ dpc = "Ok"
         \/ IoErrors /\ dpc \in {"ReadIo", "WriteIo"}

\* Who is not among the receivers, or claims another sender, reads headers to
\* the end of the stream and is refused; the plaintext blocks that follow
\* the headers never open for her as a header.
StrangersAreRefused ==
  (dpc \in DecryptEnded /\ \A s \in Sessions : ~Addressed(s))
    => dpc = "InvalidCiphertext" \/ (IoErrors /\ dpc = "ReadIo")

\* Every call of encrypt and of decrypt returns (or panics): the loop over the
\* headers, whose bound is u64::MAX until one opens, ends with the stream.
EveryCallReturns ==
  /\ \A s \in Sessions : <>(epc[s] \in EncryptEnded)
  /\ <>(dpc \in DecryptEnded)

-----------------------------------------------------------------------------
\* Where the DEK stands in the history of session s's protocol: after the
\* domain, the sender and the headers.
Base(s) == Len(receivers[s]) + 3

\* The history m of a session that has read the blocks bs, with its DEK at b: its
\* sender, its DEK and no other, then a header and a block for each block read,
\* and for the padding.
History(m, s, b, bs) ==
  /\ Len(m) >= 2 /\ m[2] = <<"mix", "sender", sender[s]>>
  /\ \A q \in 1..Len(m) : m[q][2] = "dek" => m[q][3] = s
  /\ \A j \in 1..Len(bs) :
       /\ b + 2 * j - 1 <= Len(m) => m[b + 2 * j - 1][3][1] = "Data"
       /\ b + 2 * j <= Len(m) => m[b + 2 * j][3] = bs[j]
  /\ b + 2 * Len(bs) + 1 <= Len(m) => m[b + 2 * Len(bs) + 1][3][1] = "Padding"
  /\ Len(m) <= b + 2 * Len(bs) + 2

\* How far an encryption's protocol has gone at each point of the code.
HistoryLength(s) ==
  LET end == Base(s) + 2 * Len(blocks[s])
  IN  /\ epc[s] = "headers" => /\ Len(message[s]) = Len(sent[s]) + 2
                               /\ blocks[s] = << >>
      /\ epc[s] \in {"read", "padding-header"} => Len(message[s]) = end
      /\ epc[s] = "block-header" => Len(message[s]) = end - 2
      /\ epc[s] = "block" => Len(message[s]) = end - 1
      /\ epc[s] = "padding" => Len(message[s]) = end + 1
      /\ epc[s] = "sign" => Len(message[s]) = end + 2

\* The c-th chunk u of a session with history m was sealed under a state that its
\* protocol has been in: a header under the clone at that header, a block or its
\* header under its own.
SealedIn(u, c, s, m, list) ==
  /\ u.label = "header" =>
       /\ c <= Len(list) /\ list[c] \in Keys /\ c + 1 <= Len(m)
       /\ u.under = HeaderProtocol(SubSeq(m, 1, c + 1), list[c],
                       SubSeq(Cells(s, c, ENC_HEADER_LEN), 1, ENC_CT_LEN))
       /\ u.plain = <<s, Len(list)>>
  /\ u.label \in {"block-header", "block"} =>
       /\ Len(u.under) + 1 <= Len(m)
       /\ u.under = SubSeq(m, 1, Len(u.under))
       /\ m[Len(u.under) + 1] = <<"seal", u.label, u.plain>>

EncryptHistories ==
  \A s \in Sessions : epc[s] # "idle" =>
    /\ History(message[s], s, Base(s), blocks[s])
    /\ HistoryLength(s)
    /\ \A c \in 1..Len(sent[s]) : SealedIn(sent[s][c], c, s, message[s], receivers[s])

\* The headers decrypt has read are counted by its protocol; the one it opened
\* was for this receiver and from the claimed sender, and told the number of
\* headers.
HeadersLockstep ==
  /\ Len(dmsg) >= 2 /\ dmsg[2] = <<"mix", "sender", claimed>>
  /\ dpc = "headers" => Len(dmsg) = i + 2
  /\ dek = NoDek => \/ dpc \in {"headers", "InvalidCiphertext"}
                    \/ IoErrors /\ dpc = "ReadIo"
  /\ dek # NoDek => /\ epc[dek] # "idle"
                    /\ Addressed(dek)
                    /\ recvCount = Len(receivers[dek])
                    /\ dpc = "headers" => i < recvCount

\* From the first block header it opens, decrypt's protocol is a beginning of the
\* one of the encryption whose DEK it holds, two operations ahead for each
\* block released.
BlocksLockstep ==
  dpc \in {"block-header", "block", "sig"} =>
    /\ Len(dmsg) = Base(dek) + 2 * Len(out) +
                     (IF dpc = "block-header" THEN 0 ELSE IF dpc = "block" THEN 1 ELSE 2)
    /\ dmsg[Base(dek)] = <<"mix", "dek", dek>>
    /\ Len(dmsg) > Base(dek) => /\ Len(dmsg) <= Len(message[dek])
                                /\ dmsg = SubSeq(message[dek], 1, Len(dmsg))
    /\ dpc = "block" => dmsg[Len(dmsg)] = <<"seal", "block-header", hdr>>

\* What was released, block by block.
ReleasedLockstep ==
  /\ (dek = NoDek \/ dpc = "headers") => out = << >> /\ torn = << >>
  /\ dek # NoDek =>
       /\ Len(out) <= Len(blocks[dek])
       /\ \A k \in 1..Len(out) : out[k] = blocks[dek][k]
       /\ torn # << >> => /\ dpc = "WriteIo"
                          /\ Len(out) < Len(blocks[dek])
                          /\ IsPrefix(torn, blocks[dek][Len(out) + 1])

\* Encryption and decryption in lockstep: an invariant that every step keeps,
\* with TypeOK and LoopsOK.
Lockstep ==
  LoopsOK /\ EncryptHistories /\ HeadersLockstep /\ BlocksLockstep /\ ReleasedLockstep

-----------------------------------------------------------------------------
\* What a block can hold.
Blocks == UNION {{SubSeq(p, k, m) : k, m \in 1..Len(p)} :
                   p \in UNION {Plaintexts[s] : s \in Sessions}}

Abstract ==
  INSTANCE AuthenticMessage WITH
    Texts    <- Sessions,
    People   <- Keys,
    Pieces   <- Blocks,
    Nobody   <- NoDek,
    author   <- sender,
    readers  <- [s \in Sessions |-> Range(receivers[s]) \ {Fake}],
    text     <- blocks,
    finished <- {s \in Sessions : epc[s] = "Ok"},
    reader   <- receiver,
    trusted  <- claimed,
    chosen   <- dek,
    shown    <- out,
    verdict  <- IF dpc = "Ok" THEN "accepted"
                ELSE IF dpc \in DecryptEnded THEN "rejected" ELSE "pending"

\* Encryption, the stream with whatever befalls it, and decryption implement
\* AuthenticMessage.
ImplementsAuthenticMessage == Abstract!Spec

-----------------------------------------------------------------------------
\* veil.rs documents of SecretKey::decrypt: `If the ciphertext has been
\* modified ... returns an InvalidCiphertext error', and read and write errors
\* otherwise: it returns.
NeverPanics == dpc # "Panic"
=============================================================================
