------------------------ MODULE VeilMessageComplete -------------------------
(***************************************************************************)
(* decrypt returns Ok only for a message that arrived whole and as it was  *)
(* written, the headers of others and the fakes included: all the bytes    *)
(* before the DEK are in the history the blocks are sealed under, each     *)
(* block tells where it stands, and the signature, made when all was       *)
(* written, is read to the end of the stream. So the steps of the two      *)
(* programs implement AuthenticMessage.                                    *)
(*                                                                         *)
(* A message that arrives as it was written is decrypted by each of its    *)
(* receivers. The chunks of a session follow one another in the order in   *)
(* which decrypt looks for them; on a stream that nobody disturbed they    *)
(* stand where it looks for them; and its protocol is at each of them in   *)
(* the state that the chunk was sealed under. So it opens a header that is *)
(* for it, every block and the signature, and finds the stream long enough *)
(* for each of them.                                                       *)
(***************************************************************************)
EXTENDS VeilMessageSafety, WellFoundedInduction

\* The c-th chunk u of a session with history m stands in the message where its
\* history says: a header is mixed in whole, a seal comes after two operations
\* that no chunk is written for and the DEK.
PlacedIn(u, c, s, m, list) ==
  /\ u.n \in Nat \ {0}
  /\ c <= Len(list) => /\ u.n = ENC_HEADER_LEN
                       /\ c + 2 <= Len(m)
                       /\ m[c + 2] = <<"mix", "header", Cells(s, c, ENC_HEADER_LEN)>>
  /\ u.label \in {"block-header", "block"} => Len(u.under) = c + 2

\* A signature is the last chunk, of all of the history.
SignedIn(u, c, s) ==
  u.label = "signature" =>
    /\ c = Len(sent[s]) /\ epc[s] \in {"Ok", "WriteIo"}
    /\ u.n = SIG_LEN /\ u.plain = <<sender[s], message[s]>>
    /\ Len(message[s]) = Base(s) + 2 * Len(blocks[s]) + 2
    /\ Len(message[s]) = c + 2

AfterHeaders == {"read", "block-header", "block", "padding-header", "padding", "sign"}

WrittenOf(s) ==
  /\ epc[s] \in AfterHeaders => Len(message[s]) = Len(sent[s]) + 3
  /\ \A c \in 1..Len(sent[s]) : /\ PlacedIn(sent[s][c], c, s, message[s], receivers[s])
                                /\ SignedIn(sent[s][c], c, s)

\* A byte of the stream was written, if it is not noise; and the last byte of a chunk
\* whose write failed was not.
Came(x) ==
  x # Noise =>
    /\ x.chunk \in 1..Len(sent[x.from])
    /\ x.byte \in 1..sent[x.from][x.chunk].n
    /\ epc[x.from] = "WriteIo" /\ x.chunk = Len(sent[x.from])
         => x.byte < sent[x.from][x.chunk].n

Written ==
  /\ \A s \in Sessions : WrittenOf(s)
  /\ \A q \in 1..Len(wire) : Came(wire[q])

\* Before decrypt has opened anything under the DEK, its history holds the bytes of
\* the stream that it took for headers.
HeadersAsRead ==
  dpc = "headers" \/ (dpc = "block-header" /\ Len(dmsg) = Base(dek)) =>
    /\ pos = i * ENC_HEADER_LEN
    /\ \A q \in 1..i :
         dmsg[q + 2] = <<"mix", "header", SubSeq(wire, (q - 1) * ENC_HEADER_LEN + 1,
                                                       q * ENC_HEADER_LEN)>>
    /\ dpc = "block-header" => i = Len(receivers[dek])

\* After it has, all it has read is what that session wrote.
BlocksAsWritten ==
  dpc \in {"block-header", "block", "sig"} /\ Len(dmsg) > Base(dek) =>
    Len(dmsg) - 3 \in 1..Len(sent[dek]) /\ InOrder(dek, pos, Len(dmsg) - 3)

BytesReleased ==
  dwritten = IF out = << >> THEN 0 ELSE (Len(out) - 1) * BLOCK_LEN + Len(out[Len(out)])

\* The inductive invariant, with TypeOK, Lockstep and Tally.
Complete ==
  /\ Written /\ HeadersAsRead /\ BlocksAsWritten /\ BytesReleased
  /\ dpc = "Ok" => Closed /\ OkIsComplete

-----------------------------------------------------------------------------
(* What an encryption writes.                                              *)

LEMMA PlacedInExtension ==
  ASSUME NEW m \in Seq(Op), NEW m2 \in Seq(Op), Extends(m2, m), NEW u, NEW c \in Nat,
         NEW s, NEW list, PlacedIn(u, c, s, m, list)
  PROVE  PlacedIn(u, c, s, m2, list)
BY DEF PlacedIn, Extends

\* A step that writes a chunk in its place.
LEMMA WriteWritten ==
  ASSUME TypeOK, NEW s \in Sessions, WrittenOf(s), epc[s] \notin {"Ok", "WriteIo"},
         NEW chunk \in WriteUnit, NEW pc, Write(s, chunk, pc),
         NEW m2 \in Seq(Op), message'[s] = m2, Extends(m2, message[s]),
         receivers'[s] = receivers[s],
         PlacedIn(chunk, Len(sent[s]) + 1, s, m2, receivers[s]),
         chunk.label = "signature" =>
           /\ epc'[s] \in {"Ok", "WriteIo"}
           /\ chunk.n = SIG_LEN /\ chunk.plain = <<sender'[s], m2>>
           /\ Len(m2) = Base(s)' + 2 * Len(blocks'[s]) + 2
           /\ Len(m2) = Len(sent[s]) + 3,
         epc'[s] \in AfterHeaders => Len(m2) = Len(sent[s]) + 4
  PROVE  WrittenOf(s)'
<1> DEFINE n == Len(sent[s])
<1>1. sent[s] \in Seq(WriteUnit) /\ message[s] \in Seq(Op) /\ n \in Nat
  BY DEF TypeOK, WireTypeOK, EncryptTypeOK
<1>2. sent'[s] = Append(sent[s], chunk)  BY WriteEffect
<1>3. /\ Len(sent'[s]) = n + 1 /\ sent'[s][n + 1] = chunk
      /\ \A c \in 1..n : sent'[s][c] = sent[s][c]
  BY <1>1, <1>2, AppendExtends DEF Extends
<1>4. ASSUME NEW c \in 1..n
      PROVE  /\ PlacedIn(sent'[s][c], c, s, m2, receivers[s])
             /\ sent'[s][c].label # "signature"
  <2>1. PlacedIn(sent[s][c], c, s, message[s], receivers[s])  BY DEF WrittenOf
  <2>2. sent[s][c].label # "signature"  BY DEF WrittenOf, SignedIn
  <2>3. c \in Nat  BY <1>1
  <2>4. PlacedIn(sent[s][c], c, s, m2, receivers[s])
    BY <1>1, <2>1, <2>3, PlacedInExtension
  <2>5. QED  BY <1>3, <2>2, <2>4
<1>5. ASSUME NEW c \in 1..(n + 1)
      PROVE  /\ PlacedIn(sent'[s][c], c, s, m2, receivers'[s])
             /\ SignedIn(sent[s][c], c, s)'
  <2>1. CASE c \in 1..n  BY <1>4, <2>1 DEF SignedIn
  <2>2. CASE c = n + 1  BY <1>1, <1>3, <2>2 DEF SignedIn
  <2>3. QED  BY <1>1, <2>1, <2>2
<1>6. PlacedIn(sent'[s][n + 1], n + 1, s, m2, receivers'[s])
  BY <1>3
<1>7. \A c \in 1..(n + 1) : PlacedIn(sent[s][c], c, s, message[s], receivers[s])'
  BY <1>5 DEF PlacedIn
<1>8. QED  BY <1>1, <1>3, <1>5, <1>7 DEF WrittenOf

LEMMA EncryptWritten ==
  ASSUME TypeOK, LoopsOK, NEW s \in Sessions, Encrypt(s)
  PROVE  WrittenOf(s)'
<1>1. PICK shuffled \in Seq(Keys \union {Fake}) :
        /\ message' = [message EXCEPT ![s] =
                         IF shuffled = << >> THEN Keyed(Start(sender[s]), s)
                         ELSE Start(sender[s])]
        /\ epc' = [epc EXCEPT ![s] = IF shuffled = << >> THEN "read" ELSE "headers"]
  BY EncryptEffect
<1>2. sent' = sent /\ sent[s] = << >>  BY DEF Encrypt, wireVars, LoopsOK
<1>3. /\ sender[s] \in Keys /\ DOMAIN message = Sessions /\ DOMAIN epc = Sessions
  BY DEF TypeOK, EncryptTypeOK
<1>4. Len(Keyed(Start(sender[s]), s)) = 3  BY <1>3, HistoryStart
<1>5. epc'[s] \in AfterHeaders => Len(message'[s]) = 3
  BY <1>1, <1>3, <1>4 DEF AfterHeaders
<1>6. Len(sent'[s]) = 0  BY <1>2
<1>7. QED  BY <1>5, <1>6 DEF WrittenOf

LEMMA ReadBlockWritten ==
  ASSUME TypeOK, NEW s \in Sessions, WrittenOf(s), ReadBlock(s)
  PROVE  WrittenOf(s)'
<1>1. epc[s] = "read" /\ UNCHANGED <<message, receivers, sent>>
  BY DEF ReadBlock, wireVars
<1>2. Len(message[s]) = Len(sent[s]) + 3  BY <1>1 DEF WrittenOf, AfterHeaders
<1>3. \A c \in 1..Len(sent[s]) : sent[s][c].label # "signature"
  BY <1>1 DEF WrittenOf, SignedIn
<1>4. \A c \in 1..Len(sent[s]) : PlacedIn(sent[s][c], c, s, message[s], receivers[s])'
  BY <1>1 DEF WrittenOf, PlacedIn
<1>5. QED  BY <1>1, <1>2, <1>3, <1>4 DEF WrittenOf, SignedIn

\* An encryption past its headers has a history that holds them.
LEMMA PastHeaders ==
  ASSUME TypeOK, NEW s \in Sessions, SessionOK(s), epc[s] \in AfterHeaders, LoopsOK
  PROVE  /\ Len(message[s]) >= Base(s) /\ Len(message[s]) \in Nat /\ Base(s) \in Nat
         /\ Base(s) = Len(receivers[s]) + 3 /\ Len(receivers[s]) \in Nat
<1>1. /\ message[s] \in Seq(Op) /\ receivers[s] \in Seq(Keys \union {Fake})
      /\ blocks[s] \in Seq(Seq(Byte))
  BY DEF TypeOK, EncryptTypeOK
<1>2. epc[s] \in {"block-header", "block"} => Len(blocks[s]) >= 1
  BY <1>1, EmptySeq DEF LoopsOK
<1>3. Base(s) = Len(receivers[s]) + 3  BY DEF Base
<1>4. Len(message[s]) \in Nat /\ Len(blocks[s]) \in Nat /\ Len(receivers[s]) \in Nat
  BY <1>1
<1>5. HistoryLength(s)  BY DEF SessionOK
<1> DEFINE b == Base(s)
           k == Len(blocks[s])
           n == Len(message[s])
<1>6. k \in Nat /\ n \in Nat /\ b \in Nat  BY <1>3, <1>4
<1>7. n >= b + 2 * k \/ (k >= 1 /\ n >= b + 2 * k - 2)
  <2>1. CASE epc[s] = "block-header"  BY <1>2, <1>5, <1>6, <2>1 DEF HistoryLength
  <2>2. CASE epc[s] = "block"  BY <1>2, <1>5, <1>6, <2>2 DEF HistoryLength
  <2>3. CASE epc[s] = "padding"  BY <1>5, <1>6, <2>3 DEF HistoryLength
  <2>4. CASE epc[s] = "sign"  BY <1>5, <1>6, <2>4 DEF HistoryLength
  <2>5. CASE epc[s] \in {"read", "padding-header"}  BY <1>5, <1>6, <2>5 DEF HistoryLength
  <2>6. QED  BY <2>1, <2>2, <2>3, <2>4, <2>5 DEF AfterHeaders
<1> HIDE DEF b, k, n
<1>8. n >= b  BY <1>6, <1>7
<1>9. QED  BY <1>3, <1>4, <1>6, <1>8 DEF b, n

LEMMA SealWritten ==
  ASSUME TypeOK, LoopsOK, NEW s \in Sessions, SessionOK(s), WrittenOf(s),
         epc[s] \in AfterHeaders, NEW label \in {"block-header", "block"},
         NEW plaintext, NEW len \in Nat, NEW pc,
         \/ label = "block-header" /\ plaintext \in {"Data", "Padding"} \X Nat
         \/ label = "block" /\ plaintext \in Seq(Byte \union {Noise}),
         SealAndWrite(s, label, plaintext, len, pc)
  PROVE  WrittenOf(s)'
<1> DEFINE m     == message[s]
           e     == <<"seal", label, plaintext>>
           m2    == Append(m, e)
           chunk == Ciphertext(m, label, plaintext, len + TAG_LEN)
           n     == Len(sent[s])
<1>1. /\ Write(s, chunk, pc) /\ message' = [message EXCEPT ![s] = m2]
      /\ UNCHANGED <<sender, receivers, blocks>>
  BY DEF SealAndWrite, Sealed
<1>2. m \in Seq(Op) /\ DOMAIN message = Sessions /\ sent[s] \in Seq(WriteUnit) /\ n \in Nat
  BY DEF TypeOK, EncryptTypeOK, WireTypeOK
<1>3. TAG_LEN \in Nat \ {0} /\ len + TAG_LEN \in Nat \ {0}  BY LengthsAssumption
<1>4. e \in Op  BY DEF Op
<1>5. chunk \in WriteUnit
  BY <1>2, <1>3 DEF Ciphertext, WriteUnit, CiphertextOf
<1>6. /\ chunk.n = len + TAG_LEN /\ chunk.label = label /\ chunk.under = m
  BY DEF Ciphertext
<1> HIDE DEF e, chunk
<1>7. /\ m2 \in Seq(Op) /\ Len(m2) = Len(m) + 1 /\ Extends(m2, m)
  BY <1>2, <1>4, AppendExtends
<1>8. Len(m) = n + 3 /\ n + 1 > Len(receivers[s])
  <2>1. Len(m) = n + 3  BY DEF WrittenOf
  <2>2. /\ Len(m) >= Base(s) /\ Len(m) \in Nat /\ Base(s) = Len(receivers[s]) + 3
        /\ Len(receivers[s]) \in Nat
    BY PastHeaders DEF AfterHeaders
  <2>3. QED  BY <1>2, <2>1, <2>2
<1>9. PlacedIn(chunk, n + 1, s, m2, receivers[s])
  <2>1. ~(n + 1 <= Len(receivers[s]))
    <3>1. Len(receivers[s]) \in Nat  BY PastHeaders DEF AfterHeaders
    <3>2. QED  BY <1>2, <1>8, <3>1
  <2>2. Len(chunk.under) = n + 1 + 2  BY <1>2, <1>6, <1>8
  <2>3. QED  BY <1>3, <1>6, <2>1, <2>2 DEF PlacedIn
<1>10. message'[s] = m2 /\ receivers'[s] = receivers[s] /\ Len(m2) = n + 4
  BY <1>1, <1>2, <1>7, <1>8
<1>11. chunk.label # "signature" /\ epc[s] \notin {"Ok", "WriteIo"}
  BY <1>6 DEF AfterHeaders
<1> HIDE DEF m2, m
<1>12. m2 \in Seq(Op) /\ Extends(m2, message[s])  BY <1>7 DEF m
<1>13. QED  BY <1>1, <1>5, <1>9, <1>10, <1>11, <1>12, WriteWritten

LEMMA WriteHeaderWritten ==
  ASSUME TypeOK, LoopsOK, NEW s \in Sessions, SessionOK(s), WrittenOf(s), WriteHeader(s)
  PROVE  WrittenOf(s)'
<1> DEFINE k     == Len(sent[s]) + 1
           n     == Len(receivers[s])
           m     == message[s]
           e     == <<"mix", "header", Cells(s, k, ENC_HEADER_LEN)>>
           mixed == Mix(m, "header", Cells(s, k, ENC_HEADER_LEN))
           m2    == IF k = n THEN Keyed(mixed, s) ELSE mixed
           pc    == IF k = n THEN "read" ELSE "headers"
<1>1. /\ epc[s] = "headers" /\ Len(sent[s]) < Len(receivers[s])
      /\ Len(m) = Len(sent[s]) + 2
  BY DEF WriteHeader, LoopsOK, SessionOK, HistoryLength
<1>2. PICK chunk \in WriteUnit :
        /\ Write(s, chunk, pc)
        /\ chunk.label \in {"random", "header"} /\ chunk.n = ENC_HEADER_LEN
        /\ message' = [message EXCEPT ![s] = m2] /\ m2 \in Seq(Op)
        /\ UNCHANGED <<sender, receivers, plain, read, blocks>>
  BY <1>1, WriteHeaderEffect
<1>3. /\ m \in Seq(Op) /\ Len(m) \in Nat /\ k \in Nat /\ n \in Nat
      /\ Len(sent[s]) \in Nat /\ DOMAIN message = Sessions
  BY DEF TypeOK, EncryptTypeOK, WireTypeOK
<1>4. e \in Op /\ mixed = Append(m, e)
  <2>1. Cells(s, k, ENC_HEADER_LEN) \in Seq(Cell)  BY <1>3, CellsType, EncLengthsType
  <2>2. QED  BY <2>1 DEF Op, Mix
<1>5. epc'[s] \in {pc, "WriteIo"}  BY <1>2, WriteEffect
<1> HIDE DEF e, mixed
<1>6. /\ mixed \in Seq(Op) /\ Len(mixed) = k + 2 /\ Extends(mixed, m)
      /\ mixed[k + 2] = e
  <2>1. /\ Append(m, e) \in Seq(Op) /\ Len(Append(m, e)) = Len(m) + 1
        /\ Extends(Append(m, e), m) /\ Append(m, e)[Len(m) + 1] = e
    BY <1>3, <1>4, AppendExtends
  <2>2. Len(m) + 1 = k + 2  BY <1>1, <1>3
  <2>3. QED  BY <1>4, <2>1, <2>2
<1>7. /\ Len(Keyed(mixed, s)) = k + 3 /\ Extends(Keyed(mixed, s), m)
      /\ Keyed(mixed, s)[k + 2] = e
  <2> DEFINE d == <<"mix", "dek", s>>
  <2>1. d \in Op /\ Keyed(mixed, s) = Append(mixed, d)  BY DEF Op, Keyed, Mix
  <2> HIDE DEF d
  <2>2. /\ Append(mixed, d) \in Seq(Op) /\ Len(Append(mixed, d)) = Len(mixed) + 1
        /\ Extends(Append(mixed, d), mixed)
    BY <1>6, <2>1, AppendExtends
  <2>3. Extends(Append(mixed, d), m)  BY <1>3, <1>6, <2>2, ExtendsTransitive
  <2>4. k + 2 \in 1..Len(mixed)  BY <1>3, <1>6
  <2>5. Append(mixed, d)[k + 2] = e  BY <1>6, <2>2, <2>4 DEF Extends
  <2>6. Len(mixed) + 1 = k + 3  BY <1>3, <1>6
  <2>7. QED  BY <2>1, <2>2, <2>3, <2>5, <2>6
<1>8. /\ Extends(m2, m) /\ k + 2 <= Len(m2) /\ m2[k + 2] = e
      /\ k = n => Len(m2) = Len(sent[s]) + 4
  <2>1. CASE k = n  BY <1>3, <1>7, <2>1
  <2>2. CASE k # n  BY <1>3, <1>6, <2>2
  <2>3. QED  BY <2>1, <2>2
<1>9. message'[s] = m2 /\ receivers'[s] = receivers[s]  BY <1>2, <1>3
<1> HIDE DEF m2
<1>10. PlacedIn(chunk, Len(sent[s]) + 1, s, m2, receivers[s])
  <2>1. chunk.n \in Nat \ {0}  BY <1>2, EncLengthsType
  <2>2. chunk.label \notin {"block-header", "block"}  BY <1>2
  <2>3. QED  BY <1>2, <1>8, <2>1, <2>2 DEF PlacedIn, e
<1>11. epc'[s] \in AfterHeaders => Len(m2) = Len(sent[s]) + 4
  BY <1>5, <1>8 DEF AfterHeaders
<1>12. m2 \in Seq(Op) /\ Extends(m2, message[s]) /\ Write(s, chunk, pc)
       /\ chunk.label # "signature" /\ epc[s] \notin {"Ok", "WriteIo"}
  BY <1>1, <1>2, <1>8
<1> HIDE DEF pc, k, m
<1>13. QED  BY <1>9, <1>10, <1>11, <1>12, WriteWritten

LEMMA WriteSignatureWritten ==
  ASSUME TypeOK, LoopsOK, NEW s \in Sessions, SessionOK(s), WrittenOf(s), WriteSignature(s)
  PROVE  WrittenOf(s)'
<1> DEFINE m     == message[s]
           chunk == Ciphertext(SignedProtocol(m), "signature", <<sender[s], m>>, SIG_LEN)
<1>1. /\ Write(s, chunk, "Ok") /\ UNCHANGED <<sender, receivers, message, blocks>>
      /\ epc[s] = "sign"
  BY DEF WriteSignature, sign_protocol
<1>2. /\ m \in Seq(Op) /\ sender[s] \in Keys /\ SIG_LEN \in Nat \ {0}
      /\ Len(sent[s]) \in Nat
  BY LengthsAssumption DEF TypeOK, EncryptTypeOK, WireTypeOK
<1>3. SignedProtocol(m) \in Seq(Op)  BY <1>2, SignedProtocolType
<1>4. /\ Len(m) = Len(sent[s]) + 3 /\ Len(m) = Base(s) + 2 * Len(blocks[s]) + 2
      /\ Len(m) >= Base(s) /\ Base(s) = Len(receivers[s]) + 3 /\ Len(receivers[s]) \in Nat
  BY <1>1, PastHeaders DEF WrittenOf, SessionOK, HistoryLength, AfterHeaders
<1> HIDE DEF m
<1>5. /\ chunk \in WriteUnit /\ chunk.label = "signature" /\ chunk.n = SIG_LEN
      /\ chunk.plain = <<sender[s], m>>
  BY <1>2, <1>3 DEF Ciphertext, WriteUnit, CiphertextOf
<1> HIDE DEF chunk
<1>6. PlacedIn(chunk, Len(sent[s]) + 1, s, m, receivers[s])
  <2>1. ~(Len(sent[s]) + 1 <= Len(receivers[s]))  BY <1>2, <1>4
  <2>2. QED  BY <1>2, <1>5, <2>1 DEF PlacedIn
<1>7. Extends(m, message[s]) /\ message'[s] = m  BY <1>1, <1>2, ExtendsReflexive DEF m
<1>8. epc'[s] \in {"Ok", "WriteIo"}  BY <1>1, WriteEffect
<1>9. /\ Base(s)' = Base(s) /\ blocks'[s] = blocks[s] /\ sender'[s] = sender[s]
      /\ receivers'[s] = receivers[s]
  BY <1>1 DEF Base
<1>10. epc'[s] \notin AfterHeaders  BY <1>8 DEF AfterHeaders
<1>11. epc[s] \notin {"Ok", "WriteIo"}  BY <1>1
<1>12. QED
  BY <1>1, <1>2, <1>4, <1>5, <1>6, <1>7, <1>8, <1>9, <1>10, <1>11, WriteWritten

LEMMA WriterWritten ==
  ASSUME TypeOK, LoopsOK, EncryptHistories, NEW s \in Sessions, Writer(s),
         \A t \in Sessions : WrittenOf(t)
  PROVE  \A t \in Sessions : WrittenOf(t)'
<1>1. sender' = sender
  BY DEF Writer, EncryptStep, Encrypt, WriteHeader, ReadBlock, WriteBlockHeader,
         WriteBlock, WritePaddingHeader, WritePadding, WriteSignature, SealAndWrite
<1>2. ASSUME NEW t \in Sessions \ {s}
      PROVE  WrittenOf(t)'
  <2>1. /\ epc'[t] = epc[t] /\ message'[t] = message[t] /\ receivers'[t] = receivers[t]
        /\ blocks'[t] = blocks[t] /\ sent'[t] = sent[t]
    BY OtherSessions
  <2>2. Base(t)' = Base(t)  BY <2>1 DEF Base
  <2>3. \A c \in 1..Len(sent[t]) : SignedIn(sent[t][c], c, t)'
    BY <1>1, <2>1, <2>2 DEF WrittenOf, SignedIn
  <2>4. \A c \in 1..Len(sent[t]) : PlacedIn(sent[t][c], c, t, message[t], receivers[t])'
    BY <2>1 DEF WrittenOf, PlacedIn
  <2>5. QED  BY <2>1, <2>3, <2>4 DEF WrittenOf
<1>3. epc[s] # "idle" => SessionOK(s)  BY DEF EncryptHistories, SessionOK
<1>4. WrittenOf(s)'
  <2>1. CASE Encrypt(s)  BY <2>1, EncryptWritten
  <2>2. CASE WriteHeader(s)  BY <1>3, <2>2, WriteHeaderWritten DEF WriteHeader
  <2>3. CASE ReadBlock(s)  BY <2>3, ReadBlockWritten
  <2>4. CASE \/ WriteBlockHeader(s) \/ WriteBlock(s)
             \/ WritePaddingHeader(s) \/ WritePadding(s)
    <3>0. PICK label \in {"block-header", "block"}, len \in Nat,
               pc \in {"read", "block", "padding-header", "padding", "sign"} :
            \E plaintext :
              /\ \/ label = "block-header" /\ plaintext \in {"Data", "Padding"} \X Nat
                 \/ label = "block" /\ plaintext \in Seq(Byte \union {Noise})
              /\ SealAndWrite(s, label, plaintext, len, pc)
      BY <2>4, SealsAreTyped
    <3>1. PICK plaintext :
            /\ \/ label = "block-header" /\ plaintext \in {"Data", "Padding"} \X Nat
               \/ label = "block" /\ plaintext \in Seq(Byte \union {Noise})
            /\ SealAndWrite(s, label, plaintext, len, pc)
      BY <3>0
    <3>2. epc[s] \in AfterHeaders /\ epc[s] # "idle"
      BY <2>4 DEF WriteBlockHeader, WriteBlock, WritePaddingHeader, WritePadding,
                  AfterHeaders
    <3>3. QED  BY <1>3, <3>1, <3>2, SealWritten
  <2>5. CASE WriteSignature(s)  BY <1>3, <2>5, WriteSignatureWritten DEF WriteSignature
  <2>6. QED  BY <2>1, <2>2, <2>3, <2>4, <2>5 DEF Writer, EncryptStep
<1>5. QED  BY <1>2, <1>4

-----------------------------------------------------------------------------
(* The stream.                                                             *)

\* A step of an encryption writes one chunk, or fails to, or leaves the stream alone.
LEMMA WriterWrites ==
  ASSUME NEW s \in Sessions, Writer(s), TypeOK
  PROVE  /\ epc[s] \notin EncryptEnded
         /\ \/ UNCHANGED <<sent, wire>> /\ epc'[s] # "WriteIo"
            \/ \E chunk, pc : pc # "WriteIo" /\ Write(s, chunk, pc)
<1>1. CASE Encrypt(s)
  <2>1. \E pc : pc # "WriteIo" /\ epc' = [epc EXCEPT ![s] = pc]
    BY <1>1 DEF Encrypt
  <2>2. DOMAIN epc = Sessions  BY DEF TypeOK, EncryptTypeOK
  <2>3. QED  BY <1>1, <2>1, <2>2 DEF Encrypt, wireVars, EncryptEnded
<1>2. CASE ReadBlock(s)
  <2>1. \E pc : pc # "WriteIo" /\ epc' = [epc EXCEPT ![s] = pc]
    BY <1>2, ReadBlockEffect
  <2>2. DOMAIN epc = Sessions  BY DEF TypeOK, EncryptTypeOK
  <2>3. QED  BY <1>2, <2>1, <2>2 DEF ReadBlock, wireVars, EncryptEnded
<1>3. CASE WriteHeader(s)
  BY <1>3 DEF WriteHeader, EncryptEnded
<1>4. CASE WriteBlockHeader(s)
  BY <1>4 DEF WriteBlockHeader, SealAndWrite, EncryptEnded
<1>5. CASE WriteBlock(s)
  BY <1>5 DEF WriteBlock, SealAndWrite, EncryptEnded
<1>6. CASE WritePaddingHeader(s)
  BY <1>6 DEF WritePaddingHeader, SealAndWrite, EncryptEnded
<1>7. CASE WritePadding(s)
  BY <1>7 DEF WritePadding, SealAndWrite, EncryptEnded
<1>8. CASE WriteSignature(s)
  BY <1>8 DEF WriteSignature, EncryptEnded
<1>9. QED  BY <1>1, <1>2, <1>3, <1>4, <1>5, <1>6, <1>7, <1>8 DEF Writer, EncryptStep

\* What came stays what was written as its session goes on writing.
LEMMA CameStays ==
  ASSUME TypeOK, NEW s \in Sessions, epc[s] # "WriteIo", NEW chunk \in WriteUnit,
         sent'[s] = Append(sent[s], chunk),
         \A t \in Sessions \ {s} : epc'[t] = epc[t] /\ sent'[t] = sent[t],
         NEW q \in 1..Len(wire), Came(wire[q]), wire'[q] = wire[q]
  PROVE  Came(wire[q])'
<1> DEFINE x == wire[q]
           n == Len(sent[s])
<1>1. SUFFICES ASSUME x # Noise
               PROVE  /\ x.chunk \in 1..Len(sent'[x.from])
                      /\ x.byte \in 1..sent'[x.from][x.chunk].n
                      /\ epc'[x.from] = "WriteIo" /\ x.chunk = Len(sent'[x.from])
                           => x.byte < sent'[x.from][x.chunk].n
  BY DEF Came
<1>2. /\ x.chunk \in 1..Len(sent[x.from])
      /\ x.byte \in 1..sent[x.from][x.chunk].n
      /\ epc[x.from] = "WriteIo" /\ x.chunk = Len(sent[x.from])
           => x.byte < sent[x.from][x.chunk].n
  BY <1>1 DEF Came
<1>3. x \in Cell /\ x.from \in Sessions  BY <1>1 DEF TypeOK, WireTypeOK, Cell
<1> HIDE DEF x
<1>4. CASE x.from # s  BY <1>2, <1>3, <1>4
<1>5. CASE x.from = s
  <2>1. sent[s] \in Seq(WriteUnit) /\ n \in Nat  BY DEF TypeOK, WireTypeOK
  <2>2. Len(sent'[s]) = n + 1 /\ \A c \in 1..n : sent'[s][c] = sent[s][c]
    BY <2>1, AppendExtends DEF Extends
  <2>3. x.chunk \in 1..n  BY <1>2, <1>5
  <2>4. x.chunk # n + 1 /\ x.chunk \in 1..(n + 1)  BY <2>1, <2>3
  <2> HIDE DEF n
  <2>5. QED  BY <1>2, <1>5, <2>2, <2>3, <2>4
<1>6. QED  BY <1>4, <1>5

LEMMA WriteStream ==
  ASSUME TypeOK, NEW s \in Sessions, epc[s] # "WriteIo",
         NEW chunk \in WriteUnit, NEW pc, pc # "WriteIo", Write(s, chunk, pc),
         \A q \in 1..Len(wire) : Came(wire[q])
  PROVE  /\ \A q \in 1..Len(wire') : Came(wire[q])'
         /\ Extends(wire', wire)
<1> DEFINE c == Len(sent[s]) + 1
           n == chunk.n
           cells == Cells(s, c, n)
           L == Len(wire)
<1>1. /\ sent[s] \in Seq(WriteUnit) /\ wire \in Seq(Cell) /\ DOMAIN epc = Sessions
      /\ c \in Nat \ {0} /\ n \in Nat /\ L \in Nat /\ sent \in [Sessions -> Seq(WriteUnit)]
  <2>1. n \in Nat  BY DEF WriteUnit, CiphertextOf
  <2>2. sent \in [Sessions -> Seq(WriteUnit)] /\ wire \in Seq(Cell) /\ DOMAIN epc = Sessions
    BY DEF TypeOK, WireTypeOK, EncryptTypeOK
  <2>3. sent[s] \in Seq(WriteUnit)  BY <2>2
  <2>4. QED  BY <2>1, <2>2, <2>3
<1>2. /\ cells \in Seq(Cell) /\ Len(cells) = n
      /\ \A j \in 1..n : cells[j] = [from |-> s, chunk |-> c, byte |-> j]
  BY <1>1, CellsType DEF Cells
<1>3. sent'[s] = Append(sent[s], chunk)
      /\ \A t \in Sessions \ {s} : epc'[t] = epc[t] /\ sent'[t] = sent[t]
  BY WriteEffect
<1>4. Len(sent'[s]) = c /\ sent'[s][c] = chunk
  BY <1>1, <1>3, AppendExtends
<1> HIDE DEF cells
<1>5. PICK k \in 0..n, w \in Seq(Cell) :
        /\ wire' = wire \o w /\ Len(w) = k
        /\ \A j \in 1..k : w[j] = cells[j]
        /\ epc'[s] = "WriteIo" => k < n
  <2>1. CASE WriteAll(s, chunk) /\ epc' = [epc EXCEPT ![s] = pc]
    <3>1. wire' = wire \o cells  BY <2>1 DEF WriteAll, cells
    <3>2. epc'[s] # "WriteIo" /\ n \in 0..n  BY <1>1, <2>1
    <3>3. QED  BY <1>2, <3>1, <3>2
  <2>2. CASE WriteFails(s, chunk) /\ epc' = [epc EXCEPT ![s] = "WriteIo"]
    <3>1. PICK k \in 0..(n - 1) : wire' = wire \o SubSeq(cells, 1, k)
      BY <2>2 DEF WriteFails, cells
    <3>2. k \in 0..Len(cells) /\ k < n /\ k \in 0..n  BY <1>1, <1>2
    <3>3. /\ SubSeq(cells, 1, k) \in Seq(Cell) /\ Len(SubSeq(cells, 1, k)) = k
          /\ \A j \in 1..k : SubSeq(cells, 1, k)[j] = cells[j]
      BY <1>2, <3>2, PrefixElements
    <3>4. QED  BY <3>1, <3>2, <3>3
  <2>3. QED  BY <2>1, <2>2 DEF Write
<1>6. /\ Len(wire') = L + k
      /\ \A q \in 1..L : wire'[q] = wire[q]
      /\ \A q \in (L + 1)..(L + k) : wire'[q] = w[q - L]
  BY <1>1, <1>5, ConcatProperties
<1>7. ASSUME NEW q \in 1..L  PROVE  Came(wire[q])'
  BY <1>3, <1>6, CameStays
<1>8. ASSUME NEW q \in (L + 1)..(L + k)  PROVE  Came(wire[q])'
  <2> DEFINE j == q - L
  <2>1. j \in 1..k /\ j \in 1..n  BY <1>1, <1>5
  <2>2. wire'[q] = [from |-> s, chunk |-> c, byte |-> j]
    BY <1>2, <1>5, <1>6, <2>1
  <2>3. epc'[s] = "WriteIo" => j < n  BY <1>1, <1>5, <2>1
  <2> HIDE DEF j, c, n
  <2>4. /\ wire'[q].from = s /\ wire'[q].chunk = c /\ wire'[q].byte = j
    BY <2>2
  <2>5. c \in 1..Len(sent'[s])  BY <1>1, <1>4
  <2>6. QED  BY <1>4, <2>1, <2>3, <2>4, <2>5 DEF Came, n
<1>9. \A q \in 1..Len(wire') : q \in 1..L \/ q \in (L + 1)..(L + k)
  BY <1>1, <1>6
<1>10. Extends(wire', wire)  BY <1>1, <1>6 DEF Extends
<1>11. QED  BY <1>7, <1>8, <1>9, <1>10

LEMMA WriterStream ==
  ASSUME TypeOK, LoopsOK, EncryptHistories, NEW s \in Sessions, Writer(s), Written
  PROVE  /\ Written' /\ Extends(wire', wire)
         /\ \A t \in Sessions : Extends(sent'[t], sent[t])
<1>1. \A t \in Sessions : WrittenOf(t)'  BY WriterWritten DEF Written
<1>2. \A t \in Sessions \ {s} : epc'[t] = epc[t] /\ sent'[t] = sent[t]  BY OtherSessions
<1>3. sent \in [Sessions -> Seq(WriteUnit)] /\ wire \in Seq(Cell)  BY DEF TypeOK, WireTypeOK
<1>4. \A t \in Sessions : Extends(sent[t], sent[t])  BY <1>3, ExtendsReflexive
<1>5. CASE UNCHANGED <<sent, wire>> /\ epc'[s] # "WriteIo"
  <2>1. \A q \in 1..Len(wire) : wire[q] # Noise => wire[q].from \in Sessions
    BY <1>3 DEF Cell
  <2>2. \A q \in 1..Len(wire) : Came(wire[q])'
    BY <1>2, <1>5, <2>1 DEF Came, Written
  <2>3. Extends(wire', wire)  BY <1>3, <1>5, ExtendsReflexive
  <2>4. QED  BY <1>1, <1>4, <1>5, <2>2, <2>3 DEF Written
<1>6. CASE \E chunk, pc : pc # "WriteIo" /\ Write(s, chunk, pc)
  <2>1. PICK chunk, pc : pc # "WriteIo" /\ Write(s, chunk, pc)  BY <1>6
  <2>2. sent'[s] = Append(sent[s], chunk)  BY <2>1, WriteEffect
  <2>3. chunk \in WriteUnit
    <3>1. TypeOK'  BY WriterType
    <3>2. sent'[s] \in Seq(WriteUnit) /\ sent[s] \in Seq(WriteUnit)
      BY <1>3, <3>1 DEF TypeOK, WireTypeOK
    <3>3. /\ Len(sent'[s]) = Len(sent[s]) + 1 /\ sent'[s][Len(sent[s]) + 1] = chunk
      BY <2>2, <3>2
    <3>4. Len(sent[s]) + 1 \in 1..Len(sent'[s])  BY <3>2, <3>3
    <3>5. QED  BY <3>2, <3>3, <3>4
  <2>4. epc[s] # "WriteIo"  BY WriterWrites DEF EncryptEnded
  <2>5. (\A q \in 1..Len(wire') : Came(wire[q])') /\ Extends(wire', wire)
    BY <2>1, <2>3, <2>4, WriteStream DEF Written
  <2>6. Extends(sent'[s], sent[s])  BY <1>3, <2>2, <2>3, AppendExtends
  <2>7. QED  BY <1>1, <1>2, <1>4, <2>5, <2>6 DEF Written
<1>7. QED  BY <1>5, <1>6, WriterWrites

\* InOrder of any stream w and what the sessions wrote, st.
NextIn(st, x) ==
  IF x.byte < st[x.from][x.chunk].n
  THEN [x EXCEPT !.byte = @ + 1]
  ELSE [from |-> x.from, chunk |-> x.chunk + 1, byte |-> 1]

Follows(st, w, s, p, c) ==
  /\ p >= 1
  /\ w[1] = [from |-> s, chunk |-> 1, byte |-> 1]
  /\ \A q \in 2..p : w[q - 1] # Noise /\ w[q] = NextIn(st, w[q - 1])
  /\ w[p] = [from |-> s, chunk |-> c, byte |-> st[s][c].n]

\* The first p bytes of w2 are those of w, and st2 has the chunks of st, which they
\* came from.
Keeps(st, w, st2, w2, p) ==
  /\ \A q \in 1..p : w2[q] = w[q]
  /\ \A q \in 1..p : w[q] # Noise => /\ w[q].from \in Sessions
                                      /\ w[q].chunk \in 1..Len(st[w[q].from])
  /\ \A t \in Sessions : \A k \in 1..Len(st[t]) : st2[t][k] = st[t][k]

LEMMA FollowsKept ==
  ASSUME NEW st, NEW st2, NEW w, NEW w2, NEW s \in Sessions, NEW p \in Nat, NEW c,
         Follows(st, w, s, p, c), c \in 1..Len(st[s]), Keeps(st, w, st2, w2, p)
  PROVE  Follows(st2, w2, s, p, c)
<1>1. p >= 1 /\ 1 \in 1..p /\ p \in 1..p  BY DEF Follows
<1>2. w2[1] = [from |-> s, chunk |-> 1, byte |-> 1]  BY <1>1 DEF Follows, Keeps
<1>3. w2[p] = [from |-> s, chunk |-> c, byte |-> st2[s][c].n]
  BY <1>1 DEF Follows, Keeps
<1>4. ASSUME NEW q \in 2..p
      PROVE  w2[q - 1] # Noise /\ w2[q] = NextIn(st2, w2[q - 1])
  <2>1. q - 1 \in 1..p /\ q \in 1..p  OBVIOUS
  <2>2. w2[q - 1] = w[q - 1] /\ w2[q] = w[q]  BY <2>1 DEF Keeps
  <2>3. w[q - 1] # Noise /\ w[q] = NextIn(st, w[q - 1])  BY DEF Follows
  <2> DEFINE x == w[q - 1]
  <2>4. x.from \in Sessions /\ x.chunk \in 1..Len(st[x.from])
    BY <2>1, <2>3 DEF Keeps
  <2>5. st2[x.from][x.chunk] = st[x.from][x.chunk]  BY <2>4 DEF Keeps
  <2>6. NextIn(st2, x) = NextIn(st, x)  BY <2>5 DEF NextIn
  <2>7. QED  BY <2>2, <2>3, <2>6
<1>5. QED  BY <1>1, <1>2, <1>3, <1>4 DEF Follows

\* The next chunk, whole.
LEMMA FollowsExtends ==
  ASSUME NEW st, NEW w, NEW s \in Sessions, NEW p \in Nat, NEW c \in Nat \ {0},
         NEW n \in Nat \ {0}, st[s][c].n \in Nat, st[s][c + 1].n = n,
         Follows(st, w, s, p, c),
         \A j \in 1..n : w[p + j] = [from |-> s, chunk |-> c + 1, byte |-> j]
  PROVE  Follows(st, w, s, p + n, c + 1)
<1>1. p >= 1 /\ w[1] = [from |-> s, chunk |-> 1, byte |-> 1]  BY DEF Follows
<1>2. n \in 1..n /\ w[p + n] = [from |-> s, chunk |-> c + 1, byte |-> n]  OBVIOUS
<1>3. ASSUME NEW q \in 2..(p + n)
      PROVE  w[q - 1] # Noise /\ w[q] = NextIn(st, w[q - 1])
  <2>1. CASE q \in 2..p  BY <2>1 DEF Follows
  <2>2. CASE q = p + 1
    <3> DEFINE x == [from |-> s, chunk |-> c, byte |-> st[s][c].n]
    <3>1. w[q - 1] = x  BY <2>2 DEF Follows
    <3>2. x # Noise  BY KeysAssumption
    <3>3. NextIn(st, x) = [from |-> s, chunk |-> c + 1, byte |-> 1]
      <4>1. x.from = s /\ x.chunk = c /\ ~ (x.byte < st[s][c].n)  OBVIOUS
      <4> HIDE DEF x
      <4>2. QED  BY <4>1 DEF NextIn
    <3>4. 1 \in 1..n /\ w[p + 1] = [from |-> s, chunk |-> c + 1, byte |-> 1]  OBVIOUS
    <3> HIDE DEF x
    <3>5. QED  BY <2>2, <3>1, <3>2, <3>3, <3>4
  <2>3. CASE q \in (p + 2)..(p + n)
    <3> DEFINE j == q - 1 - p
               x == [from |-> s, chunk |-> c + 1, byte |-> j]
    <3>1. /\ j \in 1..n /\ j + 1 \in 1..n /\ j < n /\ j \in Nat
          /\ p + j = q - 1 /\ p + (j + 1) = q
      BY <2>3
    <3> HIDE DEF j
    <3>2. w[q - 1] = x  BY <3>1
    <3>3. w[q] = [from |-> s, chunk |-> c + 1, byte |-> j + 1]
      <4>1. w[p + (j + 1)] = [from |-> s, chunk |-> c + 1, byte |-> j + 1]  BY <3>1
      <4>2. QED  BY <3>1, <4>1
    <3>4. x # Noise  BY <3>1, KeysAssumption
    <3>5. NextIn(st, x) = [from |-> s, chunk |-> c + 1, byte |-> j + 1]
      BY <3>1 DEF NextIn
    <3> HIDE DEF x
    <3>6. QED  BY <3>2, <3>3, <3>4, <3>5
  <2>4. QED  BY <2>1, <2>2, <2>3
<1>4. QED  BY <1>1, <1>2, <1>3 DEF Follows

\* Induction, over a set.
LEMMA NaturalsFrom ==
  ASSUME NEW T, 1 \in T, \A k \in Nat \ {0} : k \in T => k + 1 \in T
  PROVE  Nat \ {0} \subseteq T
<1> DEFINE R == OpToRel(<, Nat)
           U == (Nat \ {0}) \ T
<1>1. SUFFICES ASSUME U # {} PROVE FALSE  OBVIOUS
<1>2. IsWellFoundedOn(R, Nat)  BY NatLessThanWellFounded
<1>3. \A x \in Nat, y \in Nat : <<y, x>> \in R <=> y < x  BY DEF OpToRel
<1>4. U \subseteq Nat  OBVIOUS
<1> HIDE DEF R, U
<1>5. PICK x \in U : \A y \in U : ~ (<<y, x>> \in R)  BY <1>1, <1>2, <1>4, WFMin
<1>6. x \in Nat /\ x # 0 /\ x \notin T  BY <1>5 DEF U
<1>7. x - 1 \in Nat \ {0} /\ x - 1 < x /\ x - 1 + 1 = x
  <2>1. x # 1  BY <1>6
  <2>2. QED  BY <1>6, <2>1
<1>8. x - 1 \notin U  BY <1>3, <1>4, <1>5, <1>6, <1>7
<1>9. x - 1 \in T  BY <1>7, <1>8 DEF U
<1>10. QED  BY <1>6, <1>7, <1>9

\* Headers that are all a session's are its first bytes.
LEMMA HeadersFollow ==
  ASSUME NEW st, NEW w, NEW s \in Sessions, NEW k \in Nat \ {0},
         \A c \in 1..k : /\ st[s][c].n = ENC_HEADER_LEN
                         /\ \A j \in 1..ENC_HEADER_LEN :
                              w[(c - 1) * ENC_HEADER_LEN + j] =
                                [from |-> s, chunk |-> c, byte |-> j]
  PROVE  Follows(st, w, s, k * ENC_HEADER_LEN, k)
<1> DEFINE n == ENC_HEADER_LEN
           T == {c \in Nat \ {0} : c <= k => Follows(st, w, s, c * n, c)}
<1>1. n \in Nat \ {0} /\ 1 \in 1..n /\ n \in 1..n  BY EncLengthsType
<1>2. 1 \in T
  <2>1. 1 \in 1..k /\ (1 - 1) * n = 0 /\ 1 * n = n  BY <1>1
  <2>2. \A j \in 1..n : w[j] = [from |-> s, chunk |-> 1, byte |-> j]
    <3>1. TAKE j \in 1..n
    <3>2. (1 - 1) * n + j = j  BY <1>1
    <3>3. QED  BY <2>1, <3>2
  <2>3. st[s][1].n = n  BY <2>1
  <2> HIDE DEF n
  <2>4. ASSUME NEW q \in 2..n
        PROVE  w[q - 1] # Noise /\ w[q] = NextIn(st, w[q - 1])
    <3> DEFINE x == [from |-> s, chunk |-> 1, byte |-> q - 1]
    <3>1. /\ w[q - 1] = x /\ w[q] = [from |-> s, chunk |-> 1, byte |-> q]
          /\ q - 1 < n /\ q - 1 \in Nat /\ q - 1 + 1 = q
      BY <1>1, <2>2
    <3>2. x # Noise  BY <3>1, KeysAssumption
    <3>3. NextIn(st, x) = [from |-> s, chunk |-> 1, byte |-> q]
      BY <2>3, <3>1 DEF NextIn
    <3> HIDE DEF x
    <3>4. QED  BY <3>1, <3>2, <3>3
  <2>5. Follows(st, w, s, n, 1)  BY <1>1, <2>2, <2>3, <2>4 DEF Follows
  <2>6. QED  BY <2>1, <2>5
<1>3. ASSUME NEW c \in Nat \ {0}, c \in T
      PROVE  c + 1 \in T
  <2>1. SUFFICES ASSUME c + 1 <= k PROVE Follows(st, w, s, (c + 1) * n, c + 1)
    OBVIOUS
  <2>2. c \in 1..k /\ c + 1 \in 1..k /\ c + 1 - 1 = c  BY <2>1
  <2>3. Follows(st, w, s, c * n, c)  BY <1>3, <2>2
  <2>4. st[s][c].n = n /\ st[s][c + 1].n = n  BY <2>2
  <2>5. \A j \in 1..n : w[c * n + j] = [from |-> s, chunk |-> c + 1, byte |-> j]
    <3>1. \A j \in 1..n : w[(c + 1 - 1) * n + j] =
                             [from |-> s, chunk |-> c + 1, byte |-> j]
      BY <2>2
    <3>2. (c + 1 - 1) * n = c * n  BY <2>2
    <3>3. QED  BY <3>1, <3>2
  <2>6. c * n \in Nat /\ c * n + n = (c + 1) * n  BY <1>1
  <2> HIDE DEF n, T
  <2>7. Follows(st, w, s, c * n + n, c + 1)
    BY <1>1, <2>3, <2>4, <2>5, <2>6, FollowsExtends
  <2>8. QED  BY <2>6, <2>7
<1> HIDE DEF T
<1>4. k \in T  BY <1>2, <1>3, NaturalsFrom
<1>5. QED  BY <1>4 DEF T

\* A part of a stream depends on the bytes of that part.
LEMMA SubSeqKept ==
  ASSUME NEW S, NEW w \in Seq(S), NEW w2 \in Seq(S), NEW p \in Nat, p <= Len(w), p <= Len(w2),
         \A q \in 1..p : w2[q] = w[q], NEW a \in Nat, NEW b \in Nat, b <= p
  PROVE  SubSeq(w2, a + 1, b) = SubSeq(w, a + 1, b)
<1> DEFINE x == SubSeq(w, a + 1, b)
           y == SubSeq(w2, a + 1, b)
<1>0. /\ a + 1 \in Int /\ b \in Int
      /\ b - (a + 1) + 1 = b - a /\ a + 1 <= b <=> b - a >= 1
      /\ \A h \in (a + 1)..b : h \in 1..Len(w) /\ h \in 1..Len(w2)
  OBVIOUS
<1>a. \A h \in (a + 1)..b : w[h] \in S /\ w2[h] \in S  BY <1>0
<1>b. /\ x \in Seq(S) /\ Len(x) = IF a + 1 <= b THEN b - (a + 1) + 1 ELSE 0
      /\ \A j \in 1..(b - (a + 1) + 1) : x[j] = w[a + 1 + j - 1]
  BY ONLY <1>0, <1>a, SubSeqProperties
<1>c. /\ y \in Seq(S) /\ Len(y) = IF a + 1 <= b THEN b - (a + 1) + 1 ELSE 0
      /\ \A j \in 1..(b - (a + 1) + 1) : y[j] = w2[a + 1 + j - 1]
  BY ONLY <1>0, <1>a, SubSeqProperties
<1> HIDE DEF x, y
<1>1. /\ x \in Seq(S) /\ Len(x) = (IF a + 1 <= b THEN b - (a + 1) + 1 ELSE 0)
      /\ \A j \in 1..Len(x) : x[j] = w[a + 1 + j - 1]
  BY <1>0, <1>b
<1>2. /\ y \in Seq(S) /\ Len(y) = (IF a + 1 <= b THEN b - (a + 1) + 1 ELSE 0)
      /\ \A j \in 1..Len(y) : y[j] = w2[a + 1 + j - 1]
  BY <1>0, <1>c
<1>3. \A j \in 1..Len(x) : a + 1 + j - 1 \in 1..p  BY <1>1
<1>4. \A j \in 1..Len(x) : y[j] = x[j]  BY <1>1, <1>2, <1>3
<1>5. Len(x) = Len(y)  BY <1>1, <1>2
<1>6. x = y  BY <1>1, <1>2, <1>4, <1>5, SeqEqual
<1>7. QED  BY <1>6 DEF x, y

\* Damage makes no byte of a session.
LEMMA EnvironmentStream ==
  ASSUME TypeOK, Written, Environment
  PROVE  /\ Written' /\ pos <= Len(wire') /\ UNCHANGED <<encryptVars, sent, decryptVars>>
         /\ \A q \in 1..pos : wire'[q] = wire[q]
<1> DEFINE S == {wire[r] : r \in 1..Len(wire)} \union {Noise}
<1>1. Damage(pos) /\ UNCHANGED <<encryptVars, sent, decryptVars>>
  BY DEF Environment, Damage
<1>2. wire \in Seq(Cell) /\ pos \in 0..Len(wire)
  BY DEF TypeOK, WireTypeOK, DecryptTypeOK
<1>3. wire \in Seq(S) /\ Noise \in S
  <2>1. \A r \in 1..Len(wire) : wire[r] \in S  OBVIOUS
  <2>2. wire = [r \in 1..Len(wire) |-> wire[r]] /\ Len(wire) \in Nat  BY <1>2
  <2> HIDE DEF S
  <2>3. wire \in [1..Len(wire) -> S]  BY <2>1, <2>2
  <2>4. wire \in Seq(S)  BY <2>2, <2>3
  <2>5. QED  BY <2>4 DEF S
<1>4. \A x \in S : Came(x)  BY DEF Written, Came
<1> HIDE DEF S
<1>5. /\ wire' \in Seq(S) /\ pos <= Len(wire')
      /\ \A q \in 1..pos : wire'[q] = wire[q]
  BY <1>1, <1>2, <1>3, DamageParts
<1>6. epc' = epc /\ sender' = sender /\ message' = message /\ receivers' = receivers
      /\ blocks' = blocks /\ sent' = sent
  BY <1>1 DEF encryptVars
<1>7. \A q \in 1..Len(wire') : Came(wire[q])'
  <2>1. TAKE q \in 1..Len(wire')
  <2>2. Came(wire'[q])  BY <1>4, <1>5
  <2>3. QED  BY <1>6, <2>2 DEF Came
<1>8. ASSUME NEW s \in Sessions
      PROVE  WrittenOf(s)'
  <2>1. WrittenOf(s)  BY DEF Written
  <2>2. Base(s)' = Base(s)  BY <1>6 DEF Base
  <2>3. \A c \in 1..Len(sent[s]) : SignedIn(sent[s][c], c, s)'
    BY <1>6, <2>1, <2>2 DEF WrittenOf, SignedIn
  <2>4. \A c \in 1..Len(sent[s]) : PlacedIn(sent[s][c], c, s, message[s], receivers[s])'
    BY <1>6, <2>1 DEF WrittenOf, PlacedIn
  <2>5. QED  BY <1>6, <2>1, <2>3, <2>4 DEF WrittenOf
<1>9. QED  BY <1>1, <1>5, <1>7, <1>8 DEF Written

\* What decrypt knows of the bytes it has read stays true while it does nothing.
LEMMA ReaderKept ==
  ASSUME TypeOK, Written, HeadersAsRead, BlocksAsWritten, BytesReleased,
         dpc \in {"block-header", "block", "sig"} => dek \in Sessions,
         UNCHANGED decryptVars, pos <= Len(wire'), wire' \in Seq(Cell),
         \A q \in 1..pos : wire'[q] = wire[q],
         \A t \in Sessions : Extends(sent'[t], sent[t]),
         dek \in Sessions => receivers'[dek] = receivers[dek]
  PROVE  HeadersAsRead' /\ BlocksAsWritten' /\ BytesReleased'
<1>1. /\ dpc' = dpc /\ dmsg' = dmsg /\ pos' = pos /\ i' = i /\ dek' = dek
      /\ out' = out /\ dwritten' = dwritten
  BY DEF decryptVars
<1>2. /\ wire \in Seq(Cell) /\ pos \in 0..Len(wire) /\ i \in Nat /\ pos \in Nat
      /\ sent \in [Sessions -> Seq(WriteUnit)] /\ pos <= Len(wire)
  BY DEF TypeOK, WireTypeOK, DecryptTypeOK
<1>3. dek \in Sessions => Base(dek)' = Base(dek)  BY <1>1 DEF Base
<1>4. HeadersAsRead'
  <2>1. SUFFICES ASSUME dpc = "headers" \/ (dpc = "block-header" /\ Len(dmsg) = Base(dek)),
                        dpc = "block-header" => dek \in Sessions
                 PROVE  /\ pos = i * ENC_HEADER_LEN
                        /\ \A q \in 1..i : dmsg[q + 2] = <<"mix", "header",
                             SubSeq(wire', (q - 1) * ENC_HEADER_LEN + 1, q * ENC_HEADER_LEN)>>
                        /\ dpc = "block-header" => i = Len(receivers'[dek])
    BY <1>1, <1>3 DEF HeadersAsRead
  <2>2. /\ pos = i * ENC_HEADER_LEN
        /\ \A q \in 1..i : dmsg[q + 2] = <<"mix", "header",
             SubSeq(wire, (q - 1) * ENC_HEADER_LEN + 1, q * ENC_HEADER_LEN)>>
        /\ dpc = "block-header" => i = Len(receivers[dek])
    BY <2>1 DEF HeadersAsRead
  <2>3. ASSUME NEW q \in 1..i
        PROVE  SubSeq(wire', (q - 1) * ENC_HEADER_LEN + 1, q * ENC_HEADER_LEN)
                 = SubSeq(wire, (q - 1) * ENC_HEADER_LEN + 1, q * ENC_HEADER_LEN)
    <3> DEFINE a == (q - 1) * ENC_HEADER_LEN
               b == q * ENC_HEADER_LEN
    <3>1. q \in Nat \ {0} /\ q - 1 \in Nat /\ q <= i /\ ENC_HEADER_LEN \in Nat \ {0}
      BY <1>2, EncLengthsType
    <3>2. a \in Nat /\ b \in Nat /\ b <= pos
      <4>1. a \in Nat /\ b \in Nat  BY <3>1
      <4>2. q * ENC_HEADER_LEN <= i * ENC_HEADER_LEN  BY <1>2, <3>1, ProductMonotone
      <4>3. QED  BY <2>2, <4>1, <4>2
    <3> HIDE DEF a, b
    <3>3. SubSeq(wire', a + 1, b) = SubSeq(wire, a + 1, b)
      BY <1>2, <3>2, SubSeqKept
    <3>4. QED  BY <3>3 DEF a, b
  <2>4. QED  BY <2>1, <2>2, <2>3
<1>5. BlocksAsWritten'
  <2>1. SUFFICES ASSUME dpc \in {"block-header", "block", "sig"}, Len(dmsg) > Base(dek)
                 PROVE  /\ Len(dmsg) - 3 \in 1..Len(sent'[dek])
                        /\ Follows(sent', wire', dek, pos, Len(dmsg) - 3)
    BY <1>1, <1>3 DEF BlocksAsWritten, InOrder, Follows, NextByte, NextIn
  <2> DEFINE c == Len(dmsg) - 3
  <2>2. c \in 1..Len(sent[dek]) /\ InOrder(dek, pos, c) /\ dek \in Sessions
    BY <2>1 DEF BlocksAsWritten
  <2> HIDE DEF c
  <2>3. Follows(sent, wire, dek, pos, c)
    BY <2>2 DEF InOrder, Follows, NextByte, NextIn
  <2>4. \A q \in 1..pos : wire[q] # Noise => /\ wire[q].from \in Sessions
                                             /\ wire[q].chunk \in 1..Len(sent[wire[q].from])
    <3>1. TAKE q \in 1..pos
    <3>2. q \in 1..Len(wire)  BY <1>2
    <3>3. wire[q] \in Cell /\ Came(wire[q])  BY <1>2, <3>2 DEF Written
    <3>4. QED  BY <3>3 DEF Cell, Came
  <2>5. \A t \in Sessions : \A k \in 1..Len(sent[t]) : sent'[t][k] = sent[t][k]
    BY DEF Extends
  <2>6. Follows(sent', wire', dek, pos, c)
    <3>1. Keeps(sent, wire, sent', wire', pos)  BY <2>4, <2>5 DEF Keeps
    <3>2. QED  BY <1>2, <2>2, <2>3, <3>1, FollowsKept
  <2>7. c \in 1..Len(sent'[dek])
    <3>1. Len(sent[dek]) <= Len(sent'[dek])  BY <2>2 DEF Extends
    <3>2. Len(sent[dek]) \in Nat  BY <1>2, <2>2
    <3>3. QED  BY <2>2, <3>1, <3>2
  <2>8. QED  BY <2>6, <2>7 DEF c
<1>6. BytesReleased'  BY <1>1 DEF BytesReleased
<1>7. QED  BY <1>4, <1>5, <1>6

-----------------------------------------------------------------------------
(* Decryption.                                                             *)

LEMMA DecryptWritten ==
  ASSUME Written, UNCHANGED <<encryptVars, wireVars>>
  PROVE  Written'
<1>1. epc' = epc /\ sender' = sender /\ message' = message /\ receivers' = receivers
      /\ blocks' = blocks /\ sent' = sent /\ wire' = wire
  BY DEF encryptVars, wireVars
<1>2. \A q \in 1..Len(wire') : Came(wire[q])'  BY <1>1 DEF Written, Came
<1>3. ASSUME NEW s \in Sessions
      PROVE  WrittenOf(s)'
  <2>1. WrittenOf(s)  BY DEF Written
  <2>2. Base(s)' = Base(s)  BY <1>1 DEF Base
  <2>3. \A c \in 1..Len(sent[s]) : SignedIn(sent[s][c], c, s)'
    BY <1>1, <2>1, <2>2 DEF WrittenOf, SignedIn
  <2>4. \A c \in 1..Len(sent[s]) : PlacedIn(sent[s][c], c, s, message[s], receivers[s])'
    BY <1>1, <2>1 DEF WrittenOf, PlacedIn
  <2>5. QED  BY <1>1, <2>1, <2>3, <2>4 DEF WrittenOf
<1>4. QED  BY <1>2, <1>3 DEF Written

\* A return with an error.
LEMMA EndComplete ==
  ASSUME Complete, UNCHANGED <<encryptVars, wireVars>>, dpc' \in DecryptEnded \ {"Ok"},
         UNCHANGED <<out, dwritten>>
  PROVE  Complete'
<1>1. Written'  BY DecryptWritten DEF Complete
<1>2. dpc' \notin {"headers", "block-header", "block", "sig", "Ok"}  BY DEF DecryptEnded
<1>3. HeadersAsRead' /\ BlocksAsWritten'  BY <1>2 DEF HeadersAsRead, BlocksAsWritten
<1>4. BytesReleased'  BY DEF Complete, BytesReleased
<1>5. QED  BY <1>1, <1>2, <1>3, <1>4 DEF Complete

LEMMA DecryptHeaderComplete ==
  ASSUME TypeOK, Lockstep, Complete, DecryptHeader, TypeOK', Lockstep'
  PROVE  Complete'
<1>1. dpc = "headers" /\ UNCHANGED <<encryptVars, wireVars>>  BY DEF DecryptHeader
<1>2. CASE Return("InvalidCiphertext") \/ Return("ReadIo")
  BY <1>1, <1>2, EndComplete DEF Return, DecryptEnded
<1> DEFINE n == ENC_HEADER_LEN
           bytes == NextBytes(n)
           e == <<"mix", "header", bytes>>
<1>3. CASE /\ Avail(n) /\ pos' = pos + n
           /\ \E d, count : HeadersStep(Mix(dmsg, "header", bytes), d, count)
           /\ UNCHANGED <<out, dwritten>>
  <2>1. PICK d, count : HeadersStep(Mix(dmsg, "header", bytes), d, count)  BY <1>3
  <2>2. /\ i' = i + 1 /\ dek' = d /\ dpc' \in {"headers", "InvalidCiphertext", "block-header"}
        /\ dmsg' = Append(dmsg, e) \/ dmsg' = Keyed(Append(dmsg, e), d)
        /\ dpc' = "block-header" => dmsg' = Keyed(Append(dmsg, e), d)
    BY <2>1 DEF HeadersStep, Mix
  <2>3. CASE dpc' = "InvalidCiphertext"
    BY <1>1, <1>3, <2>3, EndComplete DEF DecryptEnded
  <2>4. CASE dpc' \in {"headers", "block-header"}
    <3>1. /\ n \in Nat \ {0} /\ i \in Nat /\ dmsg \in Seq(Op) /\ Len(dmsg) \in Nat
          /\ pos \in Nat /\ out \in Seq(Seq(Byte \union {Noise}))
      BY EncLengthsType DEF TypeOK, WireTypeOK, DecryptTypeOK
    <3>2. bytes \in Seq(Cell)  BY <1>3, <3>1, NextBytesType
    <3>3. e \in Op  BY <3>2 DEF Op
    <3>4. Len(dmsg) = i + 2 /\ out = << >>
      BY <1>1 DEF Lockstep, HeadersLockstep, ReleasedLockstep
    <3>5. /\ pos = i * n
          /\ \A q \in 1..i : dmsg[q + 2] = <<"mix", "header",
                                             SubSeq(wire, (q - 1) * n + 1, q * n)>>
      BY <1>1 DEF Complete, HeadersAsRead
    <3> DEFINE m == Append(dmsg, e)
    <3>6. /\ m \in Seq(Op) /\ Len(m) = i + 3 /\ m[i + 3] = e
          /\ \A q \in 1..(i + 2) : m[q] = dmsg[q]
      <4> HIDE DEF e
      <4>1. /\ m \in Seq(Op) /\ Len(m) = Len(dmsg) + 1 /\ m[Len(dmsg) + 1] = e
            /\ Extends(m, dmsg)
        BY <3>1, <3>3, AppendExtends
      <4>2. Len(dmsg) + 1 = i + 3  BY <3>1, <3>4
      <4> HIDE DEF m
      <4>3. QED  BY <3>4, <4>1, <4>2 DEF Extends
    <3> HIDE DEF m
    <3>7. /\ \A q \in 1..(i + 3) : dmsg'[q] = m[q]
          /\ dpc' = "block-header" => Len(dmsg') = i + 4
      <4>1. CASE dmsg' = m /\ dpc' # "block-header"  BY <4>1
      <4>2. CASE dmsg' = Keyed(m, d)
        <5> DEFINE f == <<"mix", "dek", d>>
        <5>1. dmsg' = Append(m, f)  BY <4>2 DEF Keyed, Mix
        <5>2. dmsg' \in Seq(Op)  BY DEF TypeOK, DecryptTypeOK
        <5>3. /\ Len(Append(m, f)) = Len(m) + 1
              /\ \A q \in 1..Len(m) : Append(m, f)[q] = m[q]
          BY <3>6
        <5> HIDE DEF f
        <5>4. i + 3 + 1 = i + 4  BY <3>1
        <5>5. QED  BY <3>6, <5>1, <5>3, <5>4
      <4>3. QED  BY <2>2, <4>1, <4>2 DEF m
    <3>8. pos' = (i + 1) * n
      <4>1. i * n \in Nat /\ i * n + n = (i + 1) * n  BY <3>1
      <4> HIDE DEF n
      <4>2. QED  BY <1>3, <3>5, <4>1
    <3>9. wire' = wire /\ receivers' = receivers  BY <1>1 DEF wireVars, encryptVars
    <3>10. ASSUME NEW q \in 1..(i + 1)
           PROVE  dmsg'[q + 2] = <<"mix", "header", SubSeq(wire, (q - 1) * n + 1, q * n)>>
      <4>1. CASE q \in 1..i
        <5>1. q + 2 \in 1..(i + 3) /\ q + 2 \in 1..(i + 2)  BY <3>1, <4>1
        <5>2. dmsg'[q + 2] = dmsg[q + 2]  BY <3>6, <3>7, <5>1
        <5>3. QED  BY <3>5, <4>1, <5>2
      <4>2. CASE q = i + 1
        <5>1. q + 2 = i + 3 /\ i + 3 \in 1..(i + 3)  BY <3>1, <4>2
        <5>2. dmsg'[q + 2] = e  BY <3>6, <3>7, <5>1
        <5>3. bytes = SubSeq(wire, (q - 1) * n + 1, q * n)
          <6>1. q - 1 = i /\ i * n + n = (i + 1) * n  BY <3>1, <4>2
          <6> HIDE DEF n
          <6>2. QED  BY <3>5, <4>2, <6>1 DEF NextBytes
        <5>4. QED  BY <5>2, <5>3
      <4>3. QED  BY <3>1, <4>1, <4>2
    <3>11. dpc' = "block-header" =>
             /\ dek' \in Sessions /\ Len(dmsg') = Base(dek)' /\ i' = Len(receivers'[dek'])
      <4>1. SUFFICES ASSUME dpc' = "block-header"
                     PROVE  dek' \in Sessions /\ Len(dmsg') = Base(dek)'
                            /\ i' = Len(receivers'[dek'])
        OBVIOUS
      <4>2. dek' \in Sessions
        BY <4>1 DEF Lockstep, HeadersLockstep, TypeOK, DecryptTypeOK
      <4>3. Len(dmsg') = Base(dek)' + 2 * Len(out') + 0
        BY <4>1 DEF Lockstep, BlocksLockstep
      <4>4. Base(dek)' = Len(receivers'[dek']) + 3 /\ Len(receivers'[dek']) \in Nat
        BY <4>2 DEF Base, TypeOK, EncryptTypeOK
      <4>5. out' = << >> /\ Len(out') = 0  BY <1>3, <3>4
      <4>6. Len(dmsg') = i + 4  BY <3>7, <4>1
      <4> DEFINE b == Base(dek)'
                 r == Len(receivers'[dek'])
      <4>7. b = r + 3 /\ r \in Nat /\ b \in Nat  BY <4>4
      <4>8. Len(dmsg') = b + 2 * 0 + 0  BY <4>3, <4>5
      <4> HIDE DEF b, r
      <4>9. Len(dmsg') = b /\ i + 1 = r  BY <3>1, <4>6, <4>7, <4>8
      <4>10. QED  BY <2>2, <4>2, <4>9 DEF b, r
    <3>12. HeadersAsRead'
      BY <2>2, <3>8, <3>9, <3>10, <3>11 DEF HeadersAsRead
    <3>13. BlocksAsWritten'
      <4>1. dpc' = "block-header" => ~ (Len(dmsg') > Base(dek)')
        <5>1. dpc' = "block-header" => Len(dmsg') = Base(dek)' /\ Len(dmsg') \in Nat
          BY <3>1, <3>7, <3>11
        <5>2. QED  BY <5>1
      <4>2. QED  BY <2>4, <4>1 DEF BlocksAsWritten
    <3>14. BytesReleased'  BY <1>3 DEF Complete, BytesReleased
    <3>15. Written' /\ dpc' # "Ok"  BY <1>1, <2>4, DecryptWritten DEF Complete
    <3>16. QED  BY <3>12, <3>13, <3>14, <3>15 DEF Complete
  <2>5. QED  BY <2>2, <2>3, <2>4
<1>4. QED
  <2>1. \/ Return("InvalidCiphertext") \/ Return("ReadIo")
        \/ /\ Avail(n) /\ pos' = pos + n
           /\ IF dek = NoDek /\ HeaderOpens(dmsg, bytes)
              THEN HeadersStep(Mix(dmsg, "header", bytes), Chunk(bytes).plain[1],
                               Chunk(bytes).plain[2])
              ELSE HeadersStep(Mix(dmsg, "header", bytes), dek, recvCount)
           /\ UNCHANGED <<claimed, receiver, hdr, out, torn, dwritten>>
    BY DEF DecryptHeader
  <2> HIDE DEF bytes, n
  <2>2. QED  BY <1>2, <1>3, <2>1

\* The n bytes of w after the p-th are chunk c of session s.
ChunkAt(w, p, n, s, c) ==
  \A j \in 1..n : w[p + j] = [from |-> s, chunk |-> c, byte |-> j]

LEMMA ChunkBytesAt ==
  ASSUME NEW w \in Seq(Cell), NEW p \in Nat, NEW n \in Nat, NEW r \in Nat, r = p + n,
         r <= Len(w), NEW x, x = SubSeq(w, p + 1, r), NEW s, NEW c, x = Cells(s, c, n)
  PROVE  ChunkAt(w, p, n, s, c)
<1> SUFFICES \A j \in 1..n : w[p + j] = [from |-> s, chunk |-> c, byte |-> j]
  BY DEF ChunkAt
<1>1. Len(w) \in Nat /\ p + 1 \in Int /\ r \in Int  OBVIOUS
<1>2. \A q \in (p + 1)..r : w[q] \in Cell  BY <1>1
<1>3. \A j \in 1..(r - (p + 1) + 1) : x[j] = w[p + 1 + j - 1]
  BY <1>1, <1>2, SubSeqProperties
<1>4. TAKE j \in 1..n
<1>5. j \in 1..(r - (p + 1) + 1) /\ p + 1 + j - 1 = p + j  OBVIOUS
<1>6. x[j] = w[p + j]  BY <1>3, <1>5
<1>7. Cells(s, c, n)[j] = [from |-> s, chunk |-> c, byte |-> j]  BY DEF Cells
<1>8. QED  BY <1>6, <1>7

\* The first chunk after the headers, and each that follows, stands where decrypt
\* looks for it, and what came before is in order.
LEMMA ReadSoFar ==
  ASSUME TypeOK, Lockstep, Complete, dpc \in {"block-header", "block", "sig"},
         Len(dmsg) - 2 \in 1..Len(sent[dek]),
         Len(dmsg) <= Len(message[dek]), dmsg = SubSeq(message[dek], 1, Len(dmsg))
  PROVE  /\ Len(dmsg) - 3 \in Nat \ {0}
         /\ Follows(sent, wire, dek, pos, Len(dmsg) - 3)
<1> DEFINE n == ENC_HEADER_LEN
           k == Len(receivers[dek])
<1>1. /\ dek \in Sessions /\ n \in Nat \ {0} /\ dmsg \in Seq(Op) /\ Len(dmsg) \in Nat
      /\ message[dek] \in Seq(Op) /\ Len(message[dek]) \in Nat /\ k \in Nat
      /\ Base(dek) \in Nat /\ Len(out) \in Nat /\ Len(sent[dek]) \in Nat
  <2>1. dek \in Sessions  BY DEF Lockstep, HeadersLockstep, TypeOK, DecryptTypeOK
  <2>2. n \in Nat \ {0}  BY EncLengthsType
  <2>3. dmsg \in Seq(Op) /\ out \in Seq(Seq(Byte \union {Noise}))
    BY DEF TypeOK, DecryptTypeOK
  <2>4. message[dek] \in Seq(Op) /\ receivers[dek] \in Seq(Keys \union {Fake})
        /\ sent[dek] \in Seq(WriteUnit)
    BY <2>1 DEF TypeOK, EncryptTypeOK, WireTypeOK
  <2>5. QED  BY <2>1, <2>2, <2>3, <2>4 DEF Base
<1>2. CASE Len(dmsg) > Base(dek)
  <2>1. Len(dmsg) - 3 \in 1..Len(sent[dek]) /\ InOrder(dek, pos, Len(dmsg) - 3)
    BY <1>2 DEF Complete, BlocksAsWritten
  <2>2. QED  BY <2>1 DEF InOrder, Follows, NextByte, NextIn
<1>3. CASE ~ (Len(dmsg) > Base(dek))
  <2>1. dpc = "block-header" /\ Len(dmsg) = Base(dek)
    <3>1. Len(dmsg) = Base(dek) + 2 * Len(out) +
                       (IF dpc = "block-header" THEN 0 ELSE IF dpc = "block" THEN 1 ELSE 2)
      BY DEF Lockstep, BlocksLockstep
    <3>2. CASE dpc = "block-header"  BY <1>1, <1>3, <3>1, <3>2
    <3>3. CASE dpc = "block"  BY <1>1, <1>3, <3>1, <3>3
    <3>4. CASE dpc = "sig"  BY <1>1, <1>3, <3>1, <3>4
    <3>5. QED  BY <3>2, <3>3, <3>4
  <2>2. /\ pos = i * n /\ i = k
        /\ \A q \in 1..i : dmsg[q + 2] = <<"mix", "header",
                                           SubSeq(wire, (q - 1) * n + 1, q * n)>>
    BY <2>1 DEF Complete, HeadersAsRead
  <2>3. k \in Nat \ {0}
    <3>1. dek # NoDek  BY <1>1, DecryptAssumption
    <3>2. receiver \in Range(receivers[dek])
      BY <3>1 DEF Lockstep, HeadersLockstep, Addressed
    <3>3. PICK j \in DOMAIN receivers[dek] : receivers[dek][j] = receiver
      BY <3>2 DEF Range
    <3>4. receivers[dek] \in Seq(Keys \union {Fake})
      BY <1>1 DEF TypeOK, EncryptTypeOK
    <3>5. j \in 1..k  BY <3>3, <3>4
    <3>6. QED  BY <1>1, <3>5
  <2>4. Len(dmsg) = k + 3 /\ k <= Len(sent[dek])  BY <1>1, <2>1 DEF Base
  <2>5. ASSUME NEW q \in 1..k
        PROVE  sent[dek][q].n = n /\ SubSeq(wire, (q - 1) * n + 1, q * n) = Cells(dek, q, n)
    <3>1. q \in 1..Len(sent[dek]) /\ q + 2 \in 1..Len(dmsg) /\ Len(dmsg) \in 0..Len(message[dek])
          /\ q <= k
      BY <1>1, <2>4
    <3>2. PlacedIn(sent[dek][q], q, dek, message[dek], receivers[dek])
      BY <1>1, <3>1 DEF Complete, Written, WrittenOf
    <3>3. /\ sent[dek][q].n = n
          /\ message[dek][q + 2] = <<"mix", "header", Cells(dek, q, n)>>
      BY <3>1, <3>2 DEF PlacedIn
    <3>4. dmsg[q + 2] = message[dek][q + 2]
      <4>1. SubSeq(message[dek], 1, Len(dmsg))[q + 2] = message[dek][q + 2]
        BY <1>1, <3>1, PrefixElements
      <4>2. QED  BY <4>1
    <3>5. dmsg[q + 2] = <<"mix", "header", SubSeq(wire, (q - 1) * n + 1, q * n)>>
      BY <2>2
    <3>6. \A x, y : <<"mix", "header", x>> = <<"mix", "header", y>> => x = y  OBVIOUS
    <3>7. QED  BY <3>3, <3>4, <3>5, <3>6
  <2>6. wire \in Seq(Cell) /\ Len(wire) \in Nat /\ pos <= Len(wire)
    BY DEF TypeOK, WireTypeOK, DecryptTypeOK
  <2>7. ASSUME NEW q \in 1..k, NEW j \in 1..n
        PROVE  wire[(q - 1) * n + j] = [from |-> dek, chunk |-> q, byte |-> j]
    <3> DEFINE a == (q - 1) * n
               b == q * n
    <3>1. a \in Nat /\ b \in Nat /\ b = a + n /\ b <= Len(wire)
      <4>1. q \in Nat \ {0} /\ q <= k /\ q - 1 \in Nat  BY <1>1
      <4>2. a \in Nat /\ b \in Nat /\ b = a + n  BY <1>1, <4>1
      <4>3. b <= k * n
        <5>1. q \in Int /\ k \in Int /\ n \in Nat /\ q <= k  BY <1>1, <4>1
        <5> HIDE DEF n, k
        <5>2. QED  BY <5>1, ProductMonotone
      <4>4. k * n \in Nat /\ k * n = pos  BY <1>1, <2>2
      <4> HIDE DEF a, b, n
      <4>5. QED  BY <2>6, <4>2, <4>3, <4>4
    <3>2. SubSeq(wire, a + 1, b) = Cells(dek, q, n)  BY <2>5
    <3> HIDE DEF a, b, n
    <3>3. wire[a + j] = [from |-> dek, chunk |-> q, byte |-> j]
      <4> DEFINE x == SubSeq(wire, a + 1, b)
      <4>1. x = Cells(dek, q, n)  BY <3>2
      <4> HIDE DEF x
      <4>2. x = SubSeq(wire, a + 1, b)  BY DEF x
      <4>3. n \in Nat  BY <1>1
      <4>4. ChunkAt(wire, a, n, dek, q)
        BY <2>6, <3>1, <4>1, <4>2, <4>3, ChunkBytesAt
      <4>5. QED  BY <4>4 DEF ChunkAt
    <3>4. QED  BY <3>3 DEF a
  <2>8. Follows(sent, wire, dek, k * n, k)
    BY <1>1, <2>3, <2>5, <2>7, HeadersFollow
  <2>9. k = Len(dmsg) - 3  BY <1>1, <2>4
  <2>10. QED  BY <2>2, <2>3, <2>8, <2>9
<1>4. QED  BY <1>2, <1>3

\* And if what comes next is that chunk, it is in order too.
LEMMA NextChunk ==
  ASSUME TypeOK, Lockstep, Complete, dpc \in {"block-header", "block", "sig"},
         NEW c, c = Len(dmsg) - 2, c \in 1..Len(sent[dek]),
         Len(dmsg) <= Len(message[dek]), dmsg = SubSeq(message[dek], 1, Len(dmsg)),
         NEW n \in Nat \ {0}, n = sent[dek][c].n, pos + n <= Len(wire),
         SubSeq(wire, pos + 1, pos + n) = Cells(dek, c, n)
  PROVE  Follows(sent, wire, dek, pos + n, c)
<1>1. /\ Len(dmsg) - 3 \in Nat \ {0}
      /\ Follows(sent, wire, dek, pos, Len(dmsg) - 3)
  BY ReadSoFar
<1>2. /\ dek \in Sessions /\ wire \in Seq(Cell) /\ pos \in Nat /\ Len(dmsg) \in Nat
      /\ sent[dek] \in Seq(WriteUnit) /\ Len(sent[dek]) \in Nat /\ Len(wire) \in Nat
  <2>1. dek \in Sessions  BY DEF Lockstep, HeadersLockstep, TypeOK, DecryptTypeOK
  <2>2. wire \in Seq(Cell) /\ pos \in Nat /\ dmsg \in Seq(Op)
    BY DEF TypeOK, WireTypeOK, DecryptTypeOK
  <2>3. sent[dek] \in Seq(WriteUnit)  BY <2>1 DEF TypeOK, WireTypeOK
  <2>4. QED  BY <2>1, <2>2, <2>3
<1> DEFINE d == Len(dmsg) - 3
<1>3. d \in Nat \ {0} /\ d + 1 = c /\ d \in 1..Len(sent[dek])
  <2>1. d \in Nat \ {0}  BY <1>1
  <2>2. d + 1 = c  BY <1>2
  <2> HIDE DEF d
  <2>3. QED  BY <1>2, <2>1, <2>2
<1>4. sent[dek][d].n \in Nat
  <2>1. PlacedIn(sent[dek][d], d, dek, message[dek], receivers[dek])
    <3> HIDE DEF d
    <3>1. QED  BY <1>2, <1>3 DEF Complete, Written, WrittenOf
  <2>2. QED  BY <2>1 DEF PlacedIn
<1>5. \A j \in 1..n : wire[pos + j] = [from |-> dek, chunk |-> d + 1, byte |-> j]
  <2> DEFINE x == SubSeq(wire, pos + 1, pos + n)
             r == pos + n
  <2>1. x = Cells(dek, d + 1, n) /\ r \in Nat /\ r <= Len(wire) /\ n \in Nat
    <3>1. d + 1 = c  BY <1>3
    <3> HIDE DEF d
    <3>2. QED  BY <1>2, <3>1
  <2> HIDE DEF x, r, d
  <2>2. x = SubSeq(wire, pos + 1, r) /\ r = pos + n  BY DEF x, r
  <2>3. ChunkAt(wire, pos, n, dek, d + 1)  BY <1>2, <2>1, <2>2, ChunkBytesAt
  <2>4. QED  BY <2>3 DEF ChunkAt
<1>6. sent[dek][d + 1].n = n  BY <1>3
<1> HIDE DEF d
<1>7. Follows(sent, wire, dek, pos, d)  BY <1>1 DEF d
<1>8. Follows(sent, wire, dek, pos + n, d + 1)
  BY <1>2, <1>3, <1>4, <1>5, <1>6, <1>7, FollowsExtends
<1>9. QED  BY <1>3, <1>8

\* A block header or a block that opens is the next chunk of the session of the DEK.
LEMMA OpenedInOrder ==
  ASSUME TypeOK, Lockstep, Complete, dpc \in {"block-header", "block"},
         NEW label \in {"block-header", "block"}, NEW n \in Nat, Avail(n),
         BytesOpen(label, NextBytes(n))
  PROVE  /\ Len(dmsg) - 2 \in 1..Len(sent[dek])
         /\ InOrder(dek, pos + n, Len(dmsg) - 2)
<1> DEFINE bytes == NextBytes(n)
           u == Chunk(bytes)
           c == bytes[1].chunk
<1>1. bytes \in Seq(Cell) /\ Len(bytes) = n  BY NextBytesType
<1>2. LoopsOK /\ EncryptHistories /\ ReaderOK  BY DEF Lockstep, ReaderOK
<1>3. Intact(bytes)  BY DEF BytesOpen
<1> HIDE DEF bytes
<1>4. BytesOpen(label, bytes)  BY DEF bytes
<1>5. /\ dek \in Sessions /\ Len(dmsg) + 1 <= Len(message[dek])
      /\ dmsg = SubSeq(message[dek], 1, Len(dmsg))
      /\ u.label = label /\ bytes[1].from = dek /\ u.under = dmsg
  BY <1>1, <1>2, <1>4, OpensInLockstep
<1>6. c \in 1..Len(sent[dek]) /\ bytes = Cells(dek, c, u.n) /\ u = sent[dek][c]
  BY <1>1, <1>3, <1>5, ChunkType DEF Chunk
<1>7. PlacedIn(u, c, dek, message[dek], receivers[dek])
  BY <1>5, <1>6 DEF Complete, Written, WrittenOf
<1>8. u.n \in Nat \ {0} /\ Len(dmsg) = c + 2  BY <1>5, <1>7 DEF PlacedIn
<1>9. /\ dmsg \in Seq(Op) /\ Len(dmsg) \in Nat /\ Len(sent[dek]) \in Nat
      /\ Len(message[dek]) \in Nat /\ pos \in Nat /\ Len(wire) \in Nat
  BY <1>5 DEF TypeOK, EncryptTypeOK, WireTypeOK, DecryptTypeOK
<1>10. n = u.n
  <2>1. Len(Cells(dek, c, u.n)) = u.n
    <3>1. dek \in Sessions /\ c \in Nat /\ u.n \in Nat  BY <1>5, <1>6, <1>8, <1>9
    <3> HIDE DEF c, u
    <3>2. QED  BY <3>1, CellsType
  <2>2. QED  BY <1>1, <1>6, <2>1
<1>11. c = Len(dmsg) - 2 /\ Len(dmsg) <= Len(message[dek])
  <2>1. c \in Nat  BY <1>6, <1>9
  <2> HIDE DEF c
  <2>2. QED  BY <1>5, <1>8, <1>9, <2>1
<1>12. SubSeq(wire, pos + 1, pos + n) = Cells(dek, c, n) /\ pos + n <= Len(wire)
  BY <1>6, <1>10 DEF bytes, NextBytes, Avail
<1>13. n \in Nat \ {0} /\ n = sent[dek][c].n  BY <1>6, <1>8, <1>10
<1>14. dpc \in {"block-header", "block", "sig"}  OBVIOUS
<1> HIDE DEF c, u
<1>15. Follows(sent, wire, dek, pos + n, c)
  BY <1>5, <1>6, <1>11, <1>12, <1>13, <1>14, NextChunk
<1>16. InOrder(dek, pos + n, c)  BY <1>15 DEF InOrder, Follows, NextByte, NextIn
<1>17. QED  BY <1>6, <1>11, <1>16

\* What the two steps over a block have in common.
LEMMA OpenedComplete ==
  ASSUME TypeOK, Lockstep, Complete, TypeOK', dpc \in {"block-header", "block"},
         UNCHANGED <<encryptVars, wireVars>>,
         NEW label \in {"block-header", "block"}, NEW n \in Nat, Avail(n),
         BytesOpen(label, NextBytes(n)), NEW e, dmsg' = Append(dmsg, e),
         pos' = pos + n, dek' = dek, dpc' \notin {"headers", "Ok"},
         dpc' = "block-header" => dpc = "block",
         BytesReleased'
  PROVE  Complete'
<1>1. /\ Len(dmsg) - 2 \in 1..Len(sent[dek])
      /\ InOrder(dek, pos + n, Len(dmsg) - 2)
  BY OpenedInOrder
<1>2. dmsg \in Seq(Op) /\ dmsg' \in Seq(Op) /\ Len(dmsg) \in Nat
  BY DEF TypeOK, DecryptTypeOK
<1>3. Len(dmsg') = Len(dmsg) + 1  BY <1>2
<1>4. sent' = sent /\ wire' = wire /\ receivers' = receivers
  BY DEF wireVars, encryptVars
<1> DEFINE c == Len(dmsg) - 2
<1>5. c \in 1..Len(sent[dek]) /\ InOrder(dek, pos + n, c) /\ Len(dmsg') - 3 = c
  BY <1>1, <1>2, <1>3
<1>6. BlocksAsWritten'
  <2> HIDE DEF c
  <2>1. Follows(sent, wire, dek, pos + n, c)
    BY <1>5 DEF InOrder, Follows, NextByte, NextIn
  <2>2. Follows(sent', wire', dek', pos', Len(dmsg') - 3)  BY <1>4, <1>5, <2>1
  <2>3. Len(dmsg') - 3 \in 1..Len(sent'[dek'])  BY <1>4, <1>5
  <2>4. QED
    BY <2>2, <2>3 DEF BlocksAsWritten, InOrder, Follows, NextByte, NextIn
<1>7. HeadersAsRead'
  <2>1. SUFFICES ASSUME dpc' = "block-header", Len(dmsg') = Base(dek)'
                 PROVE  FALSE
    BY DEF HeadersAsRead
  <2>2. dpc = "block" /\ Base(dek)' = Base(dek)  BY <1>4, <2>1 DEF Base
  <2>3. Len(dmsg) = Base(dek) + 2 * Len(out) + 1
    BY <2>2 DEF Lockstep, BlocksLockstep
  <2>4. dek \in Sessions
    BY <2>2 DEF Lockstep, HeadersLockstep, TypeOK, DecryptTypeOK
  <2>5. Len(out) \in Nat /\ Base(dek) \in Nat
    <3>1. out \in Seq(Seq(Byte \union {Noise}))  BY DEF TypeOK, DecryptTypeOK
    <3>2. receivers[dek] \in Seq(Keys \union {Fake})
      BY <2>4 DEF TypeOK, EncryptTypeOK
    <3>3. QED  BY <3>1, <3>2 DEF Base
  <2>6. Len(dmsg) + 1 = Base(dek)  BY <1>3, <2>1, <2>2
  <2>7. QED  BY <1>2, <2>3, <2>5, <2>6
<1>8. Written'  BY DecryptWritten DEF Complete
<1>9. QED  BY <1>6, <1>7, <1>8 DEF Complete

LEMMA DecryptBlockHeaderComplete ==
  ASSUME TypeOK, Lockstep, Complete, DecryptBlockHeader, TypeOK'
  PROVE  Complete'
<1> DEFINE n == ENC_BLOCK_HEADER_LEN
<1>1. dpc = "block-header" /\ UNCHANGED <<encryptVars, wireVars>> /\ n \in Nat
  BY EncLengthsType DEF DecryptBlockHeader
<1>2. CASE Return("InvalidCiphertext") \/ Return("UnexpectedEof") \/ Return("ReadIo")
  BY <1>1, <1>2, EndComplete DEF Return, DecryptEnded
<1>3. CASE /\ Avail(n) /\ BytesOpen("block-header", NextBytes(n))
           /\ pos' = pos + n
           /\ dmsg' = Sealed(dmsg, "block-header", hdr')
           /\ dpc' = "block"
           /\ UNCHANGED <<claimed, receiver, i, recvCount, dek, out, torn, dwritten>>
  <2> DEFINE e == <<"seal", "block-header", hdr'>>
  <2>1. dmsg' = Append(dmsg, e)  BY <1>3 DEF Sealed
  <2>2. BytesReleased'  BY <1>3 DEF Complete, BytesReleased
  <2> HIDE DEF n, e
  <2>3. QED  BY <1>1, <1>3, <2>1, <2>2, OpenedComplete
<1>4. QED  BY <1>2, <1>3 DEF DecryptBlockHeader

LEMMA DecryptBlockComplete ==
  ASSUME TypeOK, Lockstep, Tally, Complete, DecryptBlock, TypeOK'
  PROVE  Complete'
<1> DEFINE n == hdr[2] + TAG_LEN
           bytes == NextBytes(n)
           block == Chunk(bytes).plain
           e == <<"seal", "block", block>>
<1>1. dpc = "block" /\ UNCHANGED <<encryptVars, wireVars>>  BY DEF DecryptBlock
<1>2. hdr \in {"Data", "Padding"} \X Nat /\ n \in Nat
  BY <1>1, LengthsAssumption DEF TypeOK, DecryptTypeOK
<1>3. CASE Return("InvalidCiphertext") \/ Return("UnexpectedEof") \/ Return("ReadIo")
  BY <1>1, <1>3, EndComplete DEF Return, DecryptEnded
<1>4. CASE /\ Avail(n) /\ BytesOpen("block", bytes)
           /\ pos' = pos + n
           /\ dmsg' = Sealed(dmsg, "block", block)
           /\ IF hdr[1] = "Data"
              THEN Release(block)
              ELSE /\ dpc' = IF hdr[1] = "Padding" THEN "sig" ELSE "InvalidBlockType"
                   /\ UNCHANGED <<out, torn, dwritten>>
           /\ UNCHANGED <<claimed, receiver, i, recvCount, dek, hdr>>
  <2>1. dmsg' = Append(dmsg, e)  BY <1>4 DEF Sealed
  <2>2. BytesOpen("block", NextBytes(n)) /\ Avail(n) /\ pos' = pos + n /\ dek' = dek
        /\ BytesOpen("block", bytes)
    BY <1>4
  <2>3. \/ /\ hdr[1] = "Data" /\ out' = Append(out, block)
           /\ dwritten' = dwritten + Len(block)
           /\ dpc' = "block-header"
        \/ dpc' \notin {"headers", "Ok", "block-header"} /\ UNCHANGED <<out, dwritten>>
    BY <1>4 DEF Release
  <2> HIDE DEF n
  <2>4. bytes \in Seq(Cell)  BY <1>2, <2>2, NextBytesType
  <2>5. BytesReleased  BY DEF Complete
  <2> HIDE DEF bytes, block
  <2>6. BytesReleased'
    <3>1. CASE UNCHANGED <<out, dwritten>>  BY <2>5, <3>1 DEF BytesReleased
    <3>2. CASE /\ hdr[1] = "Data" /\ out' = Append(out, block)
               /\ dwritten' = dwritten + Len(block)
      <4>1. LoopsOK /\ EncryptHistories /\ ReaderOK  BY DEF Lockstep, ReaderOK
      <4> DEFINE k == Len(out)
                 bs == blocks[dek]
      <4>2. k + 1 \in 1..Len(bs) /\ block = bs[k + 1]
        BY <1>1, <2>2, <2>4, <3>2, <4>1, BlockInLockstep DEF block
      <4>3. dek \in Sessions /\ \A q \in 1..k : out[q] = bs[q]
        <5>1. dek \in Sessions
          BY <1>1 DEF Lockstep, HeadersLockstep, TypeOK, DecryptTypeOK
        <5>2. dek # NoDek  BY <5>1, DecryptAssumption
        <5>3. QED  BY <5>1, <5>2 DEF Lockstep, ReleasedLockstep
      <4>4. /\ bs \in Seq(Seq(Byte)) /\ Len(bs) \in Nat /\ k \in Nat
            /\ out \in Seq(Seq(Byte \union {Noise}))
        <5>1. bs \in Seq(Seq(Byte))  BY <4>3 DEF TypeOK, EncryptTypeOK
        <5>2. out \in Seq(Seq(Byte \union {Noise}))  BY DEF TypeOK, DecryptTypeOK
        <5>3. QED  BY <5>1, <5>2
      <4>5. block \in Seq(Byte) /\ Len(block) \in Nat
        <5> HIDE DEF bs, k
        <5>1. block \in Seq(Byte)  BY <4>2, <4>4
        <5>2. QED  BY <5>1
      <4>6. /\ out' # << >> /\ Len(out') = k + 1 /\ out'[Len(out')] = block
        BY <3>2, <4>4
      <4>7. dwritten = k * BLOCK_LEN
        <5>1. CASE out = << >>
          <6>1. k = 0 /\ 0 * BLOCK_LEN = 0  BY <5>1, LengthsAssumption
          <6>2. QED  BY <2>5, <5>1, <6>1 DEF BytesReleased
        <5>2. CASE out # << >>
          <6>1. k \in Nat \ {0} /\ k \in 1..k /\ k \in 1..Len(bs) /\ k < Len(bs)
            BY <4>2, <4>4, <5>2, EmptySeq
          <6>2. BlocksRead(dek)  BY <4>3 DEF Tally, TallyOf
          <6>3. /\ Len(bs[k]) = BlockEnd(dek, k) - (k - 1) * BLOCK_LEN
                /\ BlockEnd(dek, k) = k * BLOCK_LEN
            BY <4>3, <6>1, <6>2, BlockLengths
          <6>4. dwritten = (k - 1) * BLOCK_LEN + Len(bs[k])
            BY <2>5, <4>3, <5>2, <6>1 DEF BytesReleased
          <6> DEFINE x == (k - 1) * BLOCK_LEN
                     y == k * BLOCK_LEN
          <6>5. x \in Nat /\ y \in Nat  BY <6>1, LengthsAssumption
          <6>6. Len(bs[k]) = y - x /\ dwritten = x + Len(bs[k])  BY <6>3, <6>4
          <6> HIDE DEF x, y
          <6>7. dwritten = y  BY <6>5, <6>6
          <6>8. QED  BY <6>7 DEF y
        <5>3. QED  BY <5>1, <5>2
      <4>8. k + 1 - 1 = k  BY <4>4
      <4>9. QED  BY <3>2, <4>6, <4>7, <4>8 DEF BytesReleased
    <3>3. QED  BY <2>3, <3>1, <3>2
  <2>7. dpc' \notin {"headers", "Ok"}  BY <2>3
  <2> HIDE DEF e
  <2>8. QED  BY <1>1, <1>2, <2>1, <2>2, <2>6, <2>7, OpenedComplete
<1>5. QED
  <2>1. \/ Return("InvalidCiphertext") \/ Return("UnexpectedEof") \/ Return("ReadIo")
        \/ /\ Avail(n) /\ BytesOpen("block", bytes)
           /\ pos' = pos + n
           /\ dmsg' = Sealed(dmsg, "block", block)
           /\ IF hdr[1] = "Data"
              THEN Release(block)
              ELSE /\ dpc' = IF hdr[1] = "Padding" THEN "sig" ELSE "InvalidBlockType"
                   /\ UNCHANGED <<out, torn, dwritten>>
           /\ UNCHANGED <<claimed, receiver, i, recvCount, dek, hdr>>
    BY DEF DecryptBlock
  <2> HIDE DEF n, bytes, block
  <2>2. QED  BY <1>3, <1>4, <2>1

\* The rest of the stream, when it verifies, is the signature of the session whose
\* DEK decrypt holds: the last chunk of it, written whole, under all of its history.
LEMMA VerifiedIsLast ==
  ASSUME TypeOK, Lockstep, Complete, dpc = "sig", Len(Rest) = SIG_LEN, Verifies(Rest)
  PROVE  /\ dek \in Sessions /\ epc[dek] = "Ok" /\ message[dek] = dmsg
         /\ Len(dmsg) = Base(dek) + 2 * Len(blocks[dek]) + 2
         /\ Follows(sent, wire, dek, Len(wire), Len(sent[dek]))
<1> DEFINE bytes == Rest
           u == Chunk(bytes)
           s == bytes[1].from
           c == bytes[1].chunk
<1>1. /\ wire \in Seq(Cell) /\ pos \in Nat /\ Len(wire) \in Nat /\ pos <= Len(wire)
      /\ dmsg \in Seq(Op) /\ Len(dmsg) \in Nat /\ SIG_LEN \in Nat \ {0}
      /\ out \in Seq(Seq(Byte \union {Noise})) /\ Len(out) \in Nat
  BY LengthsAssumption DEF TypeOK, WireTypeOK, DecryptTypeOK
<1>2. bytes \in Seq(Cell) /\ Len(bytes) = Len(wire) - pos
  <2>1. \A r \in (pos + 1)..Len(wire) : wire[r] \in Cell  BY <1>1
  <2>2. /\ SubSeq(wire, pos + 1, Len(wire)) \in Seq(Cell)
        /\ Len(SubSeq(wire, pos + 1, Len(wire))) =
             IF pos + 1 <= Len(wire) THEN Len(wire) - (pos + 1) + 1 ELSE 0
    BY <1>1, <2>1, SubSeqProperties
  <2>3. QED  BY <1>1, <2>2 DEF Rest
<1> HIDE DEF bytes
<1>3. Intact(bytes) /\ verify_protocol(dmsg, claimed, u)
  BY DEF Verifies, bytes
<1>4. u.label = "signature" /\ u.plain = <<claimed, dmsg>>
  BY <1>3 DEF verify_protocol, Opens
<1>5. /\ s \in Sessions /\ c \in 1..Len(sent[s]) /\ bytes = Cells(s, c, u.n)
      /\ u = sent[s][c]
  BY <1>2, <1>3, ChunkType DEF Chunk
<1>6. PlacedIn(u, c, s, message[s], receivers[s]) /\ SignedIn(u, c, s)
  BY <1>5 DEF Complete, Written, WrittenOf
<1>7. /\ c = Len(sent[s]) /\ epc[s] \in {"Ok", "WriteIo"} /\ u.n = SIG_LEN
      /\ u.plain = <<sender[s], message[s]>>
      /\ Len(message[s]) = Base(s) + 2 * Len(blocks[s]) + 2
      /\ Len(message[s]) = c + 2
  BY <1>4, <1>6 DEF SignedIn
<1>8. message[s] = dmsg  BY <1>4, <1>7
<1>9. dek \in Sessions
  BY DEF Lockstep, HeadersLockstep, TypeOK, DecryptTypeOK
<1>10. s = dek
  <2> DEFINE b == Base(dek)
  <2>1. epc[s] # "idle"  BY <1>7
  <2>2. \A q \in 1..Len(dmsg) : dmsg[q][2] = "dek" => dmsg[q][3] = s
    BY <1>5, <1>8, <2>1 DEF Lockstep, EncryptHistories, History
  <2>3. receivers[dek] \in Seq(Keys \union {Fake})  BY <1>9 DEF TypeOK, EncryptTypeOK
  <2>4. b \in Nat \ {0}  BY <2>3 DEF Base
  <2>5. Len(dmsg) = b + 2 * Len(out) + 2 /\ dmsg[b] = <<"mix", "dek", dek>>
    BY DEF Lockstep, BlocksLockstep
  <2> HIDE DEF b, s
  <2>6. b \in 1..Len(dmsg)  BY <1>1, <2>4, <2>5
  <2>7. dmsg[b][2] = "dek" /\ dmsg[b][3] = dek  BY <2>5
  <2>8. QED  BY <2>2, <2>6, <2>7
<1>11. /\ c \in 1..Len(sent[dek]) /\ c = Len(dmsg) - 2 /\ c = Len(sent[dek])
       /\ Len(dmsg) = Base(dek) + 2 * Len(blocks[dek]) + 2
       /\ u = sent[dek][c] /\ bytes = Cells(dek, c, SIG_LEN) /\ epc[dek] \in {"Ok", "WriteIo"}
  <2>1. sent[s] \in Seq(WriteUnit)  BY <1>5 DEF TypeOK, WireTypeOK
  <2>2. c \in Nat  BY <1>5, <2>1
  <2>3. c = Len(dmsg) - 2
    <3>1. Len(dmsg) = c + 2  BY <1>7, <1>8
    <3> HIDE DEF c
    <3>2. QED  BY <1>1, <2>2, <3>1
  <2>4. QED  BY <1>5, <1>7, <1>8, <1>10, <2>3
<1>12. dmsg = SubSeq(message[dek], 1, Len(dmsg)) /\ Len(dmsg) <= Len(message[dek])
  <2>1. Len(dmsg) > Base(dek)
    <3>1. blocks[dek] \in Seq(Seq(Byte)) /\ receivers[dek] \in Seq(Keys \union {Fake})
      BY <1>9 DEF TypeOK, EncryptTypeOK
    <3>2. Len(blocks[dek]) \in Nat /\ Base(dek) \in Nat  BY <3>1 DEF Base
    <3>3. QED  BY <1>1, <1>11, <3>2
  <2>2. QED  BY <2>1 DEF Lockstep, BlocksLockstep
<1>13. pos + SIG_LEN = Len(wire)  BY <1>1, <1>2 DEF bytes
<1>14. /\ SIG_LEN = sent[dek][c].n /\ pos + SIG_LEN <= Len(wire)
       /\ SubSeq(wire, pos + 1, pos + SIG_LEN) = Cells(dek, c, SIG_LEN)
  <2>1. SIG_LEN = sent[dek][c].n  BY <1>7, <1>11
  <2>2. pos + SIG_LEN <= Len(wire)  BY <1>1, <1>13
  <2>3. SubSeq(wire, pos + 1, pos + SIG_LEN) = bytes  BY <1>13 DEF Rest, bytes
  <2>4. QED  BY <1>11, <2>1, <2>2, <2>3
<1> HIDE DEF c, u, s
<1>15. Follows(sent, wire, dek, pos + SIG_LEN, c)
  <2>1. dpc \in {"block-header", "block", "sig"}  OBVIOUS
  <2>2. QED  BY <1>1, <1>11, <1>12, <1>14, <2>1, NextChunk
<1>16. Follows(sent, wire, dek, Len(wire), Len(sent[dek]))  BY <1>11, <1>13, <1>15
<1>17. epc[dek] # "WriteIo"
  <2> DEFINE x == wire[Len(wire)]
             l == Len(sent[dek])
  <2>1. x = [from |-> dek, chunk |-> l, byte |-> SIG_LEN]
    BY <1>11, <1>14, <1>16 DEF Follows
  <2>2. Len(wire) \in 1..Len(wire)  BY <1>1, <1>13
  <2>3. Came(x)  BY <2>2 DEF Complete, Written
  <2>4. l \in Nat
    <3>1. sent[dek] \in Seq(WriteUnit)  BY <1>9 DEF TypeOK, WireTypeOK
    <3>2. QED  BY <3>1
  <2>5. x # Noise  BY <1>1, <1>9, <2>1, <2>4, KeysAssumption
  <2>6. x.from = dek /\ x.chunk = l /\ x.byte = SIG_LEN  BY <2>1
  <2>7. SIG_LEN = sent[dek][l].n  BY <1>11, <1>14
  <2> HIDE DEF x
  <2>8. epc[dek] = "WriteIo" => SIG_LEN < SIG_LEN
    BY <2>3, <2>5, <2>6, <2>7 DEF Came
  <2>9. QED  BY <1>1, <2>8
<1>18. QED  BY <1>9, <1>10, <1>8, <1>11, <1>16, <1>17

LEMMA ReadSignatureComplete ==
  ASSUME TypeOK, Lockstep, Tally, Complete, ReadSignature
  PROVE  Complete'
<1>1. dpc = "sig" /\ UNCHANGED <<encryptVars, wireVars>> /\ UNCHANGED <<out, dwritten>>
  BY DEF ReadSignature, Return
<1>2. CASE dpc' \in DecryptEnded \ {"Ok"}  BY <1>1, <1>2, EndComplete
<1>3. CASE dpc' \notin DecryptEnded \ {"Ok"}
  <2>1. /\ dpc' = "Ok" /\ Closed /\ Len(Rest) = SIG_LEN /\ Verifies(Rest)
        /\ dek' = dek
    BY <1>3 DEF ReadSignature, Return, DecryptEnded
  <2>2. /\ dek \in Sessions /\ epc[dek] = "Ok"
        /\ Len(dmsg) = Base(dek) + 2 * Len(blocks[dek]) + 2
        /\ Follows(sent, wire, dek, Len(wire), Len(sent[dek]))
    BY <1>1, <2>1, VerifiedIsLast
  <2>3. Delivered(dek)
    BY <2>2 DEF Delivered, InOrder, Follows, NextByte, NextIn
  <2> DEFINE k == Len(blocks[dek])
             bs == blocks[dek]
  <2>4. /\ bs \in Seq(Seq(Byte)) /\ k \in Nat /\ plain[dek] \in Seq(Byte)
        /\ Len(plain[dek]) \in Nat
    BY <2>2, CountTypes
  <2>5. Len(out) = k /\ out \in Seq(Seq(Byte \union {Noise}))
    <3>1. out \in Seq(Seq(Byte \union {Noise}))  BY DEF TypeOK, DecryptTypeOK
    <3>2. receivers[dek] \in Seq(Keys \union {Fake})  BY <2>2 DEF TypeOK, EncryptTypeOK
    <3>3. Base(dek) \in Nat  BY <3>2 DEF Base
    <3>4. Len(dmsg) = Base(dek) + 2 * Len(out) + 2
      BY <1>1 DEF Lockstep, BlocksLockstep
    <3> DEFINE b == Base(dek)
               l == Len(out)
               m == Len(dmsg)
    <3>5. b \in Nat /\ l \in Nat /\ m = b + 2 * l + 2 /\ m = b + 2 * k + 2
      BY <2>2, <3>1, <3>3, <3>4
    <3> HIDE DEF b, l, m, k
    <3>6. l = k  BY <2>4, <3>5
    <3>7. QED  BY <3>1, <3>6 DEF l
  <2>6. out = bs
    <3>1. dek # NoDek  BY <2>2, DecryptAssumption
    <3>2. \A q \in 1..Len(out) : out[q] = bs[q]
      BY <3>1 DEF Lockstep, ReleasedLockstep
    <3>3. bs \in Seq(Seq(Byte \union {Noise}))  BY <2>4
    <3> HIDE DEF bs
    <3>4. QED  BY <2>5, <3>2, <3>3, SeqEqual DEF bs
  <2>7. read[dek] = Len(plain[dek]) /\ BlocksRead(dek) /\ read[dek] \in Nat
    BY <2>2, CountTypes DEF Tally, TallyOf, BytesRead
  <2>8. dwritten = Len(plain[dek])
    <3>1. BytesReleased  BY DEF Complete
    <3>2. CASE out = << >>
      <4>1. k = 0 /\ 0 * BLOCK_LEN = 0  BY <2>6, <3>2, LengthsAssumption
      <4>2. read[dek] <= k * BLOCK_LEN  BY <2>7 DEF BlocksRead
      <4>3. read[dek] <= 0  BY <4>1, <4>2
      <4>4. QED  BY <2>7, <3>1, <3>2, <4>3 DEF BytesReleased
    <3>3. CASE out # << >>
      <4>1. k \in 1..k /\ k \in Nat \ {0}  BY <2>4, <2>6, <3>3, EmptySeq
      <4>2. /\ Len(bs[k]) = BlockEnd(dek, k) - (k - 1) * BLOCK_LEN
            /\ BlockEnd(dek, k) = read[dek]
        BY <2>2, <2>7, <4>1, BlockLengths
      <4>3. dwritten = (k - 1) * BLOCK_LEN + Len(bs[k])
        BY <2>5, <2>6, <3>1, <3>3 DEF BytesReleased
      <4> DEFINE x == (k - 1) * BLOCK_LEN
      <4>4. x \in Nat  BY <4>1, LengthsAssumption
      <4>5. Len(bs[k]) = read[dek] - x /\ dwritten = x + Len(bs[k])  BY <4>2, <4>3
      <4> HIDE DEF x
      <4>6. QED  BY <2>7, <4>4, <4>5
    <3>4. QED  BY <3>2, <3>3
  <2>9. /\ epc' = epc /\ sent' = sent /\ wire' = wire /\ blocks' = blocks
        /\ read' = read /\ plain' = plain /\ out' = out /\ dwritten' = dwritten
    BY <1>1 DEF encryptVars, wireVars
  <2>10. Delivered(dek)'
    BY <2>1, <2>3, <2>9 DEF Delivered, InOrder, NextByte
  <2>11. Closed' /\ OkIsComplete'
    <3>1. dek # NoDek  BY <2>2, DecryptAssumption
    <3>2. Closed'  BY <2>1, <2>9 DEF Closed
    <3>3. QED
      BY <2>1, <2>2, <2>6, <2>7, <2>8, <2>9, <2>10, <3>1, <3>2 DEF OkIsComplete
  <2>12. Written'  BY <1>1, DecryptWritten DEF Complete
  <2>13. HeadersAsRead' /\ BlocksAsWritten'
    BY <2>1 DEF HeadersAsRead, BlocksAsWritten
  <2>14. BytesReleased'  BY <1>1 DEF Complete, BytesReleased
  <2>15. QED  BY <2>11, <2>12, <2>13, <2>14 DEF Complete
<1>4. QED  BY <1>2, <1>3

-----------------------------------------------------------------------------
LEMMA CompleteInit == Init => Complete
<1> SUFFICES ASSUME Init PROVE Complete  OBVIOUS
<1>1. \A s \in Sessions : epc[s] = "idle" /\ sent[s] = << >>
  BY DEF Init, EncryptInit, WireInit
<1>2. /\ wire = << >> /\ dpc = "headers" /\ pos = 0 /\ i = 0 /\ out = << >> /\ dwritten = 0
  BY DEF Init, WireInit, DecryptInit
<1>3. \A s \in Sessions : WrittenOf(s)  BY <1>1 DEF WrittenOf, AfterHeaders
<1>4. \A q \in 1..Len(wire) : Came(wire[q])  BY <1>2
<1>5. HeadersAsRead
  <2>1. 0 * ENC_HEADER_LEN = 0  BY EncLengthsType
  <2>2. QED  BY <1>2, <2>1 DEF HeadersAsRead
<1>6. BlocksAsWritten /\ BytesReleased  BY <1>2 DEF BlocksAsWritten, BytesReleased
<1>7. QED  BY <1>2, <1>3, <1>4, <1>5, <1>6 DEF Complete, Written

LEMMA CompleteInductive ==
  ASSUME TypeOK, Lockstep, Tally, Complete, [Next]_vars
  PROVE  Complete'
<1>1. TypeOK' /\ Lockstep'  BY LockstepInductive
<1>2. LoopsOK /\ EncryptHistories  BY DEF Lockstep
<1>3. dpc \in {"block-header", "block", "sig"} => dek \in Sessions
  BY DEF Lockstep, HeadersLockstep, TypeOK, DecryptTypeOK
<1>4. wire' \in Seq(Cell) /\ wire \in Seq(Cell) /\ pos \in 0..Len(wire)
  BY <1>1 DEF TypeOK, WireTypeOK, DecryptTypeOK
<1>5. sent \in [Sessions -> Seq(WriteUnit)]  BY DEF TypeOK, WireTypeOK
<1>6. \A t \in Sessions : Extends(sent[t], sent[t])  BY <1>5, ExtendsReflexive
<1>7. ASSUME NEW s \in Sessions, Writer(s)
      PROVE  Complete'
  <2>1. /\ Written' /\ Extends(wire', wire)
        /\ \A t \in Sessions : Extends(sent'[t], sent[t])
    BY <1>2, <1>7, WriterStream DEF Complete
  <2>2. pos <= Len(wire') /\ \A q \in 1..pos : wire'[q] = wire[q]
    BY <1>4, <2>1 DEF Extends
  <2>3. dek \in Sessions => receivers'[dek] = receivers[dek]
    <3>1. SUFFICES ASSUME dek \in Sessions PROVE receivers'[dek] = receivers[dek]
      OBVIOUS
    <3>2. epc[dek] # "idle"
      BY <3>1, DecryptAssumption DEF Lockstep, HeadersLockstep
    <3>3. QED  BY <1>2, <1>7, <3>1, <3>2, WriterGrows
  <2>4. UNCHANGED decryptVars  BY <1>7 DEF Writer
  <2>5. HeadersAsRead' /\ BlocksAsWritten' /\ BytesReleased'
    BY <1>3, <1>4, <2>1, <2>2, <2>3, <2>4, ReaderKept DEF Complete
  <2>6. dpc' # "Ok"
    <3>1. epc[s] \notin EncryptEnded  BY <1>7, WriterWrites
    <3>2. dpc # "Ok"  BY <3>1 DEF Complete, Closed
    <3>3. QED  BY <2>4, <3>2 DEF decryptVars
  <2>7. QED  BY <2>1, <2>5, <2>6 DEF Complete
<1>8. CASE DecryptStep
  BY <1>1, <1>8, DecryptHeaderComplete, DecryptBlockHeaderComplete, DecryptBlockComplete,
     ReadSignatureComplete DEF DecryptStep
<1>9. CASE Environment
  <2>1. /\ Written' /\ pos <= Len(wire') /\ UNCHANGED <<encryptVars, sent, decryptVars>>
        /\ \A q \in 1..pos : wire'[q] = wire[q]
    BY <1>9, EnvironmentStream DEF Complete
  <2>2. UNCHANGED decryptVars /\ sent' = sent /\ receivers' = receivers
    BY <2>1 DEF encryptVars
  <2>3. HeadersAsRead' /\ BlocksAsWritten' /\ BytesReleased'
    BY <1>3, <1>4, <1>6, <2>1, <2>2, ReaderKept DEF Complete
  <2>4. dpc' # "Ok"  BY <1>9, <2>2 DEF Environment, DecryptEnded, decryptVars
  <2>5. QED  BY <2>1, <2>3, <2>4 DEF Complete
<1>10. CASE UNCHANGED vars
  <2>1. UNCHANGED <<encryptVars, wireVars, decryptVars>>  BY <1>10 DEF vars
  <2>2. Written'  BY <2>1, DecryptWritten DEF Complete
  <2>3. UNCHANGED decryptVars /\ sent' = sent /\ receivers' = receivers /\ wire' = wire
    BY <2>1 DEF encryptVars, wireVars
  <2>4. HeadersAsRead' /\ BlocksAsWritten' /\ BytesReleased'
    BY <1>3, <1>4, <1>6, <2>3, ReaderKept DEF Complete
  <2>5. dpc' = "Ok" => Closed' /\ OkIsComplete'
    BY <2>1 DEF Complete, Closed, OkIsComplete, Delivered, InOrder, NextByte, encryptVars,
                wireVars, decryptVars
  <2>6. QED  BY <2>2, <2>4, <2>5 DEF Complete
<1>11. QED  BY <1>7, <1>8, <1>9, <1>10 DEF Next

LEMMA CompleteHolds == Spec => [](TypeOK /\ Lockstep /\ Tally /\ Complete)
<1>1. Init => TypeOK /\ Lockstep /\ Tally /\ Complete
  BY LockstepInit, TallyInit, CompleteInit
<1>2. TypeOK /\ Lockstep /\ Tally /\ Complete /\ [Next]_vars
        => (TypeOK /\ Lockstep /\ Tally /\ Complete)'
  <2>1. Lockstep => LoopsOK  BY DEF Lockstep
  <2>2. QED  BY <2>1, LockstepInductive, TallyInductive, CompleteInductive
<1>3. QED  BY <1>1, <1>2, PTL DEF Spec

\* However the stream was damaged, and whoever else wrote to it: when decrypt
\* returns Ok, the stream is one message, from the first byte of its first header to
\* the last of its signature, its sender finished it, and decrypt wrote all of its
\* plaintext and returned its length.
THEOREM CompleteCorrect == Spec => []OkIsComplete
<1>1. Complete => OkIsComplete  BY DEF Complete, OkIsComplete
<1>2. QED  BY CompleteHolds, <1>1, PTL

-----------------------------------------------------------------------------
(* The refinement, step by step.                                           *)

\* Whom a message is for is not known before encrypt is called, and its receivers
\* do not change after.
Unaddressed == \A s \in Sessions : epc[s] = "idle" => receivers[s] = << >>

LEMMA UnaddressedInductive ==
  ASSUME TypeOK, Unaddressed, [Next]_vars
  PROVE  Unaddressed'
<1>1. ASSUME NEW s \in Sessions, Writer(s)
      PROVE  Unaddressed'
  <2>1. DOMAIN epc = Sessions  BY DEF TypeOK, EncryptTypeOK
  <2>2. \A t \in Sessions \ {s} : epc'[t] = epc[t] /\ receivers'[t] = receivers[t]
    BY <1>1, OtherSessions
  <2>3. epc'[s] # "idle"
    BY <1>1, <2>1 DEF Writer, EncryptStep, Encrypt, WriteHeader, ReadBlock, WriteBlockHeader,
                      WriteBlock, WritePaddingHeader, WritePadding, WriteSignature,
                      SealAndWrite, Write
  <2>4. QED  BY <2>2, <2>3 DEF Unaddressed
<1>2. CASE UNCHANGED encryptVars  BY <1>2 DEF Unaddressed, encryptVars
<1>3. DecryptStep \/ Environment \/ UNCHANGED vars => UNCHANGED encryptVars
  BY DEF DecryptStep, DecryptHeader, DecryptBlockHeader, DecryptBlock, ReadSignature,
         Environment, vars
<1>4. QED  BY <1>1, <1>2, <1>3 DEF Next

\* The variables of AuthenticMessage.
Verdict ==
  IF dpc = "Ok" THEN "accepted" ELSE IF dpc \in DecryptEnded THEN "rejected" ELSE "pending"

\* A step of which AuthenticMessage knows nothing.
LEMMA Stutters ==
  ASSUME TypeOK, UNCHANGED <<sender, receivers, blocks, receiver, claimed, dek, out>>,
         \A s \in Sessions : epc'[s] = "Ok" <=> epc[s] = "Ok",
         Verdict' = Verdict
  PROVE  UNCHANGED Abstract!vars
BY DEF Abstract!vars, Verdict

LEMMA EncryptRefines ==
  ASSUME TypeOK, LoopsOK, Unaddressed, NEW s \in Sessions, Encrypt(s), UNCHANGED decryptVars
  PROVE  Abstract!Address(s)
<1>1. PICK shuffled \in Seq(Keys \union {Fake}) :
        /\ receivers' = [receivers EXCEPT ![s] = shuffled]
        /\ epc' = [epc EXCEPT ![s] = IF shuffled = << >> THEN "read" ELSE "headers"]
  BY EncryptEffect
<1>2. /\ epc[s] = "idle" /\ receivers[s] = << >> /\ blocks[s] = << >>
      /\ UNCHANGED <<sender, blocks>>
      /\ UNCHANGED <<receiver, claimed, dek, out, dpc>>
  BY DEF Encrypt, Unaddressed, LoopsOK, decryptVars
<1>3. /\ DOMAIN epc = Sessions /\ DOMAIN receivers = Sessions
      /\ \A t \in Sessions : epc'[t] = "Ok" <=> epc[t] = "Ok"
  BY <1>1, <1>2 DEF TypeOK, EncryptTypeOK
<1> DEFINE set == Range(shuffled) \ {Fake}
<1>4. set \in SUBSET Keys  BY DEF Range
<1>5. [t \in Sessions |-> Range(receivers'[t]) \ {Fake}] =
        [[t \in Sessions |-> Range(receivers[t]) \ {Fake}] EXCEPT ![s] = set]
  BY <1>1, <1>3
<1>6. Range(<< >>) = {}  BY DEF Range
<1> HIDE DEF set
<1>7. QED  BY <1>2, <1>3, <1>4, <1>5, <1>6 DEF Abstract!Address, Abstract!TheReader

LEMMA ReadBlockRefines ==
  ASSUME TypeOK, NEW s \in Sessions, ReadBlock(s), UNCHANGED decryptVars
  PROVE  Abstract!Compose(s) \/ UNCHANGED Abstract!vars
<1> DEFINE n == Taken(Len(plain[s]) - read[s])
           block == SubSeq(plain[s], read[s] + 1, read[s] + n)
<1>1. /\ epc[s] = "read" /\ UNCHANGED <<sender, receivers>>
      /\ UNCHANGED <<receiver, claimed, dek, out, dpc>>
  BY DEF ReadBlock, decryptVars
<1>2. \/ /\ n # 0 /\ blocks' = [blocks EXCEPT ![s] = Append(blocks[s], block)]
         /\ epc' = [epc EXCEPT ![s] = "block-header"]
      \/ UNCHANGED blocks /\ \E pc \in {"padding-header", "ReadIo"} :
                               epc' = [epc EXCEPT ![s] = pc]
  BY DEF ReadBlock
<1>3. DOMAIN epc = Sessions /\ DOMAIN blocks = Sessions  BY DEF TypeOK, EncryptTypeOK
<1>4. \A t \in Sessions : epc'[t] = "Ok" <=> epc[t] = "Ok"  BY <1>1, <1>2, <1>3
<1>5. CASE UNCHANGED blocks
  <2>1. Verdict' = Verdict  BY <1>1 DEF Verdict
  <2>2. QED  BY <1>1, <1>4, <1>5, <2>1, Stutters
<1>6. CASE n # 0 /\ blocks' = [blocks EXCEPT ![s] = Append(blocks[s], block)]
  <2>1. block \in Blocks
    <3>1. /\ plain[s] \in Plaintexts[s] /\ read[s] \in Nat /\ Len(plain[s]) \in Nat
          /\ read[s] <= Len(plain[s])
      BY CountTypes DEF TypeOK
    <3>2. n \in Nat /\ read[s] + n <= Len(plain[s])
      BY <3>1, LengthsAssumption DEF Taken
    <3> DEFINE a == read[s] + 1
               b == read[s] + n
    <3>3. a \in 1..Len(plain[s]) /\ b \in 1..Len(plain[s])
      <4> HIDE DEF n
      <4>1. QED  BY <1>6, <3>1, <3>2
    <3> HIDE DEF a, b
    <3>4. SubSeq(plain[s], a, b) \in Blocks  BY <3>1, <3>3 DEF Blocks
    <3>5. QED  BY <3>4 DEF a, b
  <2> HIDE DEF block
  <2>2. epc[s] # "Ok"  BY <1>1
  <2>3. Abstract!Compose(s)
    BY <1>1, <1>4, <1>6, <2>1, <2>2 DEF Abstract!Compose, Abstract!TheReader
  <2>4. QED  BY <2>3
<1>7. QED  BY <1>2, <1>5, <1>6

\* A chunk that is not the signature.
LEMMA WriteRefines ==
  ASSUME TypeOK, NEW s \in Sessions, NEW chunk, NEW pc, Write(s, chunk, pc), pc # "Ok",
         epc[s] # "Ok", UNCHANGED <<sender, receivers, blocks>>, UNCHANGED decryptVars
  PROVE  UNCHANGED Abstract!vars
<1>1. /\ \A t \in Sessions \ {s} : epc'[t] = epc[t]
      /\ epc'[s] \in {pc, "WriteIo"}
  BY WriteEffect
<1>2. Verdict' = Verdict  BY DEF Verdict, decryptVars
<1>3. UNCHANGED <<receiver, claimed, dek, out>>  BY DEF decryptVars
<1>4. \A t \in Sessions : epc'[t] = "Ok" <=> epc[t] = "Ok"  BY <1>1
<1>5. QED  BY <1>2, <1>3, <1>4, Stutters

LEMMA WriteSignatureRefines ==
  ASSUME TypeOK, NEW s \in Sessions, WriteSignature(s), UNCHANGED decryptVars
  PROVE  Abstract!Finish(s) \/ UNCHANGED Abstract!vars
<1>1. /\ epc[s] = "sign" /\ UNCHANGED <<sender, receivers, blocks>>
      /\ UNCHANGED <<receiver, claimed, dek, out, dpc>>
  BY DEF WriteSignature, decryptVars
<1>2. /\ \A t \in Sessions \ {s} : epc'[t] = epc[t]
      /\ epc'[s] \in {"Ok", "WriteIo"}
  BY WriteEffect DEF WriteSignature
<1>3. CASE epc'[s] = "Ok"
  <2>1. {t \in Sessions : epc'[t] = "Ok"} = {t \in Sessions : epc[t] = "Ok"} \union {s}
    BY <1>2, <1>3
  <2>2. QED  BY <1>1, <2>1 DEF Abstract!Finish, Abstract!TheReader
<1>4. CASE epc'[s] # "Ok"
  <2>1. \A t \in Sessions : epc'[t] = "Ok" <=> epc[t] = "Ok"  BY <1>1, <1>2, <1>4
  <2>2. Verdict' = Verdict  BY <1>1 DEF Verdict
  <2>3. QED  BY <1>1, <2>1, <2>2, Stutters
<1>5. QED  BY <1>3, <1>4

LEMMA WriterRefines ==
  ASSUME TypeOK, LoopsOK, Unaddressed, NEW s \in Sessions, Writer(s)
  PROVE  Abstract!Next \/ UNCHANGED Abstract!vars
<1>1. UNCHANGED decryptVars  BY DEF Writer
<1>2. CASE Encrypt(s)  BY <1>1, <1>2, EncryptRefines DEF Abstract!Next
<1>3. CASE ReadBlock(s)  BY <1>1, <1>3, ReadBlockRefines DEF Abstract!Next
<1>4. CASE WriteSignature(s)  BY <1>1, <1>4, WriteSignatureRefines DEF Abstract!Next
<1>5. CASE \/ WriteHeader(s) \/ WriteBlockHeader(s) \/ WriteBlock(s)
           \/ WritePaddingHeader(s) \/ WritePadding(s)
  <2>1. /\ \E chunk, pc : Write(s, chunk, pc) /\ pc # "Ok"
        /\ epc[s] # "Ok" /\ UNCHANGED <<sender, receivers, blocks>>
    <3>1. CASE WriteHeader(s)
      <4>1. (IF Len(sent[s]) + 1 = Len(receivers[s]) THEN "read" ELSE "headers") # "Ok"
        OBVIOUS
      <4>2. QED  BY <3>1, <4>1 DEF WriteHeader
    <3>2. CASE WriteBlockHeader(s)  BY <3>2 DEF WriteBlockHeader, SealAndWrite
    <3>3. CASE WriteBlock(s)
      <4>1. (IF Len(Last(blocks[s])) < BLOCK_LEN THEN "padding-header" ELSE "read") # "Ok"
        OBVIOUS
      <4>2. QED  BY <3>3, <4>1 DEF WriteBlock, SealAndWrite
    <3>4. CASE WritePaddingHeader(s)  BY <3>4 DEF WritePaddingHeader, SealAndWrite
    <3>5. CASE WritePadding(s)  BY <3>5 DEF WritePadding, SealAndWrite
    <3>6. QED  BY <1>5, <3>1, <3>2, <3>3, <3>4, <3>5
  <2>2. QED  BY <1>1, <2>1, WriteRefines
<1>6. QED  BY <1>2, <1>3, <1>4, <1>5 DEF Writer, EncryptStep

\* A return of decrypt with an error.
LEMMA EndRefines ==
  ASSUME UNCHANGED encryptVars, dpc \notin DecryptEnded, dpc' \in DecryptEnded \ {"Ok"},
         UNCHANGED <<receiver, claimed, dek, out>>
  PROVE  Abstract!Reject
<1>1. Verdict = "pending" /\ Verdict' = "rejected"  BY DEF Verdict, DecryptEnded
<1>2. UNCHANGED <<epc, sender, receivers, blocks>>  BY DEF encryptVars
<1>3. QED  BY <1>1, <1>2 DEF Abstract!Reject, Abstract!TheTexts, Verdict

\* A step of decrypt that shows nothing and returns nothing.
LEMMA ReadsOn ==
  ASSUME TypeOK, UNCHANGED encryptVars, dpc \notin DecryptEnded, dpc' \notin DecryptEnded,
         UNCHANGED <<receiver, claimed, dek, out>>
  PROVE  UNCHANGED Abstract!vars
<1>1. Verdict' = Verdict  BY DEF Verdict, DecryptEnded
<1>2. UNCHANGED <<epc, sender, receivers, blocks>>  BY DEF encryptVars
<1>3. QED  BY <1>1, <1>2, Stutters

LEMMA DecryptHeaderRefines ==
  ASSUME TypeOK, Lockstep, DecryptHeader
  PROVE  Abstract!Next \/ UNCHANGED Abstract!vars
<1>1. /\ dpc = "headers" /\ UNCHANGED encryptVars /\ UNCHANGED <<receiver, claimed, out>>
      /\ dpc \notin DecryptEnded
  BY DEF DecryptHeader, Return, DecryptEnded
<1>2. CASE dek' = dek /\ dpc' \in {"InvalidCiphertext", "ReadIo"}
  BY <1>1, <1>2, EndRefines DEF Abstract!Next, DecryptEnded
<1>3. CASE dek' = dek /\ dpc' \in {"headers", "block-header"}
  BY <1>1, <1>3, ReadsOn DEF DecryptEnded
<1> DEFINE bytes == NextBytes(ENC_HEADER_LEN)
           s == Chunk(bytes).plain[1]
           n == Chunk(bytes).plain[2]
<1>4. CASE /\ Avail(ENC_HEADER_LEN) /\ dek = NoDek /\ HeaderOpens(dmsg, bytes)
           /\ HeadersStep(Mix(dmsg, "header", bytes), s, n)
  <2>1. bytes \in Seq(Cell) /\ Len(bytes) = ENC_HEADER_LEN
    BY <1>4, NextBytesType, EncLengthsType
  <2> HIDE DEF bytes
  <2>2. /\ s \in Sessions /\ Addressed(s) /\ n \in Nat /\ i < n
    <3>1. LoopsOK /\ EncryptHistories /\ ReaderOK  BY DEF Lockstep, ReaderOK
    <3>2. QED  BY <1>1, <1>4, <2>1, <3>1, HeaderOpensAddressed
  <2> HIDE DEF s, n
  <2>3. s # NoDek  BY <2>2, DecryptAssumption
  <2>4. dek' = s /\ dpc' \in {"headers", "block-header"}
    BY <1>4, <2>3 DEF HeadersStep
  <2>5. sender[s] = claimed /\ receiver \in Range(receivers[s]) \ {Fake}
    <3>1. receiver # Fake  BY KeysAssumption DEF TypeOK, DecryptTypeOK
    <3>2. QED  BY <2>2, <3>1 DEF Addressed
  <2>6. Verdict = "pending" /\ Verdict' = "pending"
    BY <1>1, <2>4 DEF Verdict, DecryptEnded
  <2>7. UNCHANGED <<epc, sender, receivers, blocks>>  BY <1>1 DEF encryptVars
  <2>8. Abstract!Choose
    BY <1>1, <1>4, <2>2, <2>4, <2>5, <2>6, <2>7
       DEF Abstract!Choose, Abstract!TheTexts, Verdict
  <2>9. QED  BY <2>8 DEF Abstract!Next
<1>5. QED
  <2>1. \/ Return("InvalidCiphertext") \/ Return("ReadIo")
        \/ /\ Avail(ENC_HEADER_LEN)
           /\ IF dek = NoDek /\ HeaderOpens(dmsg, bytes)
              THEN HeadersStep(Mix(dmsg, "header", bytes), s, n)
              ELSE HeadersStep(Mix(dmsg, "header", bytes), dek, recvCount)
    BY DEF DecryptHeader
  <2>2. HeadersStep(Mix(dmsg, "header", bytes), dek, recvCount) =>
          dek' = dek /\ dpc' \in {"headers", "InvalidCiphertext", "block-header"}
    BY DEF HeadersStep
  <2>3. Return("InvalidCiphertext") \/ Return("ReadIo") =>
          dek' = dek /\ dpc' \in {"InvalidCiphertext", "ReadIo"}
    BY DEF Return
  <2> HIDE DEF bytes, s, n
  <2>4. QED  BY <1>2, <1>3, <1>4, <2>1, <2>2, <2>3

LEMMA DecryptBlockRefines ==
  ASSUME TypeOK, Lockstep, DecryptBlock, TypeOK', Lockstep'
  PROVE  Abstract!Next \/ UNCHANGED Abstract!vars
<1>1. /\ dpc = "block" /\ UNCHANGED encryptVars /\ UNCHANGED <<receiver, claimed, dek>>
      /\ dpc \notin DecryptEnded
  BY DEF DecryptBlock, Return, DecryptEnded
<1>2. \/ UNCHANGED out /\ dpc' \in DecryptEnded \ {"Ok"}
      \/ UNCHANGED out /\ dpc' = "sig"
      \/ dpc' = "block-header" /\ \E block : out' = Append(out, block)
  <2> DEFINE n == hdr[2] + TAG_LEN
             block == Chunk(NextBytes(n)).plain
  <2>1. \/ Return("InvalidCiphertext") \/ Return("UnexpectedEof") \/ Return("ReadIo")
        \/ IF hdr[1] = "Data"
           THEN Release(block)
           ELSE /\ dpc' = IF hdr[1] = "Padding" THEN "sig" ELSE "InvalidBlockType"
                /\ UNCHANGED <<out, torn, dwritten>>
    BY DEF DecryptBlock
  <2> HIDE DEF n, block
  <2>2. QED  BY <2>1 DEF Return, Release, DecryptEnded
<1>3. CASE UNCHANGED out /\ dpc' \in DecryptEnded \ {"Ok"}
  BY <1>1, <1>3, EndRefines DEF Abstract!Next
<1>4. CASE UNCHANGED out /\ dpc' = "sig"
  BY <1>1, <1>4, ReadsOn DEF DecryptEnded
<1>5. CASE dpc' = "block-header" /\ \E block : out' = Append(out, block)
  <2>1. PICK block : out' = Append(out, block)  BY <1>5
  <2>2. dek \in Sessions /\ dek # NoDek
    BY <1>1, DecryptAssumption DEF Lockstep, HeadersLockstep, TypeOK, DecryptTypeOK
  <2>3. /\ out \in Seq(Seq(Byte \union {Noise})) /\ blocks[dek] \in Seq(Seq(Byte))
        /\ out' \in Seq(Seq(Byte \union {Noise}))
    BY <2>2 DEF TypeOK, EncryptTypeOK, DecryptTypeOK
  <2>4. UNCHANGED <<epc, sender, receivers, blocks>>  BY <1>1 DEF encryptVars
  <2>5. /\ Len(out') <= Len(blocks[dek])
        /\ \A k \in 1..Len(out') : out'[k] = blocks[dek][k]
    BY <1>1, <2>2, <2>4 DEF Lockstep, ReleasedLockstep
  <2>6. Len(out') = Len(out) + 1 /\ out'[Len(out) + 1] = block  BY <2>1, <2>3
  <2>7. Len(out) < Len(blocks[dek]) /\ block = blocks[dek][Len(out) + 1]
    BY <2>3, <2>5, <2>6
  <2>8. Verdict = "pending" /\ Verdict' = "pending"
    BY <1>1, <1>5 DEF Verdict, DecryptEnded
  <2>9. Abstract!Show
    BY <1>1, <2>1, <2>2, <2>4, <2>7, <2>8 DEF Abstract!Show, Abstract!TheTexts, Verdict
  <2>10. QED  BY <2>9 DEF Abstract!Next
<1>6. QED  BY <1>2, <1>3, <1>4, <1>5

LEMMA ReadSignatureRefines ==
  ASSUME TypeOK, Complete', ReadSignature
  PROVE  Abstract!Next
<1>1. /\ dpc = "sig" /\ UNCHANGED encryptVars /\ UNCHANGED <<receiver, claimed, dek, out>>
      /\ dpc \notin DecryptEnded /\ dpc' \in DecryptEnded
  BY DEF ReadSignature, Return, DecryptEnded
<1>2. CASE dpc' # "Ok"  BY <1>1, <1>2, EndRefines DEF Abstract!Next
<1>3. CASE dpc' = "Ok"
  <2>1. UNCHANGED <<epc, sender, receivers, blocks>>  BY <1>1 DEF encryptVars
  <2>2. dek # NoDek /\ epc[dek] = "Ok" /\ out = blocks[dek]
    BY <1>1, <1>3, <2>1 DEF Complete, OkIsComplete
  <2>3. dek \in Sessions  BY <2>2 DEF TypeOK, DecryptTypeOK
  <2>4. Verdict = "pending" /\ Verdict' = "accepted"
    BY <1>1, <1>3 DEF Verdict
  <2>5. Abstract!Accept
    BY <1>1, <2>1, <2>2, <2>3, <2>4 DEF Abstract!Accept, Abstract!TheTexts, Verdict
  <2>6. QED  BY <2>5 DEF Abstract!Next
<1>4. QED  BY <1>2, <1>3

LEMMA StepRefines ==
  ASSUME TypeOK, Lockstep, Unaddressed, TypeOK', Lockstep', Complete', [Next]_vars
  PROVE  Abstract!Next \/ UNCHANGED Abstract!vars
<1>1. LoopsOK  BY DEF Lockstep
<1>2. ASSUME NEW s \in Sessions, Writer(s)
      PROVE  Abstract!Next \/ UNCHANGED Abstract!vars
  BY <1>1, <1>2, WriterRefines
<1>3. CASE DecryptHeader  BY <1>3, DecryptHeaderRefines
<1>4. CASE DecryptBlockHeader
  <2>1. /\ UNCHANGED encryptVars /\ UNCHANGED <<receiver, claimed, dek, out>>
        /\ dpc \notin DecryptEnded
        /\ dpc' \in {"block", "InvalidCiphertext", "UnexpectedEof", "ReadIo"}
    BY <1>4 DEF DecryptBlockHeader, Return, DecryptEnded
  <2>2. CASE dpc' = "block"  BY <2>1, <2>2, ReadsOn DEF DecryptEnded
  <2>3. CASE dpc' # "block"
    BY <2>1, <2>3, EndRefines DEF Abstract!Next, DecryptEnded
  <2>4. QED  BY <2>2, <2>3
<1>5. CASE DecryptBlock  BY <1>5, DecryptBlockRefines
<1>6. CASE ReadSignature  BY <1>6, ReadSignatureRefines
<1>7. CASE Environment \/ UNCHANGED vars
  <2>1. UNCHANGED encryptVars /\ UNCHANGED decryptVars
    BY <1>7 DEF Environment, vars
  <2>2. UNCHANGED <<epc, sender, receivers, blocks>>  BY <2>1 DEF encryptVars
  <2>3. UNCHANGED <<receiver, claimed, dek, out>> /\ Verdict' = Verdict
    BY <2>1 DEF decryptVars, Verdict
  <2>4. QED  BY <2>2, <2>3, Stutters
<1>8. QED  BY <1>2, <1>3, <1>4, <1>5, <1>6, <1>7 DEF Next, DecryptStep

LEMMA InitRefines == Init => Abstract!Init /\ Unaddressed
<1> SUFFICES ASSUME Init PROVE Abstract!Init /\ Unaddressed  OBVIOUS
<1>1. TypeOK  BY InitType
<1>2. /\ sender \in [Sessions -> Keys] /\ receiver \in Keys /\ claimed \in Keys
  BY <1>1 DEF TypeOK, EncryptTypeOK, DecryptTypeOK
<1>3. /\ epc = [s \in Sessions |-> "idle"] /\ receivers = [s \in Sessions |-> << >>]
      /\ blocks = [s \in Sessions |-> << >>]
  BY DEF Init, EncryptInit
<1>4. dpc = "headers" /\ dek = NoDek /\ out = << >>  BY DEF Init, DecryptInit
<1>5. Range(<< >>) = {}  BY DEF Range
<1>6. [s \in Sessions |-> Range(receivers[s]) \ {Fake}] = [s \in Sessions |-> {}]
  BY <1>3, <1>5
<1>7. {s \in Sessions : epc[s] = "Ok"} = {}  BY <1>3
<1>8. Abstract!Init  BY <1>2, <1>3, <1>4, <1>6, <1>7 DEF Abstract!Init, DecryptEnded
<1>9. Unaddressed  BY <1>3 DEF Unaddressed
<1>10. QED  BY <1>8, <1>9

\* Encryption, the stream with whatever befalls it, and decryption do nothing that
\* AuthenticMessage does not allow: what the reader is shown is at every moment the
\* beginning of one text that the sender she has in mind composed for her, and she
\* accepts it only when it is finished and she has seen all of it.
THEOREM RefinementCorrect == Spec => Abstract!SafeSpec
<1>1. Init => Abstract!Init /\ Unaddressed  BY InitRefines
<1>2. TypeOK /\ Unaddressed /\ [Next]_vars => Unaddressed'  BY UnaddressedInductive
<1>3. TypeOK /\ Lockstep /\ Tally /\ Complete /\ Unaddressed
      /\ (TypeOK /\ Lockstep /\ Tally /\ Complete)' /\ [Next]_vars
        => [Abstract!Next]_(Abstract!vars)
  <2> SUFFICES ASSUME TypeOK, Lockstep, Unaddressed, TypeOK', Lockstep', Complete', [Next]_vars
               PROVE  Abstract!Next \/ UNCHANGED Abstract!vars
    OBVIOUS
  <2> QED  BY StepRefines
<1>4. QED  BY <1>1, <1>2, <1>3, CompleteHolds, PTL DEF Spec, Abstract!SafeSpec

\* The lengths fit the fields that hold them: a block, and every padding, the three
\* bytes of a block header; the number of headers a u64.
LengthsFit ==
  /\ BLOCK_LEN < LEN_LIMIT
  /\ \A n \in 0..MAX_PLAINTEXT : PaddingLen[n] < LEN_LIMIT
  /\ \A list \in ReceiverLists, fakes \in Fakes : Len(list) + fakes <= U64_MAX

Broken == {"ReadIo", "WriteIo"}

\* The j-th turn of the chunks st that follow the h headers of a message of k blocks,
\* the padding counted as one more: a block header and the block it announces.  After
\* them comes the signature of the history m.
Turn(st, h, k, m, j) ==
  /\ h + 2 * j + 1 <= Len(st) =>
       LET u == st[h + 2 * j + 1]
       IN  IF j <= k THEN u.label = "block-header" /\ u.n = ENC_BLOCK_HEADER_LEN
           ELSE u.label = "signature" /\ u.under = SignedProtocol(m)
  /\ h + 2 * j + 2 <= Len(st) =>
       LET u == st[h + 2 * j + 2]
       IN  j <= k /\ u.label = "block" /\ u.n = st[h + 2 * j + 1].plain[2] + TAG_LEN

Turns(st, h, k, m) == \A j \in Nat : Turn(st, h, k, m, j)

\* What an encryption writes, chunk by chunk.
LaidOut(s) ==
  LET h == Len(receivers[s])
      k == Len(blocks[s])
      n == Len(sent[s])
  IN  /\ h <= U64_MAX
      /\ Len(message[s]) >= Base(s) => message[s][Base(s)] = <<"mix", "dek", s>>
      /\ \A c \in 1..n : c <= h /\ receivers[s][c] \in Keys => sent[s][c].label = "header"
      /\ Turns(sent[s], h, k, message[s])
      /\ epc[s] = "block" => sent[s][n].plain[2] = Len(Last(blocks[s]))
      /\ epc[s] = "padding" => sent[s][n].plain[2] = PaddingLen[read[s]]
      /\ epc[s] = "Ok" => n = h + 2 * k + 3

AllLaidOut == \A s \in Sessions : epc[s] \notin Broken \union {"idle"} => LaidOut(s)

\* Nothing has happened to the stream, and session s is the only one to write to it.
Alone(s) ==
  /\ edits = 0 /\ epc[s] \notin Broken
  /\ \A t \in Sessions \ {s} : sent[t] = << >>

Whole == \A s \in Sessions : Alone(s) =>
           IF sent[s] = << >> THEN wire = << >> ELSE Delivered(s)

\* decrypt has read the first c chunks of session s.
ReadUpTo(s, c) ==
  IF c = 0 THEN pos = 0 ELSE c \in 1..Len(sent[s]) /\ InOrder(s, pos, c)

\* In decrypt_headers: the header for this receiver is still to come, or its DEK is known.
Looking(s) ==
  /\ ReadUpTo(s, i)
  /\ i < Len(receivers[s])
  /\ dek = NoDek => recvCount = U64_MAX /\ \A j \in 1..i : receivers[s][j] # receiver
  /\ dek # NoDek => dek = s

\* In decrypt_message; its loop ends with the padding.
Opening(s) ==
  /\ dek = s
  /\ ReadUpTo(s, Len(dmsg) - 3)
  /\ dpc = "sig" => message[s][Len(dmsg) - 1][3][1] = "Padding"

Untouched ==
  /\ dpc = "headers" /\ pos = 0 /\ i = 0
  /\ dek = NoDek /\ recvCount = U64_MAX /\ dmsg = Start(claimed)

\* Where decrypt can be in the message of session s: it never fails but for I/O.
Reading(s) ==
  \/ dpc = "Ok"
  \/ IoErrors /\ dpc \in Broken
  \/ epc[s] = "idle" /\ Untouched
  \/ /\ epc[s] # "idle"
     /\ Len(dmsg) <= Len(message[s])
     /\ dmsg = SubSeq(message[s], 1, Len(dmsg))
     /\ \/ dpc = "headers" /\ Looking(s)
        \/ dpc \in {"block-header", "block", "sig"} /\ Opening(s)

AllRead ==
  \A s \in Sessions : Alone(s) /\ (epc[s] = "idle" \/ Addressed(s)) => Reading(s)

-----------------------------------------------------------------------------
(* What an encryption writes.                                              *)

\* How many chunks it has written at each point of the code.
LEMMA ChunksWritten ==
  ASSUME TypeOK, LoopsOK, NEW s \in Sessions, SessionOK(s), WrittenOf(s)
  PROVE  LET h == Len(receivers[s])
             k == Len(blocks[s])
             n == Len(sent[s])
         IN  /\ h \in Nat /\ k \in Nat /\ n \in Nat
             /\ epc[s] = "headers" => n < h /\ k = 0
             /\ epc[s] \in {"read", "padding-header"} => n = h + 2 * k
             /\ epc[s] = "block-header" => k >= 1 /\ n = h + 2 * (k - 1)
             /\ epc[s] = "block" => k >= 1 /\ n = h + 2 * (k - 1) + 1
             /\ epc[s] = "padding" => n = h + 2 * k + 1
             /\ epc[s] = "sign" => n = h + 2 * k + 2
<1> DEFINE h == Len(receivers[s])
           k == Len(blocks[s])
           n == Len(sent[s])
           m == Len(message[s])
           b == Base(s)
<1>1. h \in Nat /\ k \in Nat /\ n \in Nat /\ m \in Nat /\ b = h + 3
  BY DEF TypeOK, EncryptTypeOK, WireTypeOK, Base
<1>2. epc[s] \in AfterHeaders => m = n + 3  BY DEF WrittenOf
<1>3. epc[s] \in {"block-header", "block"} => k >= 1
  <2>1. blocks[s] # << >> => k # 0
    BY EmptySeq DEF TypeOK, EncryptTypeOK
  <2>2. epc[s] \in {"block-header", "block"} => k # 0  BY <2>1 DEF LoopsOK
  <2> HIDE DEF k
  <2>3. QED  BY <1>1, <2>2
<1>4. epc[s] = "headers" => n < h /\ k = 0  BY EmptySeq DEF LoopsOK, SessionOK, HistoryLength
<1>5. /\ epc[s] \in {"read", "padding-header"} => m = b + 2 * k
      /\ epc[s] = "block-header" => m = (b + 2 * k) - 2
      /\ epc[s] = "block" => m = (b + 2 * k) - 1
      /\ epc[s] = "padding" => m = b + 2 * k + 1
      /\ epc[s] = "sign" => m = b + 2 * k + 2
  <2>1. HistoryLength(s)  BY DEF SessionOK
  <2>2. QED  BY <2>1 DEF HistoryLength
<1> HIDE DEF h, k, n, m, b
<1>6. /\ epc[s] \in {"read", "padding-header"} => n = h + 2 * k
      /\ epc[s] = "block-header" => k >= 1 /\ n = h + 2 * (k - 1)
      /\ epc[s] = "block" => k >= 1 /\ n = h + 2 * (k - 1) + 1
      /\ epc[s] = "padding" => n = h + 2 * k + 1
      /\ epc[s] = "sign" => n = h + 2 * k + 2
  <2>1. m = n + 3 => /\ m = b + 2 * k => n = h + 2 * k
                     /\ m = (b + 2 * k) - 2 => n = h + 2 * (k - 1)
                     /\ m = (b + 2 * k) - 1 => n = h + 2 * (k - 1) + 1
                     /\ m = b + 2 * k + 1 => n = h + 2 * k + 1
                     /\ m = b + 2 * k + 2 => n = h + 2 * k + 2
    BY <1>1
  <2>2. QED  BY <1>2, <1>3, <1>5, <2>1, Zenon DEF AfterHeaders
<1>7. QED  BY <1>1, <1>4, <1>6 DEF h, k, n

\* One chunk more, when there was no signature yet.
LEMMA TurnsAppend ==
  ASSUME NEW S, NEW st \in Seq(S), NEW u \in S, NEW h \in Nat, NEW k \in Nat, NEW m, NEW m2,
         Turns(st, h, k, m), Len(st) <= h + 2 * k + 2,
         \/ Len(st) < h
         \/ \E j \in 0..k :
              \/ /\ Len(st) = h + 2 * j
                 /\ u.label = "block-header" /\ u.n = ENC_BLOCK_HEADER_LEN
              \/ /\ Len(st) = h + 2 * j + 1
                 /\ u.label = "block" /\ u.n = st[h + 2 * j + 1].plain[2] + TAG_LEN
         \/ /\ Len(st) = h + 2 * k + 2
            /\ u.label = "signature" /\ u.under = SignedProtocol(m2)
  PROVE  Turns(Append(st, u), h, k, m2)
<1> DEFINE n == Len(st)
           st2 == Append(st, u)
<1>1. /\ Len(st2) = n + 1 /\ st2[n + 1] = u /\ n \in Nat
      /\ \A q \in 1..n : st2[q] = st[q]
  OBVIOUS
<1> HIDE DEF st2
<1>2. SUFFICES ASSUME NEW j \in Nat
               PROVE  Turn(st2, h, k, m2, j)
  BY DEF Turns, st2
<1>3. Turn(st, h, k, m, j)  BY DEF Turns
<1> DEFINE a == h + 2 * j + 1
<1>4. a \in Nat \ {0} /\ h + 2 * j + 2 = a + 1 /\ a = h + 2 * j + 1  OBVIOUS
<1>5. ASSUME a <= Len(st2)
      PROVE  IF j <= k
             THEN st2[a].label = "block-header" /\ st2[a].n = ENC_BLOCK_HEADER_LEN
             ELSE st2[a].label = "signature" /\ st2[a].under = SignedProtocol(m2)
  <2>1. CASE a <= n
    <3>1. j <= k  BY <1>1, <1>4, <2>1
    <3>2. st2[a] = st[a]  BY <1>1, <1>4, <2>1
    <3>3. QED  BY <1>3, <1>4, <2>1, <3>1, <3>2 DEF Turn
  <2>2. CASE a = n + 1
    <3>1. st2[a] = u  BY <1>1, <2>2
    <3>2. CASE \E q \in 0..k : n = h + 2 * q /\ u.label = "block-header"
                               /\ u.n = ENC_BLOCK_HEADER_LEN
      <4>1. j <= k  BY <1>1, <1>4, <2>2, <3>2
      <4>2. QED  BY <3>1, <3>2, <4>1
    <3>3. CASE n = h + 2 * k + 2 /\ u.label = "signature" /\ u.under = SignedProtocol(m2)
      <4>1. ~(j <= k)  BY <1>1, <1>4, <2>2, <3>3
      <4>2. QED  BY <3>1, <3>3, <4>1
    <3>4. ~(n < h)  BY <1>1, <1>4, <2>2
    <3>5. ASSUME NEW q \in 0..k  PROVE  ~(n = h + 2 * q + 1)
      BY <1>1, <1>4, <2>2
    <3>6. QED  BY <3>2, <3>3, <3>4, <3>5
  <2>3. QED  BY <1>1, <1>4, <1>5, <2>1, <2>2
<1>6. ASSUME a + 1 <= Len(st2)
      PROVE  /\ j <= k /\ st2[a + 1].label = "block"
             /\ st2[a + 1].n = st2[a].plain[2] + TAG_LEN
  <2>1. a <= n /\ st2[a] = st[a]  BY <1>1, <1>4, <1>6
  <2>2. CASE a + 1 <= n
    <3> HIDE DEF a, n
    <3>1. a + 1 \in 1..n  BY <1>1, <1>4, <2>2
    <3>2. st2[a + 1] = st[a + 1]  BY <1>1, <3>1
    <3>3. QED  BY <1>3, <1>4, <2>1, <2>2, <3>2 DEF Turn, a, n
  <2>3. CASE a = n
    <3>1. st2[a + 1] = u  BY <1>1, <2>3
    <3>2. CASE \E q \in 0..k : /\ n = h + 2 * q + 1 /\ u.label = "block"
                               /\ u.n = st[h + 2 * q + 1].plain[2] + TAG_LEN
      <4>1. PICK q \in 0..k : /\ n = h + 2 * q + 1 /\ u.label = "block"
                              /\ u.n = st[h + 2 * q + 1].plain[2] + TAG_LEN
        BY <3>2
      <4>2. q = j  BY <1>1, <1>4, <2>3, <4>1
      <4>3. QED  BY <1>4, <2>1, <3>1, <4>1, <4>2
    <3>3. ~(n < h)  BY <1>1, <1>4, <2>3
    <3>4. ASSUME NEW q \in 0..k  PROVE  ~(n = h + 2 * q)
      BY <1>1, <1>4, <2>3
    <3>5. ~(n = h + 2 * k + 2)  BY <1>1, <1>4, <2>3
    <3>6. QED  BY <3>2, <3>3, <3>4, <3>5
  <2>4. QED  BY <1>1, <1>4, <1>6, <2>2, <2>3
<1>7. QED  BY <1>4, <1>5, <1>6 DEF Turn

\* One block more, before anything of it was written.
LEMMA TurnsBlock ==
  ASSUME NEW S, NEW st \in Seq(S), NEW h \in Nat, NEW k \in Nat, NEW m,
         Turns(st, h, k, m), Len(st) <= h + 2 * k
  PROVE  Turns(st, h, k + 1, m)
<1>1. SUFFICES ASSUME NEW j \in Nat
               PROVE  Turn(st, h, k + 1, m, j)
  BY DEF Turns
<1>2. Turn(st, h, k, m, j) /\ Len(st) \in Nat  BY DEF Turns
<1>3. CASE j <= k
  <2>1. j <= k + 1  BY <1>3
  <2>2. QED  BY <1>2, <1>3, <2>1 DEF Turn
<1>4. CASE ~(j <= k)
  <2>1. ~(h + 2 * j + 1 <= Len(st)) /\ ~(h + 2 * j + 2 <= Len(st))  BY <1>2, <1>4
  <2>2. QED  BY <2>1 DEF Turn
<1>5. QED  BY <1>3, <1>4

LEMMA EncryptLaidOut ==
  ASSUME TypeOK, LoopsOK, LengthsFit, NEW s \in Sessions, Encrypt(s)
  PROVE  LaidOut(s)'
<1> DEFINE Effect(shuffled) ==
           /\ receivers' = [receivers EXCEPT ![s] = shuffled]
           /\ message' = [message EXCEPT ![s] =
                            IF shuffled = << >> THEN Keyed(Start(sender[s]), s)
                            ELSE Start(sender[s])]
           /\ epc' = [epc EXCEPT ![s] = IF shuffled = << >> THEN "read" ELSE "headers"]
<1>1. PICK list \in ReceiverLists, fakes \in Fakes :
        \E shuffled \in Shuffled(list \o [k \in 1..fakes |-> Fake]) : Effect(shuffled)
  BY DEF Encrypt
<1> DEFINE tail == [k \in 1..fakes |-> Fake]
           all == list \o tail
<1>2. list \in Seq(Keys \union {Fake}) /\ fakes \in Nat
  BY KeysAssumption, SeqMonotonic
<1>3. tail \in Seq(Keys \union {Fake}) /\ Len(tail) = fakes  BY <1>2
<1> HIDE DEF tail
<1>4. all \in Seq(Keys \union {Fake}) /\ Len(all) = Len(list) + fakes
  BY <1>2, <1>3, ConcatProperties
<1> HIDE DEF all, Effect
<1>5. PICK shuffled \in Shuffled(all) : Effect(shuffled)  BY <1>1 DEF all, tail
<1>6. shuffled \in Seq(Keys \union {Fake}) /\ Len(shuffled) = Len(all)
  BY <1>4 DEF Shuffled
<1>7. Len(shuffled) <= U64_MAX /\ Len(shuffled) \in Nat  BY <1>4, <1>6 DEF LengthsFit
<1>8. /\ receivers'[s] = shuffled
      /\ message'[s] = IF shuffled = << >> THEN Keyed(Start(sender[s]), s)
                       ELSE Start(sender[s])
      /\ epc'[s] \in {"read", "headers"}
  <2>1. DOMAIN receivers = Sessions /\ DOMAIN message = Sessions /\ DOMAIN epc = Sessions
    BY DEF TypeOK, EncryptTypeOK
  <2>2. QED  BY <1>5, <2>1 DEF Effect
<1>9. sent'[s] = << >>  BY DEF Encrypt, wireVars, LoopsOK
<1>10. Len(message'[s]) >= Base(s)' => message'[s][Base(s)'] = <<"mix", "dek", s>>
  <2>1. Base(s)' = Len(shuffled) + 3  BY <1>8 DEF Base
  <2>2. CASE shuffled = << >>
    <3>1. Base(s)' = 3  BY <2>1, <2>2
    <3>2. Keyed(Start(sender[s]), s)[3] = <<"mix", "dek", s>>
      BY DEF Keyed, Start, New, Mix
    <3>3. QED  BY <1>8, <2>2, <3>1, <3>2
  <2>3. CASE shuffled # << >>
    <3>1. Len(message'[s]) = 2  BY <1>8, <2>3 DEF Start, New, Mix
    <3>2. QED  BY <1>7, <2>1, <3>1
  <2>4. QED  BY <2>2, <2>3
<1>11. Turns(sent'[s], Len(receivers'[s]), Len(blocks'[s]), message'[s])
  <2>1. SUFFICES ASSUME NEW j \in Nat
                 PROVE  ~(Len(shuffled) + 2 * j + 1 <= Len(sent'[s]))
                        /\ ~(Len(shuffled) + 2 * j + 2 <= Len(sent'[s]))
    BY <1>8 DEF Turns, Turn
  <2>2. Len(sent'[s]) = 0  BY <1>9
  <2>3. QED  BY <1>7, <2>2
<1>12. QED  BY <1>7, <1>8, <1>9, <1>10, <1>11 DEF LaidOut

LEMMA ReadBlockLaidOut ==
  ASSUME TypeOK, LoopsOK, NEW s \in Sessions, SessionOK(s), WrittenOf(s), LaidOut(s),
         ReadBlock(s)
  PROVE  LaidOut(s)'
<1> DEFINE h == Len(receivers[s])
           k == Len(blocks[s])
<1>1. /\ epc[s] = "read" /\ UNCHANGED <<receivers, message, sent>>
      /\ epc'[s] \in {"padding-header", "block-header", "ReadIo"}
      /\ Len(blocks'[s]) \in {k, k + 1}
  <2>1. DOMAIN epc = Sessions /\ DOMAIN blocks = Sessions /\ blocks[s] \in Seq(Seq(Byte))
    BY DEF TypeOK, EncryptTypeOK
  <2>2. epc'[s] \in {"padding-header", "block-header", "ReadIo"}
    BY <2>1, ReadBlockEffect
  <2>3. blocks' = blocks \/ \E block \in Seq(Byte) : blocks'[s] = Append(blocks[s], block)
    BY <2>1, ReadBlockEffect
  <2>4. QED  BY <2>1, <2>2, <2>3 DEF ReadBlock, wireVars
<1>2. /\ h \in Nat /\ k \in Nat /\ Len(sent[s]) = h + 2 * k
  BY <1>1, ChunksWritten
<1>3. sent[s] \in Seq(WriteUnit) /\ Turns(sent[s], h, k, message[s])
  BY DEF TypeOK, WireTypeOK, LaidOut
<1> HIDE DEF h, k
<1>4. Turns(sent[s], h, k + 1, message[s])  BY <1>2, <1>3, TurnsBlock
<1>5. Turns(sent[s], h, Len(blocks'[s]), message[s])  BY <1>1, <1>3, <1>4
<1>6. Base(s)' = Base(s)  BY <1>1 DEF Base
<1>7. QED  BY <1>1, <1>5, <1>6 DEF LaidOut, h

\* A step that writes a chunk in its turn.
LEMMA WriteLaidOut ==
  ASSUME TypeOK, NEW s \in Sessions, LaidOut(s), NEW chunk \in WriteUnit, NEW pc,
         Write(s, chunk, pc), receivers'[s] = receivers[s], blocks'[s] = blocks[s],
         read'[s] = read[s], NEW m2, message'[s] = m2,
         Len(m2) >= Base(s) => m2[Base(s)] = <<"mix", "dek", s>>,
         Len(sent[s]) + 1 <= Len(receivers[s]) /\ receivers[s][Len(sent[s]) + 1] \in Keys
           => chunk.label = "header",
         Turns(Append(sent[s], chunk), Len(receivers[s]), Len(blocks[s]), m2),
         epc'[s] = "block" => chunk.plain[2] = Len(Last(blocks[s])),
         epc'[s] = "padding" => chunk.plain[2] = PaddingLen[read[s]],
         epc'[s] = "Ok" => Len(sent[s]) + 1 = Len(receivers[s]) + 2 * Len(blocks[s]) + 3
  PROVE  LaidOut(s)'
<1> DEFINE n == Len(sent[s])
           h == Len(receivers[s])
<1>1. sent'[s] = Append(sent[s], chunk)  BY WriteEffect
<1>2. /\ sent[s] \in Seq(WriteUnit) /\ n \in Nat
  BY DEF TypeOK, WireTypeOK
<1>3. /\ Len(sent'[s]) = n + 1 /\ sent'[s][n + 1] = chunk
      /\ \A c \in 1..n : sent'[s][c] = sent[s][c]
  BY <1>1, <1>2, AppendExtends DEF Extends
<1>4. /\ h <= U64_MAX
      /\ \A c \in 1..n : c <= h /\ receivers[s][c] \in Keys => sent[s][c].label = "header"
  BY DEF LaidOut
<1>5. ASSUME NEW c \in 1..(n + 1), c <= h, receivers[s][c] \in Keys
      PROVE  sent'[s][c].label = "header"
  <2>1. CASE c \in 1..n  BY <1>3, <1>4, <1>5, <2>1
  <2>2. CASE c = n + 1  BY <1>3, <1>5, <2>2
  <2>3. QED  BY <1>2, <2>1, <2>2
<1>6. Base(s)' = Base(s)  BY DEF Base
<1>7. QED  BY <1>1, <1>3, <1>4, <1>5, <1>6 DEF LaidOut

LEMMA WriteHeaderLaidOut ==
  ASSUME TypeOK, LoopsOK, NEW s \in Sessions, SessionOK(s), WrittenOf(s), LaidOut(s),
         WriteHeader(s)
  PROVE  LaidOut(s)'
<1> DEFINE n     == Len(sent[s])
           h     == Len(receivers[s])
           m     == message[s]
           mixed == Mix(m, "header", Cells(s, n + 1, ENC_HEADER_LEN))
           m2    == IF n + 1 = h THEN Keyed(mixed, s) ELSE mixed
           pc    == IF n + 1 = h THEN "read" ELSE "headers"
           chunk == EncHeader(s, receivers[s][n + 1], Cells(s, n + 1, ENC_HEADER_LEN))
<1>1. /\ epc[s] = "headers" /\ n < h /\ Len(m) = n + 2 /\ Len(blocks[s]) = 0
  BY EmptySeq DEF WriteHeader, LoopsOK, SessionOK, HistoryLength
<1>2. PICK u \in WriteUnit :
        /\ Write(s, u, pc)
        /\ message' = [message EXCEPT ![s] = m2] /\ m2 \in Seq(Op)
        /\ UNCHANGED <<sender, receivers, plain, read, blocks>>
  BY <1>1, WriteHeaderEffect
<1>3. /\ m \in Seq(Op) /\ n \in Nat /\ h \in Nat /\ DOMAIN message = Sessions
      /\ sent[s] \in Seq(WriteUnit)
  BY DEF TypeOK, EncryptTypeOK, WireTypeOK
<1>4. u = chunk
  <2>1. sent'[s] = Append(sent[s], u)  BY <1>2, WriteEffect
  <2>2. Write(s, chunk, pc)  BY DEF WriteHeader
  <2> HIDE DEF chunk, pc
  <2>3. sent'[s] = Append(sent[s], chunk)  BY <2>2, WriteEffect
  <2>4. /\ Append(sent[s], u)[Len(sent[s]) + 1] = u
        /\ Append(sent[s], chunk)[Len(sent[s]) + 1] = chunk
    BY <1>3
  <2>5. QED  BY <2>1, <2>3, <2>4
<1>5. receivers[s][n + 1] \in Keys => chunk.label = "header"
  BY KeysAssumption DEF EncHeader, Ciphertext
<1>6. Len(m2) >= Base(s) => m2[Base(s)] = <<"mix", "dek", s>>
  <2>1. Base(s) = h + 3  BY DEF Base
  <2> DEFINE e == <<"mix", "header", Cells(s, n + 1, ENC_HEADER_LEN)>>
             d == <<"mix", "dek", s>>
  <2>2. mixed = Append(m, e) /\ Keyed(mixed, s) = Append(mixed, d)
    BY DEF Mix, Keyed
  <2>3. e \in Op /\ d \in Op
    <3>1. Cells(s, n + 1, ENC_HEADER_LEN) \in Seq(Cell)  BY <1>3, CellsType, EncLengthsType
    <3>2. QED  BY <3>1 DEF Op
  <2> HIDE DEF e, mixed, m
  <2>4. mixed \in Seq(Op) /\ Len(mixed) = n + 3
    <3>1. Append(m, e) \in Seq(Op) /\ Len(Append(m, e)) = Len(m) + 1
      BY <1>3, <2>3, AppendExtends
    <3>2. QED  BY <1>1, <1>3, <2>2, <3>1
  <2>5. CASE n + 1 = h
    <3> HIDE DEF d
    <3>1. /\ Len(Append(mixed, d)) = Len(mixed) + 1 /\ Append(mixed, d)[Len(mixed) + 1] = d
      BY <2>3, <2>4, AppendExtends
    <3>2. Len(mixed) + 1 = Base(s)  BY <1>3, <2>1, <2>4, <2>5
    <3>3. QED  BY <2>2, <2>5, <3>1, <3>2 DEF d
  <2>6. CASE n + 1 # h
    <3>1. ~(Len(mixed) >= Base(s))  BY <1>1, <1>3, <2>1, <2>4, <2>6
    <3>2. QED  BY <2>6, <3>1
  <2>7. QED  BY <2>5, <2>6
<1>7. Turns(Append(sent[s], u), h, Len(blocks[s]), m2)
  <2>1. \A j \in Nat : Turn(Append(sent[s], u), h, 0, m2, j)
    <3>1. TAKE j \in Nat
    <3>2. Len(Append(sent[s], u)) = n + 1  BY <1>3
    <3>3. n \in Nat /\ h \in Nat /\ n < h  BY <1>1, <1>3
    <3> HIDE DEF n, h
    <3>4. ~(h + 2 * j + 1 <= n + 1) /\ ~(h + 2 * j + 2 <= n + 1)  BY <3>3
    <3>5. QED  BY <3>2, <3>4 DEF Turn
  <2>2. QED  BY <1>1, <2>1 DEF Turns
<1>8. epc'[s] \in {"read", "headers", "WriteIo"}
  BY <1>2, WriteEffect
<1>9. message'[s] = m2  BY <1>2, <1>3
<1> HIDE DEF m2, chunk, pc
<1>10. QED  BY <1>2, <1>4, <1>5, <1>6, <1>7, <1>8, <1>9, WriteLaidOut

\* Is it the turn of this seal?
SealsNext(s, label, plaintext, len, pc) ==
  LET n == Len(sent[s])
      h == Len(receivers[s])
  IN  /\ epc[s] \in AfterHeaders /\ len \in Nat /\ pc # "Ok"
      /\ \E q \in 0..Len(blocks[s]) :
           \/ /\ label = "block-header" /\ plaintext \in {"Data", "Padding"} \X Nat
              /\ n = h + 2 * q /\ len = BLOCK_HEADER_LEN
           \/ /\ label = "block" /\ plaintext \in Seq(Byte \union {Noise})
              /\ n = h + 2 * q + 1 /\ len = sent[s][n].plain[2]
      /\ pc = "block" => plaintext[2] = Len(Last(blocks[s]))
      /\ pc = "padding" => plaintext[2] = PaddingLen[read[s]]

LEMMA SealLaidOut ==
  ASSUME TypeOK, LoopsOK, NEW s \in Sessions, SessionOK(s), WrittenOf(s), LaidOut(s),
         NEW label, NEW plaintext, NEW len, NEW pc,
         SealsNext(s, label, plaintext, len, pc), SealAndWrite(s, label, plaintext, len, pc)
  PROVE  LaidOut(s)'
<1> DEFINE m     == message[s]
           e     == <<"seal", label, plaintext>>
           m2    == Append(m, e)
           chunk == Ciphertext(m, label, plaintext, len + TAG_LEN)
           n     == Len(sent[s])
           h     == Len(receivers[s])
           k     == Len(blocks[s])
<1>0. /\ epc[s] \in AfterHeaders /\ len \in Nat /\ pc # "Ok"
      /\ pc = "block" => plaintext[2] = Len(Last(blocks[s]))
      /\ pc = "padding" => plaintext[2] = PaddingLen[read[s]]
  BY DEF SealsNext
<1>3. TAG_LEN \in Nat \ {0} /\ len + TAG_LEN \in Nat \ {0}
  <2>1. TAG_LEN \in Nat \ {0} /\ len \in Nat  BY <1>0, LengthsAssumption
  <2>2. QED  BY <2>1
<1> PICK q \in 0..k :
       \/ /\ label = "block-header" /\ plaintext \in {"Data", "Padding"} \X Nat
          /\ n = h + 2 * q /\ len = BLOCK_HEADER_LEN
       \/ /\ label = "block" /\ plaintext \in Seq(Byte \union {Noise})
          /\ n = h + 2 * q + 1 /\ len = sent[s][n].plain[2]
  BY DEF SealsNext
<1>1. /\ Write(s, chunk, pc) /\ message' = [message EXCEPT ![s] = m2]
      /\ UNCHANGED <<sender, receivers, blocks, read>>
  BY DEF SealAndWrite, Sealed
<1>2. /\ m \in Seq(Op) /\ DOMAIN message = Sessions /\ sent[s] \in Seq(WriteUnit)
      /\ n \in Nat /\ h \in Nat /\ k \in Nat
  BY DEF TypeOK, EncryptTypeOK, WireTypeOK
<1>4. e \in Op  BY DEF Op
<1>5. chunk \in WriteUnit
  BY <1>3, <1>2 DEF Ciphertext, WriteUnit, CiphertextOf
<1>6. /\ chunk.n = len + TAG_LEN /\ chunk.label = label /\ chunk.plain = plaintext
  BY DEF Ciphertext
<1>7. /\ Base(s) = h + 3 /\ Len(m) >= Base(s) /\ Len(m) \in Nat /\ Len(m) = n + 3
  BY <1>0, PastHeaders DEF WrittenOf
<1> HIDE DEF e, chunk, m
<1>8. m2[Base(s)] = <<"mix", "dek", s>> /\ message'[s] = m2
  <2>1. Base(s) \in 1..Len(m)  BY <1>2, <1>7
  <2>2. m2[Base(s)] = m[Base(s)]  BY <1>2, <1>4, <2>1, AppendExtends DEF Extends
  <2>3. m[Base(s)] = <<"mix", "dek", s>>  BY <1>7 DEF LaidOut, m
  <2>4. QED  BY <1>1, <1>2, <2>2, <2>3
<1>9. ~(n + 1 <= h)  BY <1>2, <1>7
<1>10. Turns(Append(sent[s], chunk), h, k, m2)
  <2>1. Turns(sent[s], h, k, m)  BY DEF LaidOut, m
  <2>2. label = "block-header" =>
          /\ n = h + 2 * q
          /\ chunk.label = "block-header" /\ chunk.n = ENC_BLOCK_HEADER_LEN
    BY <1>6 DEF ENC_BLOCK_HEADER_LEN
  <2>3. label = "block" =>
          /\ n = h + 2 * q + 1 /\ chunk.label = "block"
          /\ chunk.n = sent[s][h + 2 * q + 1].plain[2] + TAG_LEN
    BY <1>6
  <2>4. q \in 0..k /\ q \in Nat /\ q <= k  BY <1>2
  <2> HIDE DEF n, h, k
  <2>5. n <= h + 2 * k + 2
    <3>1. n = h + 2 * q \/ n = h + 2 * q + 1  BY <2>2, <2>3
    <3>2. QED  BY <1>2, <2>4, <3>1
  <2>6. \E j \in 0..k :
          \/ /\ Len(sent[s]) = h + 2 * j
             /\ chunk.label = "block-header" /\ chunk.n = ENC_BLOCK_HEADER_LEN
          \/ /\ Len(sent[s]) = h + 2 * j + 1
             /\ chunk.label = "block" /\ chunk.n = sent[s][h + 2 * j + 1].plain[2] + TAG_LEN
    BY <2>2, <2>3, <2>4 DEF n
  <2>7. Len(sent[s]) <= h + 2 * k + 2  BY <2>5 DEF n
  <2> HIDE DEF m2
  <2>8. QED  BY <1>2, <1>5, <2>1, <2>6, <2>7, TurnsAppend
<1>11. epc'[s] \in {pc, "WriteIo"}  BY <1>1, WriteEffect
<1>12. /\ epc'[s] = "block" => chunk.plain[2] = Len(Last(blocks[s]))
       /\ epc'[s] = "padding" => chunk.plain[2] = PaddingLen[read[s]]
       /\ epc'[s] # "Ok"
  BY <1>0, <1>6, <1>11
<1> HIDE DEF m2
<1>13. QED  BY <1>1, <1>5, <1>8, <1>9, <1>10, <1>12, WriteLaidOut

\* A length that fits its field is the one that the field holds.
LEMMA Remainder ==
  ASSUME NEW x \in Nat, NEW n \in Nat \ {0}, x < n
  PROVE  x % n = x
OBVIOUS

LEMMA LastBlockFits ==
  ASSUME TypeOK, LengthsFit, NEW s \in Sessions, BlocksRead(s), Len(blocks[s]) >= 1
  PROVE  Len(Last(blocks[s])) \in Nat /\ Len(Last(blocks[s])) < LEN_LIMIT
<1> DEFINE k == Len(blocks[s])
           a == (k - 1) * BLOCK_LEN
           b == k * BLOCK_LEN
<1>1. /\ blocks[s] \in Seq(Seq(Byte)) /\ k \in Nat /\ read[s] \in Nat
      /\ BLOCK_LEN \in Nat \ {0} /\ LEN_LIMIT \in Nat
  BY CountTypes, LengthsAssumption
<1>2. k \in 1..k /\ Last(blocks[s]) = blocks[s][k]  BY <1>1 DEF Last
<1>3. Len(blocks[s][k]) = BlockEnd(s, k) - a /\ BlockEnd(s, k) = read[s]
  BY <1>2, BlockLengths
<1>4. read[s] <= b  BY DEF BlocksRead
<1>5. a = b - BLOCK_LEN /\ a \in Int /\ b \in Int
  BY <1>1, ProductMonotone
<1>6. blocks[s][k] \in Seq(Byte)  BY <1>1, <1>2
<1>7. Len(blocks[s][k]) \in Nat  BY <1>6
<1> HIDE DEF a, b
<1>8. Len(blocks[s][k]) <= BLOCK_LEN  BY <1>1, <1>3, <1>4, <1>5
<1>9. BLOCK_LEN < LEN_LIMIT  BY DEF LengthsFit
<1>10. QED  BY <1>1, <1>2, <1>7, <1>8, <1>9

LEMMA SealsLaidOut ==
  ASSUME TypeOK, LoopsOK, LengthsFit, NEW s \in Sessions, SessionOK(s), WrittenOf(s),
         BlocksRead(s), LaidOut(s),
         \/ WriteBlockHeader(s) \/ WriteBlock(s)
         \/ WritePaddingHeader(s) \/ WritePadding(s)
  PROVE  LaidOut(s)'
<1> DEFINE h == Len(receivers[s])
           k == Len(blocks[s])
           n == Len(sent[s])
<1>1. /\ LEN_LIMIT \in Nat \ {0} /\ BLOCK_HEADER_LEN \in Nat
      /\ blocks[s] \in Seq(Seq(Byte)) /\ h \in Nat /\ k \in Nat /\ n \in Nat
      /\ PaddingLen[read[s]] \in Nat /\ PaddingLen[read[s]] < LEN_LIMIT
  <2>1. /\ read[s] \in Nat /\ read[s] <= Len(plain[s]) /\ Len(plain[s]) <= MAX_PLAINTEXT
        /\ Len(plain[s]) \in Nat /\ blocks[s] \in Seq(Seq(Byte)) /\ h \in Nat /\ k \in Nat
        /\ n \in Nat /\ PaddingLen[read[s]] \in Nat
    BY CountTypes, PlaintextsAssumption DEF TypeOK
  <2>2. read[s] \in 0..MAX_PLAINTEXT  BY <2>1, LengthsAssumption
  <2>3. QED  BY <2>1, <2>2, LengthsAssumption DEF LengthsFit
<1>2. \A type \in {"Data", "Padding"}, len \in Nat :
        len < LEN_LIMIT => /\ BlockHeader(type, len) \in {"Data", "Padding"} \X Nat
                           /\ BlockHeader(type, len)[2] = len
  <2>1. TAKE type \in {"Data", "Padding"}, len \in Nat
  <2>2. len < LEN_LIMIT => len % LEN_LIMIT = len  BY <1>1, Remainder
  <2>3. QED  BY <2>2 DEF BlockHeader
<1>3. k >= 1 => /\ Last(blocks[s]) \in Seq(Byte) /\ Last(blocks[s]) \in Seq(Byte \union {Noise})
                /\ Len(Last(blocks[s])) \in Nat /\ Len(Last(blocks[s])) < LEN_LIMIT
  <2>1. k >= 1 => Last(blocks[s]) \in Seq(Byte)  BY <1>1 DEF Last
  <2>2. QED  BY <2>1, LastBlockFits
<1>4. CASE WriteBlockHeader(s)
  <2> DEFINE x == BlockHeader("Data", Len(Last(blocks[s])))
  <2>1. epc[s] = "block-header" /\ SealAndWrite(s, "block-header", x, BLOCK_HEADER_LEN, "block")
    BY <1>4 DEF WriteBlockHeader
  <2>2. k >= 1 /\ n = h + 2 * (k - 1)  BY <2>1, ChunksWritten
  <2>3. x \in {"Data", "Padding"} \X Nat /\ x[2] = Len(Last(blocks[s]))  BY <1>2, <1>3, <2>2
  <2>4. k - 1 \in 0..k  BY <1>1, <2>2
  <2> HIDE DEF x
  <2>5. SealsNext(s, "block-header", x, BLOCK_HEADER_LEN, "block")
    BY <1>1, <2>1, <2>2, <2>3, <2>4 DEF SealsNext, AfterHeaders
  <2>6. QED  BY <2>1, <2>5, SealLaidOut
<1>5. CASE WriteBlock(s)
  <2> DEFINE block == Last(blocks[s])
             pc == IF Len(block) < BLOCK_LEN THEN "padding-header" ELSE "read"
  <2>1. epc[s] = "block" /\ SealAndWrite(s, "block", block, Len(block), pc)
    BY <1>5 DEF WriteBlock
  <2>2. k >= 1 /\ n = h + 2 * (k - 1) + 1  BY <2>1, ChunksWritten
  <2>3. Len(block) = sent[s][n].plain[2]  BY <2>1 DEF LaidOut
  <2>4. k - 1 \in 0..k  BY <1>1, <2>2
  <2>5. pc \notin {"Ok", "block", "padding"}  OBVIOUS
  <2>6. block \in Seq(Byte \union {Noise}) /\ Len(block) \in Nat  BY <1>3, <2>2
  <2> HIDE DEF block, pc
  <2>7. SealsNext(s, "block", block, Len(block), pc)
    BY <2>1, <2>2, <2>3, <2>4, <2>5, <2>6 DEF SealsNext, AfterHeaders
  <2>8. QED  BY <2>1, <2>7, SealLaidOut
<1>6. CASE WritePaddingHeader(s)
  <2> DEFINE x == BlockHeader("Padding", PaddingLen[read[s]])
  <2>1. /\ epc[s] = "padding-header"
        /\ SealAndWrite(s, "block-header", x, BLOCK_HEADER_LEN, "padding")
    BY <1>6 DEF WritePaddingHeader
  <2>2. n = h + 2 * k  BY <2>1, ChunksWritten
  <2>3. x \in {"Data", "Padding"} \X Nat /\ x[2] = PaddingLen[read[s]]  BY <1>1, <1>2
  <2>4. k \in 0..k  BY <1>1
  <2> HIDE DEF x
  <2>5. SealsNext(s, "block-header", x, BLOCK_HEADER_LEN, "padding")
    BY <1>1, <2>1, <2>2, <2>3, <2>4 DEF SealsNext, AfterHeaders
  <2>6. QED  BY <2>1, <2>5, SealLaidOut
<1>7. CASE WritePadding(s)
  <2> DEFINE len == PaddingLen[read[s]]
             block == Random(len)
  <2>1. epc[s] = "padding" /\ SealAndWrite(s, "block", block, len, "sign")
    BY <1>7 DEF WritePadding
  <2>2. n = h + 2 * k + 1  BY <2>1, ChunksWritten
  <2>3. len = sent[s][n].plain[2]  BY <2>1 DEF LaidOut
  <2>4. block \in Seq(Byte \union {Noise}) /\ len \in Nat  BY <1>1, RandomType
  <2>5. k \in 0..k  BY <1>1
  <2> HIDE DEF block, len
  <2>6. SealsNext(s, "block", block, len, "sign")
    BY <2>1, <2>2, <2>3, <2>4, <2>5 DEF SealsNext, AfterHeaders
  <2>7. QED  BY <2>1, <2>6, SealLaidOut
<1>8. QED  BY <1>4, <1>5, <1>6, <1>7

LEMMA WriteSignatureLaidOut ==
  ASSUME TypeOK, LoopsOK, NEW s \in Sessions, SessionOK(s), WrittenOf(s), LaidOut(s),
         WriteSignature(s)
  PROVE  LaidOut(s)'
<1> DEFINE m     == message[s]
           chunk == Ciphertext(SignedProtocol(m), "signature", <<sender[s], m>>, SIG_LEN)
           h == Len(receivers[s])
           k == Len(blocks[s])
           n == Len(sent[s])
<1>1. /\ Write(s, chunk, "Ok") /\ UNCHANGED <<receivers, message, blocks, read>>
      /\ epc[s] = "sign"
  BY DEF WriteSignature, sign_protocol
<1>2. /\ m \in Seq(Op) /\ sender[s] \in Keys /\ SIG_LEN \in Nat
      /\ sent[s] \in Seq(WriteUnit)
  BY LengthsAssumption DEF TypeOK, EncryptTypeOK, WireTypeOK
<1>3. SignedProtocol(m) \in Seq(Op)  BY <1>2, SignedProtocolType
<1>4. chunk \in WriteUnit
  BY <1>2, <1>3 DEF Ciphertext, WriteUnit, CiphertextOf
<1>5. chunk.label = "signature" /\ chunk.under = SignedProtocol(m)
  BY DEF Ciphertext
<1>6. n = h + 2 * k + 2 /\ h \in Nat /\ k \in Nat /\ n \in Nat  BY <1>1, ChunksWritten
<1>7. Turns(sent[s], h, k, m) /\ (Len(m) >= Base(s) => m[Base(s)] = <<"mix", "dek", s>>)
  BY DEF LaidOut
<1> HIDE DEF chunk, m
<1>8. Turns(Append(sent[s], chunk), h, k, m)
  <2>1. Len(sent[s]) <= h + 2 * k + 2  BY <1>6
  <2> HIDE DEF h, k
  <2>2. QED  BY <1>2, <1>4, <1>5, <1>6, <1>7, <2>1, TurnsAppend
<1>9. ~(n + 1 <= h) /\ n + 1 = h + 2 * k + 3
  <2> HIDE DEF n, h, k
  <2>1. QED  BY <1>6
<1>10. epc'[s] \in {"Ok", "WriteIo"}  BY <1>1, WriteEffect
<1>11. QED  BY <1>1, <1>4, <1>7, <1>8, <1>9, <1>10, WriteLaidOut DEF m

LEMMA WriterLaidOut ==
  ASSUME TypeOK, LoopsOK, EncryptHistories, Tally, Written, LengthsFit, NEW s \in Sessions,
         Writer(s), AllLaidOut
  PROVE  AllLaidOut'
<1>1. ASSUME NEW t \in Sessions \ {s}, epc'[t] \notin Broken \union {"idle"}
      PROVE  LaidOut(t)'
  <2>1. /\ epc'[t] = epc[t] /\ message'[t] = message[t] /\ receivers'[t] = receivers[t]
        /\ blocks'[t] = blocks[t] /\ sent'[t] = sent[t]
    BY OtherSessions
  <2>2. read'[t] = read[t]
    <3>1. DOMAIN read = Sessions  BY DEF TypeOK, EncryptTypeOK
    <3>2. QED
      BY <3>1 DEF Writer, EncryptStep, Encrypt, WriteHeader, ReadBlock, WriteBlockHeader,
         WriteBlock, WritePaddingHeader, WritePadding, WriteSignature, SealAndWrite
  <2>3. LaidOut(t)  BY <1>1, <2>1 DEF AllLaidOut
  <2>4. Base(t)' = Base(t)  BY <2>1 DEF Base
  <2>5. QED  BY <2>1, <2>2, <2>3, <2>4 DEF LaidOut
<1>2. LaidOut(s)'
  <2>1. CASE Encrypt(s)  BY <2>1, EncryptLaidOut
  <2>2. CASE ~Encrypt(s)
    <3>1. /\ epc[s] \notin Broken \union {"idle"}
          /\ \/ WriteHeader(s) \/ ReadBlock(s) \/ WriteSignature(s)
             \/ \/ WriteBlockHeader(s) \/ WriteBlock(s)
                \/ WritePaddingHeader(s) \/ WritePadding(s)
      BY <2>2 DEF Broken, Writer, EncryptStep, WriteHeader, ReadBlock, WriteBlockHeader,
         WriteBlock, WritePaddingHeader, WritePadding, WriteSignature
    <3>2. LaidOut(s) /\ SessionOK(s) /\ WrittenOf(s) /\ BlocksRead(s)
      BY <3>1 DEF AllLaidOut, EncryptHistories, SessionOK, Written, Tally, TallyOf
    <3>3. QED
      BY <3>1, <3>2, WriteHeaderLaidOut, ReadBlockLaidOut, WriteSignatureLaidOut, SealsLaidOut
  <2>3. QED  BY <2>1, <2>2
<1>3. QED  BY <1>1, <1>2 DEF AllLaidOut

-----------------------------------------------------------------------------
(* The stream that one session writes, and nobody disturbs.                *)

\* The first chunk.
LEMMA FollowsFirst ==
  ASSUME NEW st, NEW w, NEW s \in Sessions, NEW n \in Nat \ {0}, st[s][1].n = n,
         \A j \in 1..n : w[j] = [from |-> s, chunk |-> 1, byte |-> j]
  PROVE  Follows(st, w, s, n, 1)
<1>1. 1 \in 1..n /\ n \in 1..n  OBVIOUS
<1>2. ASSUME NEW q \in 2..n
      PROVE  w[q - 1] # Noise /\ w[q] = NextIn(st, w[q - 1])
  <2> DEFINE x == [from |-> s, chunk |-> 1, byte |-> q - 1]
  <2>1. /\ w[q - 1] = x /\ w[q] = [from |-> s, chunk |-> 1, byte |-> q]
        /\ q - 1 < n /\ q - 1 \in Nat /\ q - 1 + 1 = q
    OBVIOUS
  <2>2. x # Noise  BY <2>1, KeysAssumption
  <2>3. NextIn(st, x) = [from |-> s, chunk |-> 1, byte |-> q]
    BY <2>1 DEF NextIn
  <2> HIDE DEF x
  <2>4. QED  BY <2>1, <2>2, <2>3
<1>3. QED  BY <1>1, <1>2 DEF Follows

\* What a writer does to the stream: nothing, or it writes a whole chunk, or it breaks.
LEMMA WriterAppends ==
  ASSUME TypeOK, LoopsOK, EncryptHistories, Written, NEW s \in Sessions, Writer(s)
  PROVE  /\ edits' = edits /\ epc[s] \notin Broken \union {"Ok"}
         /\ \/ UNCHANGED <<sent, wire>>
            \/ /\ sent'[s] # << >>
               /\ \/ epc'[s] \in Broken
                  \/ LET n == Len(sent'[s])
                     IN  /\ n = Len(sent[s]) + 1 /\ sent'[s][n].n \in Nat \ {0}
                         /\ wire' = wire \o Cells(s, n, sent'[s][n].n)
<1>1. edits' = edits
  BY DEF Writer, EncryptStep, Encrypt, WriteHeader, ReadBlock, WriteBlockHeader,
         WriteBlock, WritePaddingHeader, WritePadding, WriteSignature, SealAndWrite,
         Write, WriteAll, WriteFails, wireVars
<1>2. epc[s] \notin Broken \union {"Ok"}  BY WriterWrites DEF EncryptEnded, Broken
<1>3. CASE UNCHANGED <<sent, wire>>  BY <1>1, <1>2, <1>3
<1>4. ASSUME NEW chunk, NEW pc, Write(s, chunk, pc)
      PROVE  /\ sent'[s] # << >>
             /\ \/ epc'[s] \in Broken
                \/ LET n == Len(sent'[s])
                   IN  /\ n = Len(sent[s]) + 1 /\ sent'[s][n].n \in Nat \ {0}
                       /\ wire' = wire \o Cells(s, n, sent'[s][n].n)
  <2> DEFINE n == Len(sent[s]) + 1
  <2>1. sent'[s] = Append(sent[s], chunk)  BY <1>4, WriteEffect
  <2>2. sent[s] \in Seq(WriteUnit) /\ n \in Nat \ {0}  BY DEF TypeOK, WireTypeOK
  <2>3. Len(sent'[s]) = n /\ sent'[s][n] = chunk /\ sent'[s] # << >>
    BY <2>1, <2>2
  <2>4. chunk.n \in Nat \ {0}
    <3>1. WrittenOf(s)'  BY WriterStream DEF Written
    <3>2. n \in 1..Len(sent'[s])  BY <2>2, <2>3
    <3>3. \A c \in 1..Len(sent'[s]) : sent'[s][c].n \in Nat \ {0}
      BY <3>1 DEF WrittenOf, PlacedIn
    <3> HIDE DEF n
    <3>4. QED  BY <2>3, <3>2, <3>3
  <2>5. CASE WriteAll(s, chunk)
    <3>1. wire' = wire \o Cells(s, n, chunk.n)  BY <2>5 DEF WriteAll
    <3> HIDE DEF n
    <3>2. QED  BY <2>3, <2>4, <3>1 DEF n
  <2>6. CASE epc' = [epc EXCEPT ![s] = "WriteIo"]
    <3>1. DOMAIN epc = Sessions  BY DEF TypeOK, EncryptTypeOK
    <3>2. QED  BY <2>3, <2>6, <3>1 DEF Broken
  <2>7. QED  BY <1>4, <2>5, <2>6 DEF Write
<1>5. QED  BY <1>1, <1>2, <1>3, <1>4, WriterWrites

LEMMA StillAlone ==
  ASSUME TypeOK, LoopsOK, EncryptHistories, Written, NEW w \in Sessions, Writer(w),
         NEW s \in Sessions, Alone(s)'
  PROVE  Alone(s)
<1>1. edits' = edits /\ epc[w] \notin Broken  BY WriterAppends
<1>2. epc[s] \notin Broken
  <2>1. s # w => epc'[s] = epc[s]  BY OtherSessions
  <2>2. QED  BY <1>1, <2>1 DEF Alone
<1>3. ASSUME NEW t \in Sessions \ {s}
      PROVE  sent[t] = << >>
  <2>1. sent'[t] = << >> /\ Extends(sent'[t], sent[t])  BY WriterStream DEF Alone
  <2>2. sent[t] \in Seq(WriteUnit)  BY DEF TypeOK, WireTypeOK
  <2>3. Len(sent[t]) <= Len(sent'[t]) /\ Len(sent'[t]) = 0  BY <2>1 DEF Extends
  <2>4. QED  BY <2>2, <2>3, EmptySeq
<1>4. QED  BY <1>1, <1>2, <1>3 DEF Alone

LEMMA WriterWhole ==
  ASSUME TypeOK, LoopsOK, EncryptHistories, Written, Whole, NEW w \in Sessions, Writer(w)
  PROVE  Whole'
<1>1. SUFFICES ASSUME NEW s \in Sessions, Alone(s)'
               PROVE  IF sent'[s] = << >> THEN wire' = << >> ELSE Delivered(s)'
  BY DEF Whole
<1>2. IF sent[s] = << >> THEN wire = << >> ELSE Delivered(s)
  BY <1>1, StillAlone DEF Whole
<1>3. CASE UNCHANGED <<sent, wire>>
  BY <1>2, <1>3 DEF Delivered, InOrder, NextByte
<1>4. CASE ~UNCHANGED <<sent, wire>>
  <2>1. s = w
    <3>1. sent'[w] # << >>  BY <1>4, WriterAppends
    <3>2. QED  BY <1>1, <3>1 DEF Alone
  <2> DEFINE n == Len(sent[s])
             u == sent'[s][n + 1]
             L == Len(wire)
             cells == Cells(s, n + 1, u.n)
  <2>2. /\ Len(sent'[s]) = n + 1 /\ u.n \in Nat \ {0} /\ sent'[s] # << >>
        /\ wire' = wire \o cells
    <3>1. epc'[s] \notin Broken  BY <1>1 DEF Alone
    <3>2. QED  BY <1>4, <2>1, <3>1, WriterAppends
  <2>3. /\ sent[s] \in Seq(WriteUnit) /\ n \in Nat /\ wire \in Seq(Cell) /\ L \in Nat
        /\ Extends(wire', wire) /\ \A t \in Sessions : Extends(sent'[t], sent[t])
    BY WriterStream DEF TypeOK, WireTypeOK
  <2>4. /\ Len(wire') = L + u.n
        /\ \A j \in 1..u.n : wire'[L + j] = [from |-> s, chunk |-> n + 1, byte |-> j]
    <3>1. /\ cells \in Seq(Cell) /\ Len(cells) = u.n
          /\ \A j \in 1..u.n : cells[j] = [from |-> s, chunk |-> n + 1, byte |-> j]
      <4>1. n + 1 \in Nat  BY <2>3
      <4> HIDE DEF n, u
      <4>2. QED  BY <2>2, <4>1, CellsType DEF Cells
    <3> HIDE DEF cells, u
    <3>2. Len(wire') = L + u.n /\ \A j \in 1..u.n : wire'[L + j] = cells[j]
      BY <2>2, <2>3, <3>1, ConcatProperties
    <3>3. QED  BY <3>1, <3>2
  <2> HIDE DEF cells
  <2>5. Follows(sent', wire', s, L + u.n, n + 1)
    <3>1. CASE sent[s] = << >>
      <4>1. n = 0 /\ L = 0  BY <1>2, <3>1
      <4> HIDE DEF n, L
      <4>2. /\ sent'[s][1] = u /\ L + u.n = u.n /\ n + 1 = 1
            /\ \A j \in 1..u.n : wire'[j] = [from |-> s, chunk |-> 1, byte |-> j]
        <5>1. u = sent'[s][1] /\ n + 1 = 1  BY <4>1
        <5> HIDE DEF u
        <5>2. QED  BY <2>2, <2>4, <4>1, <5>1
      <4> HIDE DEF u
      <4>3. QED  BY <2>2, <4>2, FollowsFirst
    <3>2. CASE sent[s] # << >>
      <4>1. n \in Nat \ {0} /\ n \in 1..n  BY <2>3, <3>2, EmptySeq
      <4>2. Follows(sent, wire, s, L, n)
        BY <1>2, <3>2 DEF Delivered, InOrder, NextByte, Follows, NextIn
      <4>3. Keeps(sent, wire, sent', wire', L)
        <5>1. \A q \in 1..L : wire'[q] = wire[q]  BY <2>3 DEF Extends
        <5>2. \A t \in Sessions : \A k \in 1..Len(sent[t]) : sent'[t][k] = sent[t][k]
          BY <2>3 DEF Extends
        <5>3. ASSUME NEW q \in 1..L, wire[q] # Noise
              PROVE  /\ wire[q].from \in Sessions
                     /\ wire[q].chunk \in 1..Len(sent[wire[q].from])
          BY <2>3, <5>3 DEF Written, Came, Cell
        <5>4. QED  BY <5>1, <5>2, <5>3 DEF Keeps
      <4>4. Follows(sent', wire', s, L, n)
        <5> HIDE DEF L
        <5>1. n \in 1..Len(sent[s])  BY <4>1
        <5> HIDE DEF n
        <5>2. QED  BY <2>3, <4>2, <4>3, <5>1, FollowsKept
      <4>5. sent'[s][n].n \in Nat
        <5>1. \A c \in 1..Len(sent'[s]) : sent'[s][c].n \in Nat
          <6>1. WrittenOf(s)'  BY WriterStream DEF Written
          <6>2. QED  BY <6>1 DEF WrittenOf, PlacedIn
        <5>2. n \in 1..(n + 1)  BY <4>1
        <5> HIDE DEF n
        <5>3. QED  BY <2>2, <5>1, <5>2
      <4>6. sent'[s][n + 1].n = u.n  OBVIOUS
      <4> HIDE DEF n, u, L
      <4>7. QED  BY <2>2, <2>3, <2>4, <4>1, <4>4, <4>5, <4>6, FollowsExtends
    <3>3. QED  BY <3>1, <3>2
  <2>6. QED
    <3>1. Follows(sent', wire', s, Len(wire'), Len(sent'[s]))  BY <2>2, <2>4, <2>5
    <3>2. QED  BY <2>2, <3>1 DEF Delivered, InOrder, NextByte, Follows, NextIn
<1>5. QED  BY <1>3, <1>4

-----------------------------------------------------------------------------
(* Where decrypt looks for the next chunk.                                 *)

\* The stream w, of length L, is the first C chunks st[s] of session s; the first c,
\* of which there are more, end at p, and the next one is n bytes long.
Stands(st, w, s, L, C, p, c, n) ==
  /\ Follows(st, w, s, L, C) /\ c < C /\ st[s][c + 1].n = n
  /\ IF c = 0 THEN p = 0
     ELSE /\ p \in 1..L /\ st[s][c].n \in Nat
          /\ w[p] = [from |-> s, chunk |-> c, byte |-> st[s][c].n]

\* The chunk after the first c of session s stands at the n bytes from p on.
Stood(w, s, L, p, c, n) ==
  /\ p + n <= L
  /\ \A j \in 1..n : w[p + j] = [from |-> s, chunk |-> c + 1, byte |-> j]

\* In a stream that is whole, the next chunk follows; induction on its bytes.
LEMMA NextThere ==
  ASSUME NEW st, NEW w, NEW s \in Sessions, NEW L \in Nat, NEW C \in Nat,
         NEW p \in Nat, NEW c \in Nat, NEW n \in Nat \ {0}, Stands(st, w, s, L, C, p, c, n)
  PROVE  Stood(w, s, L, p, c, n)
<1> DEFINE At(j) == [from |-> s, chunk |-> c + 1, byte |-> j]
           T == {j \in Nat \ {0} : j <= n /\ p + j <= L => w[p + j] = At(j)}
<1>0. /\ c = 0 => p = 0
      /\ c # 0 => /\ p \in 1..L /\ st[s][c].n \in Nat
                  /\ w[p] = [from |-> s, chunk |-> c, byte |-> st[s][c].n]
      /\ c < C /\ st[s][c + 1].n = n
  BY DEF Stands
<1>1. /\ L >= 1 /\ w[1] = [from |-> s, chunk |-> 1, byte |-> 1]
      /\ \A q \in 2..L : w[q - 1] # Noise /\ w[q] = NextIn(st, w[q - 1])
      /\ w[L] = [from |-> s, chunk |-> C, byte |-> st[s][C].n]
  BY DEF Stands, Follows
<1>2. p < L
  <2>1. CASE c = 0  BY <1>0, <1>1, <2>1
  <2>2. CASE c # 0
    <3>1. w[p].chunk = c /\ w[L].chunk = C  BY <1>0, <1>1, <2>2
    <3>2. p # L  BY <1>0, <3>1
    <3>3. QED  BY <1>0, <2>2, <3>2
  <2>3. QED  BY <2>1, <2>2
<1>3. w[p + 1] = At(1)
  <2>1. CASE c = 0  BY <1>0, <1>1, <2>1
  <2>2. CASE c # 0
    <3> DEFINE x == [from |-> s, chunk |-> c, byte |-> st[s][c].n]
    <3>1. p + 1 \in 2..L /\ p + 1 - 1 = p  BY <1>0, <1>2, <2>2
    <3>2. w[p] = x  BY <1>0, <2>2
    <3>3. w[p + 1] = NextIn(st, x)  BY <1>1, <3>1, <3>2
    <3>4. x.from = s /\ x.chunk = c /\ ~ (x.byte < st[s][c].n)
      <4> DEFINE b == st[s][c].n
      <4>1. b \in Nat /\ x.byte = b  BY <1>0, <2>2
      <4>2. x.from = s /\ x.chunk = c  OBVIOUS
      <4> HIDE DEF b, x
      <4>3. ~ (x.byte < b)  BY <4>1
      <4>4. QED  BY <4>2, <4>3 DEF b
    <3> HIDE DEF x
    <3>5. NextIn(st, x) = At(1)  BY <3>4 DEF NextIn
    <3>6. QED  BY <3>3, <3>5
  <2>3. QED  BY <2>1, <2>2
<1>4. 1 \in T  BY <1>3
<1>5. ASSUME NEW j \in Nat \ {0}, j \in T
      PROVE  j + 1 \in T
  <2>1. SUFFICES ASSUME j + 1 <= n, p + (j + 1) <= L
                 PROVE  w[p + (j + 1)] = At(j + 1)
    OBVIOUS
  <2>2. w[p + j] = At(j)  BY <1>5, <2>1
  <2>3. p + (j + 1) \in 2..L /\ p + (j + 1) - 1 = p + j  BY <2>1
  <2>4. w[p + (j + 1)] = NextIn(st, At(j))  BY <1>1, <2>2, <2>3
  <2>5. NextIn(st, At(j)) = At(j + 1)
    <3>1. j < st[s][c + 1].n  BY <1>0, <2>1
    <3>2. QED  BY <3>1 DEF NextIn
  <2>6. QED  BY <2>4, <2>5
<1> HIDE DEF T
<1>6. Nat \ {0} \subseteq T  BY <1>4, <1>5, NaturalsFrom
<1>7. p + n <= L
  <2>1. SUFFICES ASSUME L < p + n PROVE FALSE  OBVIOUS
  <2>2. L - p \in Nat \ {0} /\ L - p < n /\ p + (L - p) = L  BY <1>2, <2>1
  <2>3. w[L] = At(L - p)  BY <1>6, <2>2 DEF T
  <2>4. c + 1 = C /\ L - p = st[s][C].n
    <3>1. w[L].chunk = C /\ w[L].byte = st[s][C].n  BY <1>1
    <3>2. w[L].chunk = c + 1 /\ w[L].byte = L - p  BY <2>3
    <3>3. QED  BY <3>1, <3>2
  <2>5. QED  BY <1>0, <2>2, <2>4
<1>8. ASSUME NEW j \in 1..n
      PROVE  w[p + j] = At(j)
  BY <1>6, <1>7 DEF T
<1>9. QED  BY <1>7, <1>8 DEF Stood

\* The last byte of the last chunk is the last of the stream.
LEMMA EndThere ==
  ASSUME TypeOK, Written, NEW s \in Sessions, Len(sent[s]) # 0,
         Follows(sent, wire, s, Len(wire), Len(sent[s])), NEW p \in 1..Len(wire),
         wire[p] = [from |-> s, chunk |-> Len(sent[s]), byte |-> sent[s][Len(sent[s])].n]
  PROVE  p = Len(wire)
<1> DEFINE C == Len(sent[s])
           L == Len(wire)
           n == sent[s][C].n
           x == [from |-> s, chunk |-> C, byte |-> n]
           r == p + 1
<1>1. sent[s] \in Seq(WriteUnit) /\ C \in Nat /\ L \in Nat /\ p \in 1..L
  BY DEF TypeOK, WireTypeOK
<1>2. \A q \in 1..C : sent[s][q].n \in Nat \ {0}  BY DEF Written, WrittenOf, PlacedIn
<1>4. C \in 1..C  BY <1>1
<1>5. n \in Nat  BY <1>2, <1>4
<1>3. wire[p] = x  OBVIOUS
<1>6. \A q \in 2..L : wire[q] = NextIn(sent, wire[q - 1])  BY DEF Follows
<1> HIDE DEF C, L, n, x
<1>7. SUFFICES ASSUME p < L PROVE FALSE  BY <1>1 DEF L
<1>8. r \in 2..L /\ r - 1 = p /\ r \in 1..L  BY <1>1, <1>7
<1> HIDE DEF r
<1>9. wire[r] = NextIn(sent, x)  BY <1>3, <1>6, <1>8
<1>10. x.from = s /\ x.chunk = C /\ x.byte = n /\ n = sent[s][C].n  BY DEF x, n
<1>11. ~ (x.byte < sent[s][C].n)  BY <1>5, <1>10
<1>12. wire[r] = [from |-> s, chunk |-> C + 1, byte |-> 1]
  BY <1>9, <1>10, <1>11 DEF NextIn
<1>13. wire[r] # Noise  BY <1>1, <1>12, KeysAssumption
<1>14. wire[r].chunk \in 1..Len(sent[wire[r].from])
  BY <1>8, <1>13 DEF Written, Came, L
<1>15. C + 1 \in 1..C  BY <1>12, <1>14 DEF C
<1>16. QED  BY <1>1, <1>15

\* The next chunk of a session that is alone is what decrypt reads next, if it was
\* written; if it was not, decrypt is at the end of the stream.
LEMMA NextWhole ==
  ASSUME TypeOK, Written, Whole, NEW s \in Sessions, Alone(s), NEW c \in Nat,
         ReadUpTo(s, c)
  PROVE  /\ c + 1 <= Len(sent[s]) =>
              LET n == sent[s][c + 1].n
              IN  /\ n \in Nat \ {0} /\ Avail(n)
                  /\ NextBytes(n) = Cells(s, c + 1, n)
                  /\ InOrder(s, pos + n, c + 1)
         /\ ~(c + 1 <= Len(sent[s])) => pos = Len(wire)
<1> DEFINE C == Len(sent[s])
           L == Len(wire)
<1>1. /\ sent[s] \in Seq(WriteUnit) /\ C \in Nat /\ wire \in Seq(Cell) /\ L \in Nat
      /\ pos \in 0..L /\ pos \in Nat
  BY DEF TypeOK, WireTypeOK, DecryptTypeOK
<1>2. \A q \in 1..C : sent[s][q].n \in Nat \ {0}
  BY DEF Written, WrittenOf, PlacedIn
<1>3. sent[s] # << >> => Follows(sent, wire, s, L, C)
  BY DEF Whole, Delivered, InOrder, NextByte, Follows, NextIn
<1>4. sent[s] = << >> => L = 0 /\ C = 0  BY DEF Whole
<1>5. c # 0 => /\ c \in 1..C /\ Follows(sent, wire, s, pos, c) /\ pos >= 1
               /\ wire[pos] = [from |-> s, chunk |-> c, byte |-> sent[s][c].n]
  BY DEF ReadUpTo, InOrder, NextByte, Follows, NextIn
<1>6. c = 0 => pos = 0  BY DEF ReadUpTo
<1>7. ASSUME c + 1 <= C
      PROVE  LET n == sent[s][c + 1].n
             IN  /\ n \in Nat \ {0} /\ Avail(n)
                 /\ NextBytes(n) = Cells(s, c + 1, n)
                 /\ InOrder(s, pos + n, c + 1)
  <2> DEFINE n == sent[s][c + 1].n
  <2>1. c + 1 \in 1..C /\ c < C /\ sent[s] # << >>  BY <1>1, <1>4, <1>7
  <2>2. n \in Nat \ {0}  BY <1>2, <2>1
  <2>3. Follows(sent, wire, s, L, C)  BY <1>3, <2>1
  <2>5. sent[s][c + 1].n = n  OBVIOUS
  <2>4. Stands(sent, wire, s, L, C, pos, c, n)
    <3>1. /\ c = 0 => pos = 0
          /\ c # 0 => /\ pos \in 1..L /\ sent[s][c].n \in Nat
                      /\ wire[pos] = [from |-> s, chunk |-> c, byte |-> sent[s][c].n]
      BY <1>1, <1>2, <1>5, <1>6
    <3> HIDE DEF n, C, L
    <3>2. QED  BY <2>1, <2>3, <2>5, <3>1 DEF Stands
  <2> HIDE DEF n, C, L
  <2>6. /\ pos + n <= L
        /\ \A j \in 1..n : wire[pos + j] = [from |-> s, chunk |-> c + 1, byte |-> j]
    <3>1. L \in Nat /\ C \in Nat /\ pos \in Nat  BY <1>1
    <3>2. Stood(wire, s, L, pos, c, n)  BY <2>2, <2>4, <3>1, NextThere
    <3>3. QED  BY <3>2 DEF Stood
  <2>7. Avail(n)  BY <2>6 DEF Avail, L
  <2>8. NextBytes(n) = Cells(s, c + 1, n)
    <3> DEFINE x == NextBytes(n)
               y == Cells(s, c + 1, n)
    <3>1. /\ x \in Seq(Cell) /\ Len(x) = n  BY <2>2, <2>7, NextBytesType
    <3>2. y \in Seq(Cell) /\ Len(y) = n  BY <2>2, CellsType
    <3>3. \A j \in 1..n : x[j] = wire[pos + j]
      <4> DEFINE r == pos + n
      <4>1. r \in Int /\ pos + 1 \in Int /\ r <= L /\ r - (pos + 1) + 1 = n  BY <1>1, <2>2, <2>6
      <4>2. x = SubSeq(wire, pos + 1, r)  BY DEF NextBytes
      <4> HIDE DEF x, r
      <4>3. \A q \in (pos + 1)..r : wire[q] \in Cell
        <5>1. \A q \in (pos + 1)..r : q \in 1..Len(wire)  BY <1>1, <4>1 DEF L
        <5>2. QED  BY <1>1, <5>1
      <4>4. \A j \in 1..(r - (pos + 1) + 1) : x[j] = wire[pos + 1 + j - 1]
        BY <4>1, <4>2, <4>3, SubSeqProperties
      <4>5. \A j \in 1..n : pos + 1 + j - 1 = pos + j  BY <1>1, <2>2
      <4>6. QED  BY <4>1, <4>4, <4>5
    <3>4. \A j \in 1..n : x[j] = y[j]  BY <2>6, <3>3 DEF Cells
    <3> HIDE DEF x, y
    <3>5. x = y  BY <3>1, <3>2, <3>4, SeqEqual
    <3>6. QED  BY <3>5 DEF x, y
  <2>9. Follows(sent, wire, s, pos + n, c + 1)
    <3>1. CASE c = 0
      <4>1. pos = 0 /\ pos + n = n /\ c + 1 = 1  BY <1>6, <2>2, <3>1
      <4>2. \A j \in 1..n : wire[j] = [from |-> s, chunk |-> 1, byte |-> j]
        <5>1. TAKE j \in 1..n
        <5>2. 0 + j = j  OBVIOUS
        <5>3. QED  BY <2>6, <4>1, <5>2
      <4>3. sent[s][1].n = n  BY <2>5, <4>1
      <4>4. QED  BY <2>2, <4>1, <4>2, <4>3, FollowsFirst
    <3>2. CASE c # 0
      <4>1. Follows(sent, wire, s, pos, c) /\ c \in Nat \ {0} /\ sent[s][c].n \in Nat
        BY <1>2, <1>5, <3>2
      <4>2. QED  BY <1>1, <2>2, <2>5, <2>6, <4>1, FollowsExtends
    <3>3. QED  BY <3>1, <3>2
  <2>10. InOrder(s, pos + n, c + 1)  BY <2>9 DEF InOrder, NextByte, Follows, NextIn
  <2>11. QED  BY <2>2, <2>7, <2>8, <2>10 DEF n
<1>8. ASSUME ~(c + 1 <= C)
      PROVE  pos = L
  <2>1. CASE c = 0
    <3>1. sent[s] = << >>  BY <1>1, <1>8, <2>1, EmptySeq
    <3>2. QED  BY <1>4, <1>6, <2>1, <3>1
  <2>2. CASE c # 0
    <3>1. c = C /\ pos \in 1..L  BY <1>1, <1>5, <1>8, <2>2
    <3>2. wire[pos] = [from |-> s, chunk |-> C, byte |-> sent[s][C].n]
      BY <1>5, <2>2, <3>1
    <3>3. sent[s] # << >>  BY <1>4, <3>1
    <3>4. Follows(sent, wire, s, L, C)  BY <1>3, <3>3
    <3>5. C # 0  BY <2>2, <3>1
    <3>6. QED  BY <3>1, <3>2, <3>4, <3>5, EndThere
  <2>3. QED  BY <2>1, <2>2
<1>9. QED  BY <1>7, <1>8

-----------------------------------------------------------------------------
(* decrypt reads on.                                                       *)

\* Session s has the stream to itself, and is for this reader.
Ready(s) ==
  /\ TypeOK /\ Lockstep /\ Written /\ Whole
  /\ Alone(s) /\ Addressed(s) /\ LaidOut(s) /\ epc[s] # "idle"

LEMMA ReadyFacts ==
  ASSUME NEW s \in Sessions, Ready(s)
  PROVE  LET h == Len(receivers[s])
             k == Len(blocks[s])
             m == message[s]
         IN  /\ SessionOK(s) /\ WrittenOf(s) /\ LoopsOK
             /\ h \in Nat /\ k \in Nat /\ Base(s) = h + 3
             /\ m \in Seq(Op) /\ Len(m) \in Nat /\ dmsg \in Seq(Op) /\ Len(dmsg) \in Nat
             /\ sent[s] \in Seq(WriteUnit) /\ Len(sent[s]) \in Nat
             /\ Len(sent[s]) >= h => Len(m) >= Base(s) /\ m[Base(s)] = <<"mix", "dek", s>>
             /\ Closed => Len(sent[s]) = h + 2 * k + 3
<1> DEFINE h == Len(receivers[s])
           k == Len(blocks[s])
           m == message[s]
           n == Len(sent[s])
<1>1. TypeOK /\ Lockstep /\ Written /\ Alone(s) /\ LaidOut(s) /\ epc[s] # "idle"
  BY DEF Ready
<1>2. SessionOK(s) /\ WrittenOf(s) /\ LoopsOK
  BY <1>1 DEF Lockstep, EncryptHistories, SessionOK, Written
<1>3. /\ h \in Nat /\ k \in Nat /\ Base(s) = h + 3 /\ Base(s) \in Nat
      /\ m \in Seq(Op) /\ Len(m) \in Nat /\ dmsg \in Seq(Op) /\ Len(dmsg) \in Nat
      /\ sent[s] \in Seq(WriteUnit) /\ n \in Nat
  <2>1. /\ receivers[s] \in Seq(Keys \union {Fake}) /\ blocks[s] \in Seq(Seq(Byte))
        /\ m \in Seq(Op) /\ dmsg \in Seq(Op) /\ sent[s] \in Seq(WriteUnit)
    BY <1>1 DEF TypeOK, EncryptTypeOK, WireTypeOK, DecryptTypeOK
  <2>2. h \in Nat /\ k \in Nat /\ Len(m) \in Nat /\ Len(dmsg) \in Nat /\ n \in Nat
    BY <2>1
  <2>3. Base(s) = h + 3  BY DEF Base
  <2> HIDE DEF h
  <2>4. Base(s) \in Nat  BY <2>2, <2>3
  <2>5. QED  BY <2>1, <2>2, <2>3, <2>4
<1>4. epc[s] = "Ok" => n = h + 2 * k + 3  BY <1>1 DEF LaidOut
<1>5. Closed => epc[s] = "Ok"  BY <1>1 DEF Closed, EncryptEnded, Alone, Broken
<1>6. epc[s] \in AfterHeaders \union {"headers", "Ok"}
  BY <1>1 DEF TypeOK, EncryptTypeOK, EncryptEnded, Alone, Broken, AfterHeaders
<1>7. epc[s] = "Ok" => Len(m) >= Base(s)
  <2>1. SUFFICES ASSUME epc[s] = "Ok" PROVE Len(m) >= Base(s)  OBVIOUS
  <2> DEFINE j == k + 1
             c == h + 2 * j + 1
  <2>2. c \in 1..n /\ c <= Len(sent[s]) /\ j \in Nat /\ ~(j <= k)
    <3>1. n = h + 2 * k + 3  BY <1>4, <2>1
    <3> HIDE DEF n, h, k
    <3>2. c \in 1..n /\ c <= n /\ j \in Nat /\ ~(j <= k)  BY <1>3, <3>1
    <3>3. QED  BY <3>2 DEF n
  <2>3. Turn(sent[s], h, k, m, j)  BY <1>1, <2>2 DEF LaidOut, Turns
  <2>4. sent[s][c].label = "signature"  BY <2>2, <2>3 DEF Turn
  <2>5. Len(m) = Base(s) + 2 * k + 2
    <3>1. SignedIn(sent[s][c], c, s)  BY <1>2, <2>2 DEF WrittenOf
    <3>2. QED  BY <2>4, <3>1 DEF SignedIn
  <2>6. k \in Nat /\ Base(s) \in Nat  BY <1>3
  <2> HIDE DEF m, k
  <2>7. QED  BY <2>5, <2>6
<1>8. n >= h => Len(m) >= Base(s)
  <2>1. SUFFICES ASSUME n >= h PROVE Len(m) >= Base(s)  OBVIOUS
  <2>2. epc[s] # "headers"
    <3>1. epc[s] = "headers" => n < h  BY <1>2 DEF LoopsOK
    <3> HIDE DEF n, h
    <3>2. QED  BY <1>3, <2>1, <3>1
  <2>3. CASE epc[s] \in AfterHeaders  BY <1>1, <1>2, <2>3, PastHeaders
  <2>4. QED  BY <1>6, <1>7, <2>2, <2>3
<1>9. Len(m) >= Base(s) => m[Base(s)] = <<"mix", "dek", s>>  BY <1>1 DEF LaidOut
<1>10. QED  BY <1>2, <1>3, <1>4, <1>5, <1>8, <1>9

\* The next chunk is there, whole, or the call waits for it; the stream does not end.
LEMMA NextOrWait ==
  ASSUME NEW s \in Sessions, Ready(s), NEW c \in Nat, ReadUpTo(s, c),
         c < Len(receivers[s]) + 2 * Len(blocks[s]) + 3, NEW n \in Nat \ {0},
         c + 1 <= Len(sent[s]) => sent[s][c + 1].n = n
  PROVE  /\ ~Eof(n)
         /\ Avail(n) => /\ c + 1 \in 1..Len(sent[s]) /\ sent[s][c + 1].n = n
                        /\ NextBytes(n) = Cells(s, c + 1, n)
                        /\ Intact(NextBytes(n)) /\ Chunk(NextBytes(n)) = sent[s][c + 1]
                        /\ InOrder(s, pos + n, c + 1)
<1> DEFINE C == Len(sent[s])
<1>1. TypeOK /\ Written /\ Whole /\ Alone(s)  BY DEF Ready
<1>2. C \in Nat  BY ReadyFacts
<1>3. CASE c + 1 <= C
  <2> DEFINE bytes == NextBytes(n)
  <2>1. Avail(n) /\ bytes = Cells(s, c + 1, n) /\ InOrder(s, pos + n, c + 1)
    BY <1>1, <1>3, NextWhole
  <2>2. c + 1 \in 1..C  BY <1>2, <1>3
  <2>3. bytes[1] = [from |-> s, chunk |-> c + 1, byte |-> 1] /\ bytes # << >>
    <3>1. 1 \in 1..n /\ c + 1 \in Nat  OBVIOUS
    <3>2. bytes[1] = [from |-> s, chunk |-> c + 1, byte |-> 1]  BY <2>1, <3>1 DEF Cells
    <3>3. Len(bytes) = n  BY <2>1, <3>1, CellsType
    <3> HIDE DEF bytes
    <3>4. QED  BY <3>2, <3>3
  <2>4. bytes[1] # Noise  BY <2>3, KeysAssumption
  <2>5. c + 1 \in DOMAIN sent[s]  BY <1>1, <2>2 DEF TypeOK, WireTypeOK
  <2>6. Intact(bytes) /\ Chunk(bytes) = sent[s][c + 1]
    BY <1>3, <2>1, <2>3, <2>4, <2>5 DEF Intact, Chunk
  <2>7. QED  BY <1>3, <2>1, <2>2, <2>6 DEF Eof
<1>4. CASE ~(c + 1 <= C)
  <2>1. pos = Len(wire)  BY <1>1, <1>4, NextWhole
  <2>2. ~Avail(n)
    <3>1. Len(wire) \in Nat  BY <1>1 DEF TypeOK, WireTypeOK
    <3>2. QED  BY <2>1, <3>1 DEF Avail
  <2>3. ~Closed
    <3>1. Closed => C = Len(receivers[s]) + 2 * Len(blocks[s]) + 3  BY ReadyFacts
    <3> DEFINE total == Len(receivers[s]) + 2 * Len(blocks[s]) + 3
    <3>2. c < total  OBVIOUS
    <3>3. total \in Nat
      <4> DEFINE h == Len(receivers[s])
                 k == Len(blocks[s])
      <4>1. h \in Nat /\ k \in Nat  BY ReadyFacts
      <4> HIDE DEF h, k
      <4>2. h + 2 * k + 3 \in Nat  BY <4>1
      <4>3. QED  BY <4>2 DEF h, k
    <3> HIDE DEF total, C
    <3>4. C # total  BY <1>2, <1>4, <3>2, <3>3
    <3>5. QED  BY <3>1, <3>4 DEF total, C
  <2>4. QED  BY <2>2, <2>3 DEF Eof
<1>5. QED  BY <1>3, <1>4

\* decrypt has read on, to the end of a chunk.
LEMMA NowReadUpTo ==
  ASSUME NEW s \in Sessions, sent' = sent, wire' = wire, NEW p, pos' = p,
         NEW c, c # 0, c \in 1..Len(sent[s]), InOrder(s, p, c)
  PROVE  ReadUpTo(s, c)'
BY DEF ReadUpTo, InOrder, NextByte

\* One round of the loop over the headers: the next one, or the DEK is mixed in where
\* the encryption did.
LEMMA HeadersStepReads ==
  ASSUME NEW s \in Sessions, Ready(s), UNCHANGED <<encryptVars, wireVars, receiver>>,
         i < Len(receivers[s]), i + 1 \in 1..Len(sent[s]),
         NEW p, pos' = p, InOrder(s, p, i + 1),
         Len(dmsg) = i + 2, dmsg = SubSeq(message[s], 1, Len(dmsg)),
         NEW d, NEW count,
         HeadersStep(Mix(dmsg, "header", Cells(s, i + 1, ENC_HEADER_LEN)), d, count),
         \/ d = s /\ count = Len(receivers[s])
         \/ /\ d = NoDek /\ count = U64_MAX
            /\ \A j \in 1..(i + 1) : receivers[s][j] # receiver
  PROVE  Reading(s)'
<1> DEFINE h == Len(receivers[s])
           m == message[s]
           c == i + 1
           e == <<"mix", "header", Cells(s, c, ENC_HEADER_LEN)>>
           mixed == Mix(dmsg, "header", Cells(s, c, ENC_HEADER_LEN))
           dekOp == <<"mix", "dek", s>>
<1>1. /\ h \in Nat /\ Base(s) = h + 3 /\ m \in Seq(Op) /\ Len(m) \in Nat
      /\ dmsg \in Seq(Op) /\ sent[s] \in Seq(WriteUnit) /\ Len(sent[s]) \in Nat
      /\ WrittenOf(s)
      /\ Len(sent[s]) >= h => Len(m) >= Base(s) /\ m[Base(s)] = dekOp
  BY ReadyFacts
<1>2. i \in Nat /\ c \in Nat \ {0} /\ c <= h
  <2>1. i \in Nat  BY DEF Ready, TypeOK, DecryptTypeOK
  <2> HIDE DEF h
  <2>2. i < h  BY DEF h
  <2>3. QED  BY <1>1, <2>1, <2>2
<1>3. Len(m) >= i + 3 /\ m[i + 3] = e
  <2>1. PlacedIn(sent[s][c], c, s, m, receivers[s])  BY <1>1 DEF WrittenOf
  <2>2. c + 2 <= Len(m) /\ m[c + 2] = e  BY <1>2, <2>1 DEF PlacedIn
  <2>3. c + 2 = i + 3  BY <1>2
  <2> HIDE DEF c, e, m
  <2>4. QED  BY <1>1, <1>2, <2>2, <2>3
<1>4. mixed \in Seq(Op) /\ Len(mixed) = i + 3 /\ mixed = SubSeq(m, 1, Len(mixed))
  <2>1. mixed = Append(dmsg, e)  BY DEF Mix
  <2> HIDE DEF mixed, e, m, c
  <2>2. Len(dmsg) + 1 = i + 3  BY <1>2
  <2>3. e \in Op
    <3>1. i + 3 \in 1..Len(m)  BY <1>1, <1>2, <1>3
    <3>2. QED  BY <1>1, <1>3, <3>1
  <2>4. mixed \in Seq(Op) /\ Len(mixed) = i + 3
    BY <1>1, <2>1, <2>2, <2>3, AppendExtends
  <2>5. Append(dmsg, m[Len(dmsg) + 1]) = SubSeq(m, 1, Len(dmsg) + 1)
    <3>1. dmsg = SubSeq(m, 1, Len(dmsg)) /\ Len(dmsg) + 1 <= Len(m)
      BY <1>1, <1>3, <2>2 DEF m
    <3>2. QED  BY <1>1, <3>1, PrefixAppend
  <2>6. QED  BY <1>3, <2>1, <2>2, <2>4, <2>5
<1>5. /\ i' = c /\ dek' = d /\ recvCount' = count
      /\ dmsg' = IF c < count \/ d = NoDek THEN mixed ELSE Keyed(mixed, d)
      /\ dpc' = IF c < count THEN "headers"
                ELSE IF d = NoDek THEN "InvalidCiphertext" ELSE "block-header"
  BY DEF HeadersStep
<1>6. /\ epc'[s] = epc[s] /\ message'[s] = m /\ receivers'[s] = receivers[s]
      /\ sent' = sent /\ wire' = wire /\ receiver' = receiver /\ epc[s] # "idle"
  BY DEF encryptVars, wireVars, Ready
<1>7. d = NoDek => c < h /\ h <= U64_MAX
  <2>1. SUFFICES ASSUME d = NoDek PROVE c < h /\ h <= U64_MAX  OBVIOUS
  <2>2. d # s  BY <2>1, DecryptAssumption
  <2>3. receiver \in Range(receivers[s]) /\ h <= U64_MAX
    BY DEF Ready, Addressed, LaidOut
  <2>4. receivers[s] \in Seq(Keys \union {Fake})
    BY DEF Ready, TypeOK, EncryptTypeOK
  <2>5. PICK j \in 1..h : receivers[s][j] = receiver
    <3>1. DOMAIN receivers[s] = 1..h  BY <2>4
    <3>2. QED  BY <2>3, <3>1 DEF Range
  <2>6. ~(j \in 1..c)  BY <2>2, <2>5
  <2> HIDE DEF c, h
  <2>7. QED  BY <1>1, <1>2, <2>3, <2>6
<1>8. \A q : q = c => ReadUpTo(s, q)'
  <2>1. SUFFICES ASSUME NEW q, q = c PROVE ReadUpTo(s, q)'  OBVIOUS
  <2>2. InOrder(s, p, q) /\ q \in 1..Len(sent[s]) /\ q # 0  BY <1>2, <2>1
  <2>3. QED  BY <1>6, <2>2, NowReadUpTo
<1>9. CASE c < count
  <2>1. dpc' = "headers" /\ dmsg' = mixed  BY <1>5, <1>9
  <2>2. c < h  BY <1>7, <1>9
  <2>3. Looking(s)'
    <3>1. ReadUpTo(s, i)'  BY <1>5, <1>8 DEF ReadUpTo
    <3>2. i' < Len(receivers'[s])  BY <1>5, <1>6, <2>2
    <3>3. \/ dek' = s
          \/ /\ dek' = NoDek /\ recvCount' = U64_MAX
             /\ \A j \in 1..i' : receivers'[s][j] # receiver'
      BY <1>5, <1>6
    <3>4. s # NoDek  BY DecryptAssumption
    <3>5. QED  BY <3>1, <3>2, <3>3, <3>4 DEF Looking
  <2>4. Len(dmsg') <= Len(message'[s]) /\ dmsg' = SubSeq(message'[s], 1, Len(dmsg'))
    <3> HIDE DEF mixed, m
    <3>1. Len(mixed) <= Len(m)  BY <1>1, <1>2, <1>3, <1>4
    <3>2. QED  BY <1>4, <1>6, <2>1, <3>1
  <2>5. QED  BY <1>6, <2>1, <2>3, <2>4 DEF Reading
<1>10. CASE ~(c < count)
  <2>1. d = s /\ count = h
    <3>1. ~(d = NoDek /\ count = U64_MAX)
      <4>1. U64_MAX \in Nat  BY DecryptAssumption
      <4> HIDE DEF c, h
      <4>2. QED  BY <1>1, <1>2, <1>7, <1>10, <4>1
    <3>2. QED  BY <3>1
  <2>2. d # NoDek /\ dpc' = "block-header" /\ dmsg' = Keyed(mixed, s) /\ c = h
    <3>1. d # NoDek  BY <2>1, DecryptAssumption
    <3>2. c = h
      <4> HIDE DEF c, h
      <4>1. QED  BY <1>1, <1>2, <1>10, <2>1
    <3>3. QED  BY <1>5, <1>10, <2>1, <3>1, <3>2
  <2>3. Len(m) >= h + 3 /\ m[h + 3] = dekOp /\ i + 3 = h + 2
    <3>1. Len(sent[s]) >= h
      <4>1. c \in 1..Len(sent[s])  OBVIOUS
      <4> HIDE DEF c, h
      <4>2. QED  BY <1>1, <2>2, <4>1
    <3>2. Len(m) >= Base(s) /\ m[Base(s)] = dekOp  BY <1>1, <3>1
    <3>3. i + 3 = h + 2
      <4> HIDE DEF h
      <4>1. i + 1 = h  BY <2>2
      <4>2. QED  BY <1>1, <1>2, <4>1
    <3> HIDE DEF h, m, dekOp
    <3>4. QED  BY <1>1, <3>2, <3>3
  <2>4. dmsg' = Append(mixed, m[Len(mixed) + 1]) /\ Len(mixed) + 1 = h + 3
    <3>1. Keyed(mixed, s) = Append(mixed, dekOp)  BY DEF Keyed, Mix
    <3> HIDE DEF h, m, dekOp, mixed
    <3>2. Len(mixed) + 1 = h + 3  BY <1>1, <1>4, <2>3
    <3>3. QED  BY <2>2, <2>3, <3>1, <3>2
  <2>5. dmsg' = SubSeq(m, 1, h + 3) /\ Len(dmsg') = h + 3
    <3> HIDE DEF h, m, mixed
    <3>1. Len(mixed) + 1 <= Len(m)  BY <2>3, <2>4
    <3>2. dmsg' = SubSeq(m, 1, Len(mixed) + 1)
      BY <1>1, <1>4, <2>4, <3>1, PrefixAppend
    <3>3. m[Len(mixed) + 1] \in Op
      <4>1. Len(mixed) + 1 \in 1..Len(m)  BY <1>1, <2>4, <3>1
      <4>2. QED  BY <1>1, <4>1
    <3>4. Len(dmsg') = Len(mixed) + 1  BY <1>4, <2>4, <3>3, AppendExtends
    <3>5. QED  BY <2>4, <3>2, <3>4
  <2>6. Opening(s)'
    <3>1. dek' = s  BY <1>5, <2>1
    <3>2. Len(dmsg') - 3 = c
      <4> HIDE DEF h, c
      <4>1. QED  BY <1>1, <2>2, <2>5
    <3>3. ReadUpTo(s, Len(dmsg) - 3)'  BY <1>8, <3>2 DEF ReadUpTo
    <3>4. QED  BY <2>2, <3>1, <3>3 DEF Opening
  <2>7. Len(dmsg') <= Len(message'[s]) /\ dmsg' = SubSeq(message'[s], 1, Len(dmsg'))
    BY <1>6, <2>3, <2>5
  <2>8. QED  BY <1>6, <2>2, <2>6, <2>7 DEF Reading
<1>11. QED  BY <1>9, <1>10

\* Whether the header that follows is for this receiver, or for another, or a fake.
LEMMA DecryptHeaderReads ==
  ASSUME NEW s \in Sessions, Ready(s), dpc = "headers", Looking(s),
         dmsg = SubSeq(message[s], 1, Len(dmsg)), DecryptHeader
  PROVE  Reading(s)'
<1> DEFINE h == Len(receivers[s])
           m == message[s]
           n == ENC_HEADER_LEN
           c == i + 1
           bytes == NextBytes(n)
           u == sent[s][c]
           mixed == Mix(dmsg, "header", bytes)
<1>1. /\ TypeOK /\ Lockstep /\ LaidOut(s) /\ SessionOK(s) /\ WrittenOf(s)
      /\ h \in Nat /\ Len(blocks[s]) \in Nat /\ Len(sent[s]) \in Nat
  BY ReadyFacts DEF Ready
<1>2. /\ i \in Nat /\ receiver \in Keys /\ dek \in Sessions \union {NoDek}
      /\ n \in Nat \ {0}
  BY <1>1, EncLengthsType DEF TypeOK, DecryptTypeOK
<1>3. /\ ReadUpTo(s, i) /\ i < h
      /\ dek = NoDek => recvCount = U64_MAX /\ \A j \in 1..i : receivers[s][j] # receiver
      /\ dek # NoDek => dek = s
  BY DEF Looking
<1>4. Len(dmsg) = i + 2 /\ (dek # NoDek => recvCount = Len(receivers[dek]))
  BY <1>1 DEF Lockstep, HeadersLockstep
<1>5. c \in Nat \ {0} /\ c <= h /\ c + 1 = i + 2
  <2> HIDE DEF h
  <2>1. QED  BY <1>1, <1>2, <1>3
<1>6. c <= Len(sent[s]) => u.n = n
  <2>1. SUFFICES ASSUME c <= Len(sent[s]) PROVE u.n = n  OBVIOUS
  <2>2. c \in 1..Len(sent[s])  BY <1>1, <1>5, <2>1
  <2>3. PlacedIn(u, c, s, m, receivers[s])  BY <1>1, <2>2 DEF WrittenOf
  <2>4. QED  BY <1>5, <2>3 DEF PlacedIn
<1>7. i < h + 2 * Len(blocks[s]) + 3
  <2> DEFINE k == Len(blocks[s])
  <2>1. k \in Nat /\ h \in Nat  BY <1>1
  <2> HIDE DEF h, k
  <2>2. i < h + 2 * k + 3  BY <1>2, <1>3, <2>1
  <2>3. QED  BY <2>2 DEF k
<1>8. /\ ~Eof(n)
      /\ Avail(n) => /\ c \in 1..Len(sent[s]) /\ bytes = Cells(s, c, n)
                     /\ Intact(bytes) /\ Chunk(bytes) = u /\ InOrder(s, pos + n, c)
  <2> HIDE DEF n
  <2>1. QED  BY <1>2, <1>3, <1>6, <1>7, NextOrWait
<1>9. CASE IoErrors /\ Return("ReadIo")  BY <1>9 DEF Return, Reading, Broken
<1>10. ASSUME Avail(n), pos' = pos + n, UNCHANGED <<encryptVars, wireVars, receiver>>,
              IF dek = NoDek /\ HeaderOpens(dmsg, bytes)
              THEN HeadersStep(mixed, Chunk(bytes).plain[1], Chunk(bytes).plain[2])
              ELSE HeadersStep(mixed, dek, recvCount)
       PROVE  Reading(s)'
  <2>1. /\ c \in 1..Len(sent[s]) /\ bytes = Cells(s, c, n)
        /\ Intact(bytes) /\ Chunk(bytes) = u /\ InOrder(s, pos + n, c)
    BY <1>8, <1>10
  <2>2. SealedIn(u, c, s, m, receivers[s])  BY <1>1, <2>1 DEF SessionOK
  <2> DEFINE Round(d, count) ==
        /\ HeadersStep(Mix(dmsg, "header", Cells(s, i + 1, ENC_HEADER_LEN)), d, count)
        /\ \/ d = s /\ count = Len(receivers[s])
           \/ /\ d = NoDek /\ count = U64_MAX
              /\ \A j \in 1..(i + 1) : receivers[s][j] # receiver
  <2>3. ASSUME NEW d, NEW count, Round(d, count)
        PROVE  Reading(s)'
    <3> DEFINE p == pos + n
    <3>1. pos' = p /\ InOrder(s, p, i + 1) /\ i + 1 \in 1..Len(sent[s])
      BY <1>10, <2>1
    <3> HIDE DEF p
    <3>2. QED  BY <1>3, <1>4, <1>10, <2>3, <3>1, HeadersStepReads
  <2>4. CASE dek = NoDek /\ HeaderOpens(dmsg, bytes)
    <3>1. u.label = "header"  BY <2>1, <2>4 DEF HeaderOpens, Opens
    <3>2. u.plain = <<s, h>>  BY <2>2, <3>1 DEF SealedIn
    <3>3. u.plain[1] = s /\ u.plain[2] = h  BY <3>2
    <3>4. Round(s, h)  BY <1>10, <2>1, <2>4, <3>3
    <3> HIDE DEF Round
    <3>5. QED  BY <2>3, <3>4
  <2>5. CASE dek # NoDek
    <3>1. dek = s /\ recvCount = h  BY <1>3, <1>4, <2>5
    <3>2. Round(s, h)  BY <1>10, <2>1, <2>5, <3>1
    <3> HIDE DEF Round
    <3>3. QED  BY <2>3, <3>2
  <2>6. CASE dek = NoDek /\ ~HeaderOpens(dmsg, bytes)
    <3>1. ASSUME receivers[s][c] = receiver PROVE FALSE
      <4>1. u.label = "header"  BY <1>1, <1>2, <1>5, <2>1, <3>1 DEF LaidOut
      <4>2. u.under = HeaderProtocol(SubSeq(m, 1, c + 1), receiver,
                                     SubSeq(Cells(s, c, n), 1, ENC_CT_LEN))
        BY <2>2, <3>1, <4>1 DEF SealedIn
      <4>3. SubSeq(m, 1, c + 1) = dmsg  BY <1>4, <1>5
      <4>4. HeaderOpens(dmsg, bytes)
        BY <2>1, <4>1, <4>2, <4>3 DEF HeaderOpens, Opens
      <4>5. QED  BY <2>6, <4>4
    <3>2. \A j \in 1..(i + 1) : receivers[s][j] # receiver
      <4>1. TAKE j \in 1..(i + 1)
      <4>2. j \in 1..i \/ j = c  BY <1>2
      <4>3. QED  BY <1>3, <2>6, <3>1, <4>2
    <3>3. Round(NoDek, U64_MAX)
      <4>1. recvCount = U64_MAX  BY <1>3, <2>6
      <4>2. HeadersStep(mixed, NoDek, U64_MAX)  BY <1>10, <2>6, <4>1
      <4>3. QED  BY <2>1, <3>2, <4>2
    <3> HIDE DEF Round
    <3>4. QED  BY <2>3, <3>3
  <2>7. QED  BY <2>4, <2>5, <2>6
<1>11. QED  BY <1>8, <1>9, <1>10 DEF DecryptHeader

\* Where decrypt_message stands among the chunks.
LEMMA OpeningAt ==
  ASSUME NEW s \in Sessions, Ready(s), dpc \in {"block-header", "block", "sig"}, Opening(s)
  PROVE  LET h == Len(receivers[s])
             k == Len(blocks[s])
             j == Len(out)
             c == Len(dmsg) - 3
         IN  /\ dek = s /\ j \in 0..k /\ c \in Nat /\ Len(dmsg) = c + 3
             /\ ReadUpTo(s, c) /\ c < h + 2 * k + 3
             /\ dpc = "block-header" => c + 1 = h + 2 * j + 1
             /\ dpc = "block" => c + 1 = h + 2 * j + 2
             /\ dpc = "sig" => c + 1 = h + 2 * (j + 1) + 1
<1> DEFINE h == Len(receivers[s])
           k == Len(blocks[s])
           j == Len(out)
           n == Len(dmsg)
<1>1. dek = s /\ ReadUpTo(s, n - 3)  BY DEF Opening
<1>2. /\ h \in Nat /\ k \in Nat /\ n \in Nat /\ Base(s) = h + 3
  BY ReadyFacts
<1>3. j \in Nat  BY DEF Ready, TypeOK, DecryptTypeOK
<1>4. /\ n = Base(s) + 2 * j +
               (IF dpc = "block-header" THEN 0 ELSE IF dpc = "block" THEN 1 ELSE 2)
      /\ j <= k
  <2>1. s # NoDek  BY DecryptAssumption
  <2>2. QED  BY <1>1, <2>1 DEF Ready, Lockstep, BlocksLockstep, ReleasedLockstep
<1>5. /\ dpc = "block-header" => n = h + 3 + 2 * j
      /\ dpc = "block" => n = h + 3 + 2 * j + 1
      /\ dpc = "sig" => n = h + 3 + 2 * j + 2
  <2> HIDE DEF n, h, j, k
  <2>1. QED  BY <1>2, <1>3, <1>4
<1>6. /\ j \in 0..k /\ n - 3 \in Nat /\ n = (n - 3) + 3
      /\ n - 3 < h + 2 * k + 3
      /\ dpc = "block-header" => (n - 3) + 1 = h + 2 * j + 1
      /\ dpc = "block" => (n - 3) + 1 = h + 2 * j + 2
      /\ dpc = "sig" => (n - 3) + 1 = h + 2 * (j + 1) + 1
  <2>0. j <= k  BY <1>4
  <2> HIDE DEF n, h, j, k
  <2>1. CASE dpc = "block-header"  BY <1>2, <1>3, <1>5, <2>0, <2>1
  <2>2. CASE dpc = "block"  BY <1>2, <1>3, <1>5, <2>0, <2>2
  <2>3. CASE dpc = "sig"  BY <1>2, <1>3, <1>5, <2>0, <2>3
  <2>4. QED  BY <2>1, <2>2, <2>3
<1>7. QED  BY <1>1, <1>6

\* The chunk u is a seal, next after the c chunks that decrypt has read; d is its protocol
\* once it has opened it.
NextSeal(s, c, u, d) ==
  /\ Len(dmsg) = c + 3 /\ dmsg = SubSeq(message[s], 1, Len(dmsg))
  /\ c + 1 \in 1..Len(sent[s]) /\ u = sent[s][c + 1]
  /\ u.label \in {"block-header", "block"} /\ d = Sealed(dmsg, u.label, u.plain)

\* It was sealed under decrypt's protocol, and opening it takes both protocols to the
\* same state.
LEMMA SealOpens ==
  ASSUME NEW s \in Sessions, Ready(s), NEW c \in Nat, NEW u, NEW d, NextSeal(s, c, u, d)
  PROVE  /\ u.under = dmsg
         /\ Len(d) = c + 4 /\ Len(d) <= Len(message[s])
         /\ d = SubSeq(message[s], 1, Len(d))
<1> DEFINE m == message[s]
           e == <<"seal", u.label, u.plain>>
<1>0. /\ Len(dmsg) = c + 3 /\ dmsg = SubSeq(m, 1, Len(dmsg))
      /\ c + 1 \in 1..Len(sent[s]) /\ u = sent[s][c + 1]
      /\ u.label \in {"block-header", "block"} /\ d = Sealed(dmsg, u.label, u.plain)
  BY DEF NextSeal
<1>1. /\ SessionOK(s) /\ WrittenOf(s)
      /\ m \in Seq(Op) /\ Len(m) \in Nat /\ dmsg \in Seq(Op)
  BY ReadyFacts
<1>2. PlacedIn(u, c + 1, s, m, receivers[s])  BY <1>0, <1>1 DEF WrittenOf
<1>3. SealedIn(u, c + 1, s, m, receivers[s])  BY <1>0, <1>1 DEF SessionOK
<1>4. Len(u.under) = c + 3
  <2>1. Len(u.under) = c + 1 + 2  BY <1>0, <1>2 DEF PlacedIn
  <2>2. QED  BY <2>1
<1>5. /\ Len(u.under) + 1 <= Len(m) /\ u.under = SubSeq(m, 1, Len(u.under))
      /\ m[Len(u.under) + 1] = e
  BY <1>0, <1>3 DEF SealedIn
<1>6. u.under = dmsg  BY <1>0, <1>4, <1>5
<1>7. Len(dmsg) + 1 = c + 4 /\ c + 4 <= Len(m) /\ m[c + 4] = e
  <2>1. c + 3 + 1 = c + 4  OBVIOUS
  <2> HIDE DEF m, e
  <2>2. QED  BY <1>0, <1>4, <1>5, <2>1
<1>8. d = Append(dmsg, m[Len(dmsg) + 1])  BY <1>0, <1>7 DEF Sealed
<1> HIDE DEF m, e
<1>9. d = SubSeq(m, 1, c + 4)
  <2>1. Len(dmsg) + 1 <= Len(m) /\ dmsg = SubSeq(m, 1, Len(dmsg))  BY <1>0, <1>7
  <2>2. Append(dmsg, m[Len(dmsg) + 1]) = SubSeq(m, 1, Len(dmsg) + 1)
    BY <1>1, <2>1, PrefixAppend
  <2>3. QED  BY <1>7, <1>8, <2>2
<1>10. Len(d) = c + 4
  <2>1. c + 4 \in 1..Len(m)  BY <1>1, <1>7
  <2>2. m[Len(dmsg) + 1] \in Op  BY <1>1, <1>7, <2>1
  <2>3. Len(d) = Len(dmsg) + 1  BY <1>1, <1>8, <2>2, AppendExtends
  <2>4. QED  BY <1>7, <2>3
<1>11. QED  BY <1>6, <1>7, <1>9, <1>10 DEF m

\* Both protocols went on alike: decrypt is still reading the message.
LEMMA ReadsTheMessage ==
  ASSUME NEW s \in Sessions, Ready(s), UNCHANGED <<encryptVars, wireVars, dek>>, dek = s,
         NEW c \in Nat, c + 1 \in 1..Len(sent[s]), NEW p, pos' = p, InOrder(s, p, c + 1),
         NEW d, dmsg' = d, Len(d) = c + 4, Len(d) <= Len(message[s]),
         d = SubSeq(message[s], 1, Len(d)), dpc' \in {"block-header", "block", "sig"},
         dpc' = "sig" => message[s][c + 3][3][1] = "Padding"
  PROVE  Reading(s)'
<1> DEFINE m == message[s]
<1>1. /\ epc'[s] = epc[s] /\ message'[s] = m /\ sent' = sent /\ wire' = wire
      /\ epc[s] # "idle" /\ dek' = s
  BY DEF encryptVars, wireVars, Ready
<1>2. c + 1 # 0 /\ c + 4 - 3 = c + 1 /\ c + 4 - 1 = c + 3  OBVIOUS
<1>3. ReadUpTo(s, c + 1)'  BY <1>1, <1>2, NowReadUpTo
<1>4. Opening(s)'
  <2>1. Len(dmsg') - 3 = c + 1 /\ Len(dmsg') - 1 = c + 3  BY <1>2
  <2>2. ReadUpTo(s, Len(dmsg) - 3)'  BY <1>3, <2>1 DEF ReadUpTo
  <2>3. QED  BY <1>1, <2>1, <2>2 DEF Opening
<1>5. QED  BY <1>1, <1>4 DEF Reading

LEMMA DecryptBlockHeaderReads ==
  ASSUME NEW s \in Sessions, Ready(s), dpc = "block-header", Opening(s),
         dmsg = SubSeq(message[s], 1, Len(dmsg)), DecryptBlockHeader
  PROVE  Reading(s)'
<1> DEFINE h == Len(receivers[s])
           k == Len(blocks[s])
           j == Len(out)
           m == message[s]
           c == Len(dmsg) - 3
           n == ENC_BLOCK_HEADER_LEN
           bytes == NextBytes(n)
           u == sent[s][c + 1]
<1>1. /\ dek = s /\ j \in 0..k /\ c \in Nat /\ Len(dmsg) = c + 3
      /\ ReadUpTo(s, c) /\ c < h + 2 * k + 3 /\ c + 1 = h + 2 * j + 1
  BY OpeningAt
<1> HIDE DEF c
<1>2. /\ LaidOut(s) /\ n \in Nat \ {0} /\ h \in Nat /\ k \in Nat
      /\ Len(sent[s]) \in Nat
  BY ReadyFacts, EncLengthsType DEF Ready
<1>3. c + 1 <= Len(sent[s]) => u.label = "block-header" /\ u.n = n
  <2>1. Turn(sent[s], h, k, m, j)  BY <1>1, <1>2 DEF LaidOut, Turns
  <2>2. j <= k  BY <1>1, <1>2
  <2>3. QED  BY <1>1, <2>1, <2>2 DEF Turn
<1> HIDE DEF n
<1>4. /\ ~Eof(n)
      /\ Avail(n) => /\ c + 1 \in 1..Len(sent[s]) /\ bytes = Cells(s, c + 1, n)
                     /\ Intact(bytes) /\ Chunk(bytes) = u /\ InOrder(s, pos + n, c + 1)
  BY <1>1, <1>2, <1>3, NextOrWait
<1>5. CASE IoErrors /\ Return("ReadIo")  BY <1>5 DEF Return, Reading, Broken
<1>6. CASE Avail(n)
  <2> DEFINE d == Sealed(dmsg, u.label, u.plain)
             p == pos + n
  <2>1. /\ c + 1 \in 1..Len(sent[s]) /\ Intact(bytes) /\ Chunk(bytes) = u
        /\ InOrder(s, p, c + 1)
    BY <1>4, <1>6
  <2>2. u.label = "block-header"
    <3>1. c + 1 <= Len(sent[s])  BY <1>1, <1>2, <2>1
    <3>2. QED  BY <1>3, <3>1
  <2>3. u = sent[s][c + 1] /\ d = Sealed(dmsg, u.label, u.plain)  OBVIOUS
  <2> HIDE DEF u, d, p
  <2>4. /\ u.under = dmsg /\ Len(d) = c + 4 /\ Len(d) <= Len(m)
        /\ d = SubSeq(m, 1, Len(d))
    <3>1. NextSeal(s, c, u, d)  BY <1>1, <2>1, <2>2, <2>3 DEF NextSeal
    <3>2. QED  BY <1>1, <3>1, SealOpens
  <2>5. BytesOpen("block-header", bytes)  BY <2>1, <2>2, <2>4 DEF BytesOpen, Opens
  <2>6. CASE /\ pos' = p /\ hdr' = Chunk(bytes).plain
             /\ dmsg' = Sealed(dmsg, "block-header", hdr') /\ dpc' = "block"
             /\ UNCHANGED <<encryptVars, wireVars, dek>>
    <3>1. dmsg' = d  BY <2>1, <2>2, <2>3, <2>6
    <3>2. QED  BY <1>1, <2>1, <2>4, <2>6, <3>1, ReadsTheMessage
  <2>7. CASE ~BytesOpen("block-header", bytes)  BY <2>5, <2>7
  <2>8. QED  BY <1>4, <1>5, <2>6, <2>7 DEF DecryptBlockHeader, n, p
<1>7. QED  BY <1>4, <1>5, <1>6 DEF DecryptBlockHeader, n

LEMMA DecryptBlockReads ==
  ASSUME NEW s \in Sessions, Ready(s), dpc = "block", Opening(s),
         Len(dmsg) <= Len(message[s]), dmsg = SubSeq(message[s], 1, Len(dmsg)), DecryptBlock
  PROVE  Reading(s)'
<1> DEFINE h == Len(receivers[s])
           k == Len(blocks[s])
           j == Len(out)
           m == message[s]
           c == Len(dmsg) - 3
           n == hdr[2] + TAG_LEN
           bytes == NextBytes(n)
           u == sent[s][c + 1]
<1>1. /\ dek = s /\ j \in 0..k /\ c \in Nat /\ Len(dmsg) = c + 3
      /\ ReadUpTo(s, c) /\ c < h + 2 * k + 3 /\ c + 1 = h + 2 * j + 2
  BY OpeningAt
<1> HIDE DEF c
<1>2. /\ LaidOut(s) /\ h \in Nat /\ k \in Nat /\ SessionOK(s) /\ WrittenOf(s)
      /\ Len(sent[s]) \in Nat /\ m \in Seq(Op) /\ Len(m) \in Nat /\ dmsg \in Seq(Op)
  BY ReadyFacts DEF Ready
<1>3. hdr \in {"Data", "Padding"} \X Nat /\ n \in Nat \ {0}
  <2>1. hdr \in {"Data", "Padding"} \X Nat  BY DEF Ready, TypeOK, DecryptTypeOK
  <2>2. hdr[2] \in Nat /\ TAG_LEN \in Nat \ {0}  BY <2>1, LengthsAssumption
  <2>3. QED  BY <2>1, <2>2
<1>4. m[c + 3] = <<"seal", "block-header", hdr>>
  <2>1. dmsg[Len(dmsg)] = <<"seal", "block-header", hdr>>
    BY DEF Ready, Lockstep, BlocksLockstep
  <2>2. dmsg[Len(dmsg)] = m[Len(dmsg)]
    <3> DEFINE l == Len(dmsg)
    <3>1. l \in Nat /\ l \in 1..l /\ l <= Len(m) /\ dmsg = SubSeq(m, 1, l)  BY <1>1
    <3> HIDE DEF l, m
    <3>2. \A q \in 1..l : m[q] \in Op
      <4>1. \A q \in 1..l : q \in 1..Len(m)  BY <1>2, <3>1
      <4>2. QED  BY <1>2, <4>1
    <3>3. \A q \in 1..l : SubSeq(m, 1, l)[q] = m[q]
      BY <3>1, <3>2, SubSeqProperties
    <3>4. QED  BY <3>1, <3>3 DEF l
  <2>3. QED  BY <1>1, <2>1, <2>2
<1>5. Turn(sent[s], h, k, m, j)  BY <1>1, <1>2 DEF LaidOut, Turns
<1>6. c \in 1..Len(sent[s]) /\ c = h + 2 * j + 1 /\ c <= Len(sent[s])
  <2>1. c = h + 2 * j + 1 /\ c # 0
    <3> HIDE DEF c, h, j, k
    <3>1. QED  BY <1>1, <1>2
  <2>2. c \in 1..Len(sent[s])  BY <1>1, <2>1 DEF ReadUpTo
  <2>3. c <= Len(sent[s])
    <3> DEFINE l == Len(sent[s])
    <3>1. l \in Nat /\ c \in 1..l  BY <1>2, <2>2
    <3> HIDE DEF l
    <3>2. c <= l  BY <3>1
    <3>3. QED  BY <3>2 DEF l
  <2>4. QED  BY <2>1, <2>2, <2>3
<1>7. sent[s][c].plain = hdr
  <2> DEFINE v == sent[s][c]
  <2>1. v.label = "block-header"
    <3>1. j <= k  BY <1>1, <1>2
    <3>2. QED  BY <1>5, <1>6, <3>1 DEF Turn
  <2>2. Len(v.under) = c + 2
    <3>1. PlacedIn(v, c, s, m, receivers[s])  BY <1>2, <1>6 DEF WrittenOf
    <3>2. QED  BY <2>1, <3>1 DEF PlacedIn
  <2>3. m[c + 3] = <<"seal", v.label, v.plain>>
    <3>1. SealedIn(v, c, s, m, receivers[s])  BY <1>2, <1>6 DEF SessionOK
    <3>2. m[Len(v.under) + 1] = <<"seal", v.label, v.plain>>
      BY <2>1, <3>1 DEF SealedIn
    <3>3. Len(v.under) + 1 = c + 3
      <4>1. c \in Nat  BY <1>1
      <4> HIDE DEF v
      <4>2. QED  BY <2>2, <4>1
    <3>4. QED  BY <3>2, <3>3
  <2> HIDE DEF v
  <2>4. v.plain = hdr  BY <1>4, <2>3
  <2>5. QED  BY <2>4 DEF v
<1>8. c + 1 <= Len(sent[s]) => u.label = "block" /\ u.n = n
  BY <1>1, <1>5, <1>6, <1>7 DEF Turn
<1> HIDE DEF n
<1>9. /\ ~Eof(n)
      /\ Avail(n) => /\ c + 1 \in 1..Len(sent[s]) /\ bytes = Cells(s, c + 1, n)
                     /\ Intact(bytes) /\ Chunk(bytes) = u /\ InOrder(s, pos + n, c + 1)
  BY <1>1, <1>3, <1>8, NextOrWait
<1>10. CASE IoErrors /\ Return("ReadIo")  BY <1>10 DEF Return, Reading, Broken
<1>11. CASE Avail(n)
  <2> DEFINE d == Sealed(dmsg, u.label, u.plain)
             p == pos + n
  <2>1. /\ c + 1 \in 1..Len(sent[s]) /\ Intact(bytes) /\ Chunk(bytes) = u
        /\ InOrder(s, p, c + 1)
    BY <1>9, <1>11
  <2>2. u.label = "block"
    <3>1. c + 1 <= Len(sent[s])  BY <1>1, <1>2, <2>1
    <3>2. QED  BY <1>8, <3>1
  <2>3. u = sent[s][c + 1] /\ d = Sealed(dmsg, u.label, u.plain)  OBVIOUS
  <2> HIDE DEF u, d, p
  <2>4. /\ u.under = dmsg /\ Len(d) = c + 4 /\ Len(d) <= Len(m)
        /\ d = SubSeq(m, 1, Len(d))
    <3>1. NextSeal(s, c, u, d)  BY <1>1, <2>1, <2>2, <2>3 DEF NextSeal
    <3>2. QED  BY <1>1, <3>1, SealOpens
  <2>5. BytesOpen("block", bytes)  BY <2>1, <2>2, <2>4 DEF BytesOpen, Opens
  <2>6. CASE /\ pos' = p /\ dmsg' = Sealed(dmsg, "block", Chunk(bytes).plain)
             /\ IF hdr[1] = "Data"
                THEN Release(Chunk(bytes).plain)
                ELSE dpc' = IF hdr[1] = "Padding" THEN "sig" ELSE "InvalidBlockType"
             /\ UNCHANGED <<encryptVars, wireVars, dek>>
    <3>1. dmsg' = d  BY <2>1, <2>2, <2>3, <2>6
    <3>2. CASE hdr[1] = "Data"
      <4>1. dpc' = "block-header" \/ (IoErrors /\ dpc' = "WriteIo")
        BY <2>6, <3>2 DEF Release
      <4>2. CASE dpc' = "block-header"
        BY <1>1, <2>1, <2>4, <2>6, <3>1, <4>2, ReadsTheMessage
      <4>3. QED  BY <4>1, <4>2 DEF Reading, Broken
    <3>3. CASE hdr[1] # "Data"
      <4>1. hdr[1] = "Padding"  BY <1>3, <3>3
      <4>2. dpc' = "sig"  BY <2>6, <3>3, <4>1
      <4>3. m[c + 3][3][1] = "Padding"  BY <1>4, <4>1
      <4>4. QED  BY <1>1, <2>1, <2>4, <2>6, <3>1, <4>2, <4>3, ReadsTheMessage
    <3>4. QED  BY <3>2, <3>3
  <2>7. CASE ~BytesOpen("block", bytes)  BY <2>5, <2>7
  <2>8. QED  BY <1>9, <1>10, <2>6, <2>7 DEF DecryptBlock, n, p
<1>12. QED  BY <1>9, <1>10, <1>11 DEF DecryptBlock, n

\* The padding is behind, so the signature is what is left of the stream.
LEMMA ReadSignatureReads ==
  ASSUME NEW s \in Sessions, Ready(s), dpc = "sig", Opening(s),
         Len(dmsg) <= Len(message[s]), dmsg = SubSeq(message[s], 1, Len(dmsg)),
         ReadSignature
  PROVE  Reading(s)'
<1> DEFINE h == Len(receivers[s])
           k == Len(blocks[s])
           j == Len(out)
           m == message[s]
           c == Len(dmsg) - 3
           n == SIG_LEN
           bytes == NextBytes(n)
           u == sent[s][c + 1]
<1>1. /\ dek = s /\ j \in 0..k /\ c \in Nat /\ Len(dmsg) = c + 3
      /\ ReadUpTo(s, c) /\ c < h + 2 * k + 3 /\ c + 1 = h + 2 * (j + 1) + 1
  BY OpeningAt
<1> HIDE DEF c
<1>2. /\ LaidOut(s) /\ h \in Nat /\ k \in Nat /\ SessionOK(s) /\ WrittenOf(s)
      /\ Base(s) = h + 3 /\ m \in Seq(Op) /\ Len(m) \in Nat /\ dmsg \in Seq(Op)
      /\ Len(sent[s]) \in Nat
  BY ReadyFacts DEF Ready
<1>3. CASE IoErrors /\ Return("ReadIo")  BY <1>3 DEF Return, Reading, Broken
<1>4. ASSUME Closed, dpc' = IF Len(Rest) # n THEN "Panic"
                            ELSE IF Verifies(Rest) THEN "Ok" ELSE "InvalidCiphertext"
      PROVE  Reading(s)'
  <2>1. j = k
    <3>1. m[Base(s) + 2 * (j + 1) - 1][3][1] = "Padding"
      <4>1. m[Len(dmsg) - 1][3][1] = "Padding"  BY DEF Opening
      <4>2. Len(dmsg) - 1 = Base(s) + 2 * (j + 1) - 1
        <5>1. j \in Nat  BY <1>1
        <5> HIDE DEF j, h
        <5>2. QED  BY <1>1, <1>2, <5>1
      <4>3. QED  BY <4>1, <4>2
    <3>2. Base(s) + 2 * (j + 1) - 1 <= Len(m)
      <4>1. j \in Nat /\ Len(dmsg) <= Len(m)  BY <1>1
      <4> HIDE DEF j, h, m
      <4>2. QED  BY <1>1, <1>2, <4>1
    <3>3. History(m, s, Base(s), blocks[s])  BY <1>2 DEF SessionOK
    <3>4. ASSUME j + 1 \in 1..k PROVE FALSE
      <4>1. m[Base(s) + 2 * (j + 1) - 1][3][1] = "Data"
        BY <3>2, <3>3, <3>4 DEF History
      <4>2. QED  BY <3>1, <4>1
    <3> HIDE DEF j, k
    <3>5. QED  BY <1>1, <1>2, <3>4
  <2>2. c + 1 = Len(sent[s]) /\ c + 1 \in 1..Len(sent[s])
    <3>1. Len(sent[s]) = h + 2 * k + 3  BY <1>4, ReadyFacts
    <3> DEFINE l == Len(sent[s])
    <3>2. l = h + 2 * k + 3  BY <3>1
    <3> HIDE DEF h, k, l, j
    <3>3. c + 1 = l /\ c + 1 \in 1..l  BY <1>1, <1>2, <2>1, <3>2
    <3>4. QED  BY <3>3 DEF l
  <2>3. u.label = "signature" /\ u.under = SignedProtocol(m)
    <3>1. Turn(sent[s], h, k, m, k + 1)  BY <1>2 DEF LaidOut, Turns
    <3>2. ~(k + 1 <= k)  BY <1>2
    <3>3. h + 2 * (k + 1) + 1 = c + 1  BY <1>1, <2>1
    <3>4. c + 1 <= Len(sent[s])
      <4> DEFINE l == Len(sent[s])
      <4>1. l \in Nat /\ c + 1 = l  BY <1>2, <2>2
      <4> HIDE DEF l
      <4>2. c + 1 <= l  BY <4>1
      <4>3. QED  BY <4>2 DEF l
    <3> HIDE DEF u
    <3>5. QED  BY <3>1, <3>2, <3>3, <3>4 DEF Turn, u
  <2>4. /\ u.n = n /\ u.plain = <<sender[s], m>> /\ Len(m) = c + 3
    <3>1. SignedIn(u, c + 1, s)  BY <1>2, <2>2 DEF WrittenOf
    <3>2. u.n = n /\ u.plain = <<sender[s], m>> /\ Len(m) = c + 1 + 2
      BY <2>3, <3>1 DEF SignedIn
    <3> HIDE DEF m, u
    <3>3. QED  BY <1>1, <3>2
  <2>5. dmsg = m
    <3>1. dmsg = SubSeq(m, 1, Len(m))  BY <1>1, <2>4
    <3> HIDE DEF m
    <3>2. SubSeq(m, 1, Len(m)) = m  BY <1>2
    <3>3. QED  BY <3>1, <3>2
  <2>6. /\ Avail(n) /\ Intact(bytes) /\ Chunk(bytes) = u
        /\ InOrder(s, pos + n, c + 1)
    <3>1. n \in Nat \ {0}  BY LengthsAssumption
    <3>2. ~Eof(n) /\ (Avail(n) => /\ Intact(bytes) /\ Chunk(bytes) = u
                                  /\ InOrder(s, pos + n, c + 1))
      <4>1. c + 1 <= Len(sent[s]) => u.n = n  BY <2>4
      <4> HIDE DEF n
      <4>2. QED  BY <1>1, <3>1, <4>1, NextOrWait
    <3>3. QED  BY <1>4, <3>2 DEF Eof
  <2>7. pos + n = Len(wire)
    <3> DEFINE p == pos + n
    <3>1. wire[p] = [from |-> s, chunk |-> Len(sent[s]), byte |-> sent[s][Len(sent[s])].n]
      BY <2>2, <2>6 DEF InOrder
    <3>2. p \in 1..Len(wire)
      <4>1. pos \in Nat /\ n \in Nat \ {0} /\ p <= Len(wire) /\ Len(wire) \in Nat
        BY <2>6, LengthsAssumption DEF Ready, TypeOK, DecryptTypeOK, WireTypeOK, Avail
      <4>2. QED  BY <4>1
    <3>3. Len(sent[s]) # 0 /\ sent[s] # << >>  BY <2>2
    <3>4. Follows(sent, wire, s, Len(wire), Len(sent[s]))
      BY <3>3 DEF Ready, Whole, Delivered, InOrder, NextByte, Follows, NextIn
    <3>5. TypeOK /\ Written  BY DEF Ready
    <3> HIDE DEF p
    <3>6. p = Len(wire)  BY <3>1, <3>2, <3>3, <3>4, <3>5, EndThere
    <3>7. QED  BY <3>6 DEF p
  <2>8. Rest = bytes /\ Len(bytes) = n
    <3>1. Rest = bytes  BY <2>7 DEF Rest, NextBytes
    <3>2. Len(bytes) = n  BY <2>6, NextBytesType, LengthsAssumption DEF Ready
    <3>3. QED  BY <3>1, <3>2
  <2>9. Verifies(bytes)
    <3>1. sender[s] = claimed  BY DEF Ready, Addressed
    <3>2. Opens(SignedProtocol(dmsg), "signature", u)  BY <2>3, <2>5 DEF Opens
    <3>3. u.plain = <<claimed, dmsg>>  BY <2>4, <2>5, <3>1
    <3>4. QED  BY <2>6, <3>2, <3>3 DEF Verifies, verify_protocol
  <2>10. dpc' = "Ok"  BY <1>4, <2>8, <2>9
  <2>11. QED  BY <2>10 DEF Reading
<1>5. QED  BY <1>3, <1>4 DEF ReadSignature

LEMMA DecryptReads ==
  ASSUME TypeOK, Lockstep, Written, AllLaidOut, Whole, AllRead, DecryptStep
  PROVE  AllRead'
<1>1. SUFFICES ASSUME NEW s \in Sessions, Alone(s)', epc'[s] = "idle" \/ Addressed(s)'
               PROVE  Reading(s)'
  BY DEF AllRead
<1>2. UNCHANGED <<encryptVars, wireVars, claimed, receiver>>
  BY DEF DecryptStep, DecryptHeader, DecryptBlockHeader, DecryptBlock, ReadSignature, Return
<1>3. Alone(s) /\ (epc[s] = "idle" \/ Addressed(s))
  BY <1>1, <1>2 DEF Alone, Addressed, encryptVars, wireVars
<1>4. Reading(s)  BY <1>3 DEF AllRead
<1>5. dpc \in {"headers", "block-header", "block", "sig"}
  BY DEF DecryptStep, DecryptHeader, DecryptBlockHeader, DecryptBlock, ReadSignature
<1>6. CASE epc[s] = "idle"
  <2>1. Untouched  BY <1>4, <1>5, <1>6 DEF Reading, Broken
  <2>2. DecryptHeader
    BY <2>1 DEF Untouched, DecryptStep, DecryptBlockHeader, DecryptBlock, ReadSignature
  <2>3. ~Avail(ENC_HEADER_LEN)
    <3>1. sent[s] = << >>  BY <1>6 DEF Lockstep, LoopsOK
    <3>2. Len(wire) = 0  BY <1>3, <3>1 DEF Whole
    <3> DEFINE n == ENC_HEADER_LEN
    <3>3. n \in Nat \ {0} /\ pos = 0  BY <2>1, EncLengthsType DEF Untouched
    <3> HIDE DEF n
    <3>4. ~Avail(n)  BY <3>2, <3>3 DEF Avail
    <3>5. QED  BY <3>4 DEF n
  <2>4. ~Closed  BY <1>6 DEF Closed, EncryptEnded
  <2>5. IoErrors /\ Return("ReadIo")  BY <2>2, <2>3, <2>4 DEF DecryptHeader, Eof
  <2>6. QED  BY <2>5 DEF Return, Reading, Broken
<1>7. CASE epc[s] # "idle"
  <2>1. LaidOut(s)  BY <1>3, <1>7 DEF AllLaidOut, Alone
  <2>2. Ready(s)  BY <1>3, <1>7, <2>1 DEF Ready
  <2>3. /\ Len(dmsg) <= Len(message[s]) /\ dmsg = SubSeq(message[s], 1, Len(dmsg))
        /\ \/ dpc = "headers" /\ Looking(s)
           \/ dpc \in {"block-header", "block", "sig"} /\ Opening(s)
    BY <1>4, <1>5, <1>7 DEF Reading, Broken
  <2>4. CASE dpc = "headers"
    <3>1. DecryptHeader
      BY <2>4 DEF DecryptStep, DecryptBlockHeader, DecryptBlock, ReadSignature
    <3>2. QED  BY <2>2, <2>3, <2>4, <3>1, DecryptHeaderReads
  <2>5. CASE dpc = "block-header"
    <3>1. DecryptBlockHeader
      BY <2>5 DEF DecryptStep, DecryptHeader, DecryptBlock, ReadSignature
    <3>2. QED  BY <2>2, <2>3, <2>5, <3>1, DecryptBlockHeaderReads
  <2>6. CASE dpc = "block"
    <3>1. DecryptBlock
      BY <2>6 DEF DecryptStep, DecryptHeader, DecryptBlockHeader, ReadSignature
    <3>2. QED  BY <2>2, <2>3, <2>6, <3>1, DecryptBlockReads
  <2>7. CASE dpc = "sig"
    <3>1. ReadSignature
      BY <2>7 DEF DecryptStep, DecryptHeader, DecryptBlockHeader, DecryptBlock
    <3>2. QED  BY <2>2, <2>3, <2>7, <3>1, ReadSignatureReads
  <2>8. QED  BY <1>5, <2>4, <2>5, <2>6, <2>7
<1>8. QED  BY <1>6, <1>7

\* Before a session starts, nothing was read; it starts with the protocol decrypt has.
LEMMA StartReads ==
  ASSUME TypeOK, NEW s \in Sessions, epc[s] = "idle", Reading(s), Writer(s), Addressed(s)'
  PROVE  Reading(s)'
<1>1. Encrypt(s) /\ UNCHANGED decryptVars
  BY DEF Writer, EncryptStep, WriteHeader, ReadBlock, WriteBlockHeader, WriteBlock,
         WritePaddingHeader, WritePadding, WriteSignature
<1>2. CASE dpc = "Ok" \/ (IoErrors /\ dpc \in Broken)
  BY <1>1, <1>2 DEF Reading, decryptVars
<1>3. CASE Untouched
  <2>1. /\ sender' = sender /\ dmsg' = dmsg /\ dpc' = "headers" /\ pos' = 0 /\ i' = 0
        /\ dek' = NoDek /\ recvCount' = U64_MAX /\ dmsg = Start(claimed)
        /\ claimed' = claimed
    BY <1>1, <1>3 DEF Encrypt, decryptVars, Untouched
  <2>2. sender[s] = claimed /\ receiver' \in Range(receivers'[s])
    BY <2>1 DEF Addressed
  <2> DEFINE start == Start(claimed)
             m2 == message'[s]
  <2>3. PICK shuffled \in Seq(Keys \union {Fake}) :
          /\ receivers' = [receivers EXCEPT ![s] = shuffled]
          /\ message' = [message EXCEPT ![s] =
                           IF shuffled = << >> THEN Keyed(Start(sender[s]), s)
                           ELSE Start(sender[s])]
          /\ epc' = [epc EXCEPT ![s] = IF shuffled = << >> THEN "read" ELSE "headers"]
    BY <1>1, EncryptEffect
  <2>4. /\ receivers'[s] = shuffled /\ epc'[s] # "idle"
        /\ m2 = IF shuffled = << >> THEN Keyed(start, s) ELSE start
    <3>1. DOMAIN receivers = Sessions /\ DOMAIN message = Sessions /\ DOMAIN epc = Sessions
      BY DEF TypeOK, EncryptTypeOK
    <3>2. QED  BY <2>2, <2>3, <3>1
  <2>5. shuffled # << >> /\ Len(shuffled) \in Nat \ {0}
    <3>1. shuffled # << >>  BY <2>2, <2>4 DEF Range
    <3>2. QED  BY <3>1, EmptySeq
  <2>6. m2 = start /\ start \in Seq(Op)
    <3>1. claimed \in Keys  BY DEF TypeOK, DecryptTypeOK
    <3>2. QED  BY <2>4, <2>5, <3>1, StartType
  <2> HIDE DEF start
  <2>7. Len(start) <= Len(m2) /\ start = SubSeq(m2, 1, Len(start))  BY <2>6
  <2>8. Looking(s)'
    <3>1. ReadUpTo(s, i)'  BY <2>1 DEF ReadUpTo
    <3>2. i' < Len(receivers'[s])  BY <2>1, <2>4, <2>5
    <3>3. \A j \in 1..i' : receivers'[s][j] # receiver'  BY <2>1
    <3>4. QED  BY <2>1, <3>1, <3>2, <3>3 DEF Looking
  <2>9. Len(dmsg') <= Len(message'[s]) /\ dmsg' = SubSeq(message'[s], 1, Len(dmsg'))
    BY <2>1, <2>7 DEF start
  <2>10. QED  BY <2>1, <2>4, <2>8, <2>9 DEF Reading
<1>4. QED  BY <1>2, <1>3 DEF Reading

\* What was read stays where it was, while the session writes on.
LEMMA WritesOn ==
  ASSUME TypeOK, Lockstep, Written, NEW s \in Sessions, epc[s] # "idle", Reading(s), Writer(s)
  PROVE  Reading(s)'
<1>1. /\ epc'[s] # "idle" /\ receivers'[s] = receivers[s]
      /\ Extends(message'[s], message[s]) /\ UNCHANGED decryptVars
  BY WriterGrows DEF Lockstep, Writer
<1>2. /\ dpc' = dpc /\ pos' = pos /\ i' = i /\ dek' = dek /\ recvCount' = recvCount
      /\ dmsg' = dmsg /\ receiver' = receiver
  BY <1>1 DEF decryptVars
<1>3. CASE dpc = "Ok" \/ (IoErrors /\ dpc \in Broken)
  BY <1>2, <1>3 DEF Reading
<1>4. CASE ~(dpc = "Ok" \/ (IoErrors /\ dpc \in Broken))
  <2> DEFINE m == message[s]
             m2 == message'[s]
             n == Len(dmsg)
  <2>1. /\ n <= Len(m) /\ dmsg = SubSeq(m, 1, n)
        /\ \/ dpc = "headers" /\ Looking(s)
           \/ dpc \in {"block-header", "block", "sig"} /\ Opening(s)
    BY <1>4 DEF Reading
  <2>2. /\ m \in Seq(Op) /\ m2 \in Seq(Op) /\ Len(m) \in Nat /\ Len(m2) \in Nat
        /\ n \in Nat /\ n >= 2 /\ pos \in Nat /\ pos <= Len(wire) /\ Len(wire) \in Nat
        /\ i \in Nat
    <3>1. TypeOK'  BY WriterType DEF Lockstep
    <3>2. m \in Seq(Op) /\ m2 \in Seq(Op) /\ dmsg \in Seq(Op)
      BY <3>1 DEF TypeOK, EncryptTypeOK, DecryptTypeOK
    <3>3. wire \in Seq(Cell) /\ pos \in 0..Len(wire) /\ i \in Nat
      BY DEF TypeOK, WireTypeOK, DecryptTypeOK
    <3>4. n >= 2  BY DEF Lockstep, HeadersLockstep
    <3>5. Len(wire) \in Nat  BY <3>3
    <3> HIDE DEF m, m2
    <3>6. Len(m) \in Nat /\ Len(m2) \in Nat /\ n \in Nat  BY <3>2
    <3>7. pos \in Nat /\ pos <= Len(wire)  BY <3>3, <3>5
    <3>8. QED  BY <3>2, <3>3, <3>4, <3>5, <3>6, <3>7
  <2>3. Len(m) <= Len(m2) /\ \A q \in 1..Len(m) : m2[q] = m[q]
    BY <1>1 DEF Extends
  <2>4. n <= Len(m2) /\ dmsg = SubSeq(m2, 1, n)
    <3>1. Extends(m2, m)  BY <1>1
    <3> HIDE DEF m, m2, n
    <3>2. n \in 0..Len(m)  BY <2>1, <2>2
    <3>3. SubSeq(m2, 1, n) = SubSeq(m, 1, n)  BY <2>2, <3>1, <3>2, PrefixOfExtension
    <3>4. QED  BY <2>1, <2>2, <2>3, <3>3
  <2>5. ASSUME NEW c, ReadUpTo(s, c)
        PROVE  ReadUpTo(s, c)'
    <3>1. CASE c = 0  BY <1>2, <2>5, <3>1 DEF ReadUpTo
    <3>2. CASE c # 0
      <4>1. c \in 1..Len(sent[s]) /\ Follows(sent, wire, s, pos, c)
        BY <2>5, <3>2 DEF ReadUpTo, InOrder, NextByte, Follows, NextIn
      <4>2. /\ Extends(wire', wire) /\ \A t \in Sessions : Extends(sent'[t], sent[t])
        BY WriterStream DEF Lockstep
      <4>3. Keeps(sent, wire, sent', wire', pos)
        <5>1. \A q \in 1..pos : q \in 1..Len(wire)  BY <2>2
        <5>2. \A q \in 1..pos : wire'[q] = wire[q]  BY <4>2, <5>1 DEF Extends
        <5>3. \A t \in Sessions : \A k \in 1..Len(sent[t]) : sent'[t][k] = sent[t][k]
          BY <4>2 DEF Extends
        <5>4. ASSUME NEW q \in 1..pos, wire[q] # Noise
              PROVE  /\ wire[q].from \in Sessions
                     /\ wire[q].chunk \in 1..Len(sent[wire[q].from])
          <6>1. q \in 1..Len(wire) /\ wire[q] \in Cell
            BY <5>1 DEF TypeOK, WireTypeOK
          <6>2. QED  BY <5>4, <6>1 DEF Written, Came, Cell
        <5>5. QED  BY <5>2, <5>3, <5>4 DEF Keeps
      <4>4. Follows(sent', wire', s, pos, c)  BY <2>2, <4>1, <4>3, FollowsKept
      <4>5. c \in 1..Len(sent'[s])
        <5>1. sent[s] \in Seq(WriteUnit) /\ sent'[s] \in Seq(WriteUnit)
          <6>1. TypeOK'  BY WriterType DEF Lockstep
          <6>2. QED  BY <6>1 DEF TypeOK, WireTypeOK
        <5>2. Len(sent[s]) \in Nat /\ Len(sent'[s]) \in Nat /\ Len(sent[s]) <= Len(sent'[s])
          BY <4>2, <5>1 DEF Extends
        <5>3. QED  BY <4>1, <5>2
      <4>6. QED
        BY <1>2, <3>2, <4>4, <4>5 DEF ReadUpTo, InOrder, NextByte, Follows, NextIn
    <3>3. QED  BY <3>1, <3>2
  <2>6. CASE dpc = "headers" /\ Looking(s)
    <3>1. ReadUpTo(s, i)'
      <4>1. \A c : ReadUpTo(s, c) => ReadUpTo(s, c)'  BY <2>5
      <4>2. ReadUpTo(s, i)  BY <2>6 DEF Looking
      <4>3. \A c : c = i => ReadUpTo(s, c)'  BY <4>1, <4>2
      <4>4. QED  BY <1>2, <4>3 DEF ReadUpTo
    <3>2. Looking(s)'  BY <1>1, <1>2, <2>6, <3>1 DEF Looking
    <3>3. QED  BY <1>1, <1>2, <2>4, <2>6, <3>2 DEF Reading
  <2>7. CASE dpc \in {"block-header", "block", "sig"} /\ Opening(s)
    <3>1. ReadUpTo(s, Len(dmsg) - 3)'
      <4>1. \A c : ReadUpTo(s, c) => ReadUpTo(s, c)'  BY <2>5
      <4>2. ReadUpTo(s, Len(dmsg) - 3)  BY <2>7 DEF Opening
      <4>3. \A c : c = Len(dmsg) - 3 => ReadUpTo(s, c)'  BY <4>1, <4>2
      <4>4. QED  BY <1>2, <4>3 DEF ReadUpTo
    <3>2. m2[n - 1] = m[n - 1]
      <4> HIDE DEF m, m2, n
      <4>1. n - 1 \in 1..Len(m)  BY <2>1, <2>2
      <4>2. QED  BY <2>3, <4>1
    <3>3. Opening(s)'  BY <1>2, <2>7, <3>1, <3>2 DEF Opening
    <3>4. QED  BY <1>1, <1>2, <2>4, <2>7, <3>3 DEF Reading
  <2>8. QED  BY <2>1, <2>6, <2>7
<1>5. QED  BY <1>3, <1>4

LEMMA WriterReads ==
  ASSUME TypeOK, Lockstep, Written, AllRead, NEW w \in Sessions, Writer(w)
  PROVE  AllRead'
<1>1. SUFFICES ASSUME NEW s \in Sessions, Alone(s)', epc'[s] = "idle" \/ Addressed(s)'
               PROVE  Reading(s)'
  BY DEF AllRead
<1>2. UNCHANGED decryptVars /\ LoopsOK /\ EncryptHistories  BY DEF Writer, Lockstep
<1>3. Alone(s)  BY <1>1, <1>2, StillAlone
<1>4. CASE s # w
  <2>1. /\ epc'[s] = epc[s] /\ message'[s] = message[s] /\ receivers'[s] = receivers[s]
    BY <1>4, OtherSessions
  <2>2. UNCHANGED <<sent, wire>>
    <3>1. sent'[w] = << >>  BY <1>1, <1>4 DEF Alone
    <3>2. QED  BY <1>2, <3>1, WriterAppends
  <2>3. sender' = sender
    BY DEF Writer, EncryptStep, Encrypt, WriteHeader, ReadBlock, WriteBlockHeader,
           WriteBlock, WritePaddingHeader, WritePadding, WriteSignature, SealAndWrite
  <2>4. epc[s] = "idle" \/ Addressed(s)
    BY <1>1, <1>2, <2>1, <2>3 DEF Addressed, decryptVars
  <2>5. Reading(s)  BY <1>3, <2>4 DEF AllRead
  <2>6. QED
    BY <1>2, <2>1, <2>2, <2>5 DEF Reading, Untouched, Looking, Opening, ReadUpTo, InOrder,
       NextByte, decryptVars
<1>5. CASE s = w /\ epc[s] = "idle"
  <2>1. Reading(s)  BY <1>3, <1>5 DEF AllRead
  <2>2. epc'[s] # "idle"
    <3>1. Encrypt(s)
      BY <1>5 DEF Writer, EncryptStep, WriteHeader, ReadBlock, WriteBlockHeader, WriteBlock,
         WritePaddingHeader, WritePadding, WriteSignature
    <3>2. DOMAIN epc = Sessions  BY DEF TypeOK, EncryptTypeOK
    <3>3. QED  BY <3>1, <3>2 DEF Encrypt
  <2>3. QED  BY <1>1, <1>5, <2>1, <2>2, StartReads
<1>6. CASE s = w /\ epc[s] # "idle"
  <2>1. /\ epc'[s] # "idle" /\ receivers'[s] = receivers[s] /\ sender' = sender
    BY <1>2, <1>6, WriterGrows
  <2>2. Addressed(s)  BY <1>1, <1>2, <2>1 DEF Addressed, decryptVars
  <2>3. Reading(s)  BY <1>3, <2>2 DEF AllRead
  <2>4. QED  BY <1>6, <2>3, WritesOn
<1>7. QED  BY <1>4, <1>5, <1>6

-----------------------------------------------------------------------------
(* The theorem.                                                            *)

\* The inductive invariant, with those of the other modules.
Undisturbed == AllLaidOut /\ Whole /\ AllRead

LEMMA UndisturbedInit == Init => Undisturbed
<1> SUFFICES ASSUME Init PROVE Undisturbed  OBVIOUS
<1>1. /\ \A s \in Sessions : epc[s] = "idle" /\ sent[s] = << >>
      /\ wire = << >> /\ Untouched
  BY DEF Init, EncryptInit, WireInit, DecryptInit, Untouched
<1>2. AllLaidOut  BY <1>1 DEF AllLaidOut
<1>3. Whole  BY <1>1 DEF Whole
<1>4. AllRead  BY <1>1 DEF AllRead, Reading
<1>5. QED  BY <1>2, <1>3, <1>4 DEF Undisturbed

LEMMA UndisturbedInductive ==
  ASSUME LengthsFit, TypeOK, Lockstep, Tally, Complete, Undisturbed, [Next]_vars
  PROVE  Undisturbed'
<1>1. Written /\ LoopsOK /\ EncryptHistories /\ AllLaidOut /\ Whole /\ AllRead
  BY DEF Complete, Lockstep, Undisturbed
<1>2. ASSUME NEW w \in Sessions, Writer(w)
      PROVE  Undisturbed'
  BY <1>1, <1>2, WriterLaidOut, WriterWhole, WriterReads DEF Undisturbed
<1>3. ASSUME UNCHANGED <<encryptVars, sent>>
      PROVE  AllLaidOut'
  <2>1. /\ epc' = epc /\ message' = message /\ receivers' = receivers /\ blocks' = blocks
        /\ sent' = sent /\ read' = read
    BY <1>3 DEF encryptVars
  <2>2. ASSUME NEW s \in Sessions, LaidOut(s)
        PROVE  LaidOut(s)'
    <3>1. Base(s)' = Base(s)  BY <2>1 DEF Base
    <3>2. QED  BY <2>1, <2>2, <3>1 DEF LaidOut
  <2>3. QED  BY <1>1, <2>1, <2>2 DEF AllLaidOut
<1>4. ASSUME UNCHANGED <<encryptVars, wireVars>>
      PROVE  Whole'
  BY <1>1, <1>4 DEF Whole, Alone, Delivered, InOrder, NextByte, encryptVars, wireVars
<1>5. CASE DecryptStep
  <2>1. UNCHANGED <<encryptVars, wireVars>>
    BY <1>5 DEF DecryptStep, DecryptHeader, DecryptBlockHeader, DecryptBlock, ReadSignature
  <2>2. UNCHANGED <<encryptVars, sent>>  BY <2>1 DEF wireVars
  <2>3. QED  BY <1>1, <1>3, <1>4, <1>5, <2>1, <2>2, DecryptReads DEF Undisturbed
<1>6. CASE Environment
  <2>1. UNCHANGED <<encryptVars, sent>> /\ edits' = edits + 1
    BY <1>6 DEF Environment, Damage
  <2>2. edits' # 0
    <3>1. edits \in Nat  BY DEF TypeOK, WireTypeOK
    <3>2. QED  BY <2>1, <3>1
  <2>3. \A s \in Sessions : ~Alone(s)'  BY <2>2 DEF Alone
  <2>4. QED  BY <1>3, <2>1, <2>3 DEF Undisturbed, Whole, AllRead
<1>7. CASE UNCHANGED vars
  <2>1. UNCHANGED <<encryptVars, wireVars>> /\ UNCHANGED decryptVars
        /\ UNCHANGED <<encryptVars, sent>>
    BY <1>7 DEF vars, wireVars
  <2>2. AllRead'
    BY <1>1, <2>1 DEF AllRead, Alone, Addressed, Reading, Untouched, Looking, Opening,
       ReadUpTo, InOrder, NextByte, encryptVars, wireVars, decryptVars
  <2>3. QED  BY <1>3, <1>4, <2>1, <2>2 DEF Undisturbed
<1>8. QED  BY <1>2, <1>5, <1>6, <1>7 DEF Next

\* A message that arrives as it was written, and alone, is decrypted by each of its
\* receivers, with the key of its sender: decrypt does not end without the
\* plaintext, but for an I/O error.  (encrypt and decrypt of message.rs, whose lengths
\* fit the fields of their headers.)
THEOREM RoundTripCorrect ==
  ASSUME LengthsFit
  PROVE  Spec => []RoundTrip
<1>1. Init => Undisturbed  BY UndisturbedInit
<1>2. TypeOK /\ Lockstep /\ Tally /\ Complete /\ Undisturbed /\ [Next]_vars => Undisturbed'
  BY UndisturbedInductive
<1>3. TypeOK /\ Undisturbed => RoundTrip
  <2>1. SUFFICES ASSUME Undisturbed, NEW s \in Sessions, dpc \in DecryptEnded,
                        epc[s] = "Ok", Addressed(s), edits = 0,
                        \A t \in Sessions \ {s} : sent[t] = << >>
                 PROVE  dpc = "Ok" \/ (IoErrors /\ dpc \in {"ReadIo", "WriteIo"})
    BY DEF RoundTrip
  <2>2. Alone(s)  BY <2>1 DEF Alone, Broken
  <2>3. Reading(s)  BY <2>1, <2>2 DEF Undisturbed, AllRead
  <2>4. dpc \notin {"headers", "block-header", "block", "sig"}
    BY <2>1 DEF DecryptEnded
  <2>5. QED  BY <2>1, <2>3, <2>4 DEF Reading, Untouched, Broken
<1>4. Spec => [](TypeOK /\ Lockstep /\ Tally /\ Complete)  BY CompleteHolds
<1>5. QED  BY <1>1, <1>2, <1>3, <1>4, PTL DEF Spec
=============================================================================
