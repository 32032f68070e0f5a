------------------------- MODULE VeilMessageSafety --------------------------
(***************************************************************************)
(* Theorems about VeilMessage, for any number of sessions, any lengths,    *)
(* any plaintexts and any bounds, in this order.                           *)
(*                                                                         *)
(* TypeOK is an invariant.                                                 *)
(*                                                                         *)
(* What the protocol of each encryption has gone through explains all that *)
(* the encryption wrote: every chunk was sealed under a state its protocol *)
(* has been in.                                                            *)
(*                                                                         *)
(* What an encryption reads and what it counts: its blocks tile the        *)
(* plaintext, and the number it returns is the length of what it wrote.    *)
(*                                                                         *)
(* All this is kept by the encryption alone, whatever is done to the       *)
(* stream.                                                                 *)
(*                                                                         *)
(* What decrypt releases is authentic. The argument is the one the code is *)
(* built on: two protocols agree exactly when their histories do. From the *)
(* first block header that opens, the history of decrypt's protocol is a   *)
(* beginning of the history of one encryption's, because the DEK in it     *)
(* belongs to that one alone; and so each block that opens is the block    *)
(* that encryption sealed at the same place.                               *)
(***************************************************************************)
EXTENDS VeilMessage, SequenceTheorems, TLAPS

-----------------------------------------------------------------------------
(* The operations of a protocol, and what each makes of one.               *)

LEMMA StartType ==
  ASSUME NEW k \in Keys
  PROVE  Start(k) \in Seq(Op)
<1>1. <<"new", "domain", "veil.message">> \in Op  BY DEF Op
<1>2. <<"mix", "sender", k>> \in Op  BY DEF Op
<1>3. QED  BY <1>1, <1>2 DEF Start, New, Mix

LEMMA KeyedType ==
  ASSUME NEW p \in Seq(Op), NEW s \in Sessions
  PROVE  Keyed(p, s) \in Seq(Op)
<1>1. <<"mix", "dek", s>> \in Op  BY DEF Op
<1>2. QED  BY <1>1 DEF Keyed, Mix

LEMMA MixedHeaderType ==
  ASSUME NEW p \in Seq(Op), NEW bytes \in Seq(Cell)
  PROVE  Mix(p, "header", bytes) \in Seq(Op)
<1>1. <<"mix", "header", bytes>> \in Op  BY DEF Op
<1>2. QED  BY <1>1 DEF Mix

LEMMA HeaderProtocolType ==
  ASSUME NEW p \in Seq(Op), NEW k \in Keys, NEW ect \in Seq(Cell)
  PROVE  HeaderProtocol(p, k, ect) \in Seq(Op)
<1>1. <<"mix", "receiver", k>> \in Op  BY DEF Op
<1>2. <<"mix", "ml-kem-768-ect", ect>> \in Op  BY DEF Op
<1>3. <<"mix", "ml-kem-768-ss", <<k, ect>>>> \in Op  BY DEF Op
<1>4. QED  BY <1>1, <1>2, <1>3 DEF HeaderProtocol, Mix

LEMMA SealedType ==
  ASSUME NEW p \in Seq(Op)
  PROVE  /\ \A h \in {"Data", "Padding"} \X Nat : Sealed(p, "block-header", h) \in Seq(Op)
         /\ \A b \in Seq(Byte \union {Noise}) : Sealed(p, "block", b) \in Seq(Op)
<1>1. \A h \in {"Data", "Padding"} \X Nat : <<"seal", "block-header", h>> \in Op
  BY DEF Op
<1>2. \A b \in Seq(Byte \union {Noise}) : <<"seal", "block", b>> \in Op
  BY DEF Op
<1>3. QED  BY <1>1, <1>2 DEF Sealed

LEMMA SignedProtocolType ==
  ASSUME NEW p \in Seq(Op)
  PROVE  SignedProtocol(p) \in Seq(Op)
<1>1. <<"derive", "digest", "output">> \in Op  BY DEF Op
<1>2. QED  BY <1>1 DEF SignedProtocol, Derived

-----------------------------------------------------------------------------
(* The stream.                                                             *)

LEMMA CellsType ==
  ASSUME NEW s \in Sessions, NEW c \in Nat, NEW n \in Nat
  PROVE  /\ Cells(s, c, n) \in Seq(Cell)
         /\ Len(Cells(s, c, n)) = n
BY DEF Cells, Cell

LEMMA RandomType ==
  ASSUME NEW n \in Nat
  PROVE  Random(n) \in Seq(Byte \union {Noise})
BY DEF Random

\* A part of a sequence between two valid positions.
LEMMA SubSeqType ==
  ASSUME NEW S, NEW q \in Seq(S), NEW k \in Int, NEW m \in Int,
         k >= 1, m <= Len(q)
  PROVE  /\ SubSeq(q, k, m) \in Seq(S)
         /\ Len(SubSeq(q, k, m)) = IF k <= m THEN m - k + 1 ELSE 0
BY SubSeqProperties

\* writer.write_all only adds to the stream, whether it succeeds or fails.
LEMMA WriteType ==
  ASSUME TypeOK, NEW s \in Sessions, NEW chunk \in WriteUnit, NEW pc,
         Write(s, chunk, pc)
  PROVE  /\ WireTypeOK'
         /\ edits' = edits
         /\ Len(wire) <= Len(wire')
         /\ sent' = [sent EXCEPT ![s] = Append(@, chunk)]
         /\ \/ epc' = [epc EXCEPT ![s] = pc]
            \/ epc' = [epc EXCEPT ![s] = "WriteIo"]
         /\ written' \in [Sessions -> Nat]
<1> DEFINE c == Len(sent[s]) + 1
           cells == Cells(s, c, chunk.n)
<1>1. chunk.n \in Nat  BY DEF WriteUnit, CiphertextOf
<1>2. /\ sent \in [Sessions -> Seq(WriteUnit)] /\ c \in Nat
      /\ wire \in Seq(Cell) /\ edits \in Nat /\ written \in [Sessions -> Nat]
  BY DEF TypeOK, WireTypeOK, EncryptTypeOK
<1>3. cells \in Seq(Cell) /\ Len(cells) = chunk.n  BY <1>1, <1>2, CellsType
<1>4. CASE /\ WriteAll(s, chunk)
           /\ written' = [written EXCEPT ![s] = @ + chunk.n]
           /\ epc' = [epc EXCEPT ![s] = pc]
  <2>1. wire' = wire \o cells  BY <1>4 DEF WriteAll
  <2>2. wire' \in Seq(Cell) /\ Len(wire) <= Len(wire')
    BY <1>1, <1>2, <1>3, <2>1, ConcatProperties
  <2>3. sent' \in [Sessions -> Seq(WriteUnit)]  BY <1>2, <1>4 DEF WriteAll
  <2>4. QED  BY <1>1, <1>2, <1>4, <2>2, <2>3 DEF WriteAll, WireTypeOK
<1>5. CASE /\ WriteFails(s, chunk)
           /\ epc' = [epc EXCEPT ![s] = "WriteIo"]
           /\ UNCHANGED written
  <2>1. PICK k \in 0..(chunk.n - 1) : wire' = wire \o SubSeq(cells, 1, k)
    BY <1>5 DEF WriteFails
  <2>2. SubSeq(cells, 1, k) \in Seq(Cell) /\ Len(SubSeq(cells, 1, k)) \in Nat
    BY <1>1, <1>3, SubSeqType
  <2>3. wire' \in Seq(Cell) /\ Len(wire) <= Len(wire')
    BY <1>2, <2>1, <2>2, ConcatProperties
  <2>4. sent' \in [Sessions -> Seq(WriteUnit)]  BY <1>2, <1>5 DEF WriteFails
  <2>5. QED  BY <1>2, <1>5, <2>3, <2>4 DEF WriteFails, WireTypeOK
<1>6. QED  BY <1>4, <1>5 DEF Write

\* Damage past position p keeps what is before it, and makes the rest of parts of
\* the stream and of noise: whatever set its bytes are in, they stay in it.
LEMMA DamageParts ==
  ASSUME TypeOK, NEW p \in 0..Len(wire), Damage(p), NEW S, wire \in Seq(S), Noise \in S
  PROVE  /\ wire' \in Seq(S)
         /\ p <= Len(wire')
         /\ \A q \in 1..p : wire'[q] = wire[q]
<1> DEFINE Part(k, m) == SubSeq(wire, k, m)
           Kept(w) == p <= Len(w) /\ \A q \in 1..p : w[q] = wire[q]
<1>1. /\ sent \in [Sessions -> Seq(WriteUnit)] /\ wire \in Seq(Cell)
      /\ Len(wire) \in Nat /\ p \in Nat /\ p <= Len(wire)
  BY DEF TypeOK, WireTypeOK
<1>2. Reach \in Nat  BY LengthsAssumption
<1>3. ASSUME NEW q \in Near(p)
      PROVE  q \in 1..Len(wire) /\ p < q
  BY <1>1, <1>2, <1>3 DEF Near
<1>4. ASSUME NEW x \in Spans
      PROVE  /\ x[1] \in 1..Len(wire)
             /\ x[2] \in Int /\ x[2] <= Len(wire)
             /\ x[1] <= x[2] + 1
  <2>1. PICK q \in ChunkBytes : x = SpanAt(q)  BY DEF Spans
  <2>2. q \in 1..Len(wire) /\ wire[q] \in Cell /\ wire[q] # Noise
    BY <1>1, <2>1 DEF ChunkBytes
  <2>3. wire[q].from \in Sessions  BY <2>2 DEF Cell
  <2>4. sent[wire[q].from][wire[q].chunk] \in WriteUnit
    BY <1>1, <2>1, <2>3 DEF ChunkBytes
  <2>5. sent[wire[q].from][wire[q].chunk].n \in Nat
    BY <2>4 DEF WriteUnit, CiphertextOf
  <2> DEFINE n == sent[wire[q].from][wire[q].chunk].n
  <2>6. n \in Nat /\ x = <<q, q - 1 + n>>  BY <2>1, <2>5 DEF SpanAt
  <2>7. x[2] <= Len(wire)  BY DEF Spans
  <2> HIDE DEF n
  <2>8. x[1] = q /\ x[2] = q - 1 + n  BY <2>6
  <2>9. QED  BY <2>2, <2>6, <2>7, <2>8

\* Parts of the stream, and how two of them are joined.
<1>5. ASSUME NEW k \in Int, NEW m \in Int, k >= 1, m <= Len(wire)
      PROVE  Part(k, m) \in Seq(S)
  BY <1>1, <1>5, SubSeqType
<1>6. ASSUME NEW m \in Int, p <= m, m <= Len(wire)
      PROVE  Part(1, m) \in Seq(S) /\ Kept(Part(1, m))
  <2>1. \A q \in 1..m : wire[q] \in S  BY <1>1, <1>6
  <2>2. /\ SubSeq(wire, 1, m) \in Seq(S) /\ Len(SubSeq(wire, 1, m)) = m
        /\ \A q \in 1..m : SubSeq(wire, 1, m)[q] = wire[q]
    BY <1>1, <1>6, <2>1, SubSeqProperties
  <2>3. QED  BY <1>1, <1>6, <2>2
<1>7. ASSUME NEW u \in Seq(S), NEW v \in Seq(S), Kept(u)
      PROVE  u \o v \in Seq(S) /\ Kept(u \o v)
  <2>1. /\ u \o v \in Seq(S) /\ Len(u \o v) = Len(u) + Len(v)
        /\ \A q \in 1..Len(u) : (u \o v)[q] = u[q]
    BY ConcatProperties
  <2>2. QED  BY <1>1, <1>7, <2>1
<1> HIDE DEF Part
<1>8. CASE wire' \in Flipped(p)
  <2>1. PICK q \in Near(p) : wire' = [wire EXCEPT ![q] = Noise]
    BY <1>8 DEF Flipped
  <2>2. wire' \in Seq(S) /\ Len(wire') = Len(wire)
    BY <1>1, <1>3, <2>1, ExceptSeq
  <2>3. QED  BY <1>1, <1>3, <2>1, <2>2
<1>9. CASE wire' \in Shortened(p)
  <2>1. PICK q \in Near(p) : \/ wire' = Part(1, q - 1) \o Part(q + 1, Len(wire))
                             \/ wire' = Part(1, q - 1)
    BY <1>9 DEF Shortened, Part
  <2>2. Part(1, q - 1) \in Seq(S) /\ Kept(Part(1, q - 1))  BY <1>1, <1>3, <1>6
  <2>3. Part(q + 1, Len(wire)) \in Seq(S)  BY <1>1, <1>3, <1>5
  <2> HIDE DEF Kept
  <2>4. wire' \in Seq(S) /\ Kept(wire')  BY <1>7, <2>1, <2>2, <2>3
  <2>5. QED  BY <2>4 DEF Kept
<1>10. CASE wire' \in Repeated(p)
  <2>1. PICK x \in Spans :
          wire' = Part(1, p) \o Part(x[1], x[2]) \o Part(p + 1, Len(wire))
    BY <1>10 DEF Repeated, Part
  <2>2. Part(1, p) \in Seq(S) /\ Kept(Part(1, p))  BY <1>1, <1>6
  <2>3. Part(x[1], x[2]) \in Seq(S) /\ Part(p + 1, Len(wire)) \in Seq(S)
    <3>1. x[1] \in Int /\ x[2] \in Int /\ x[1] >= 1 /\ x[2] <= Len(wire)  BY <1>4
    <3>2. p + 1 \in Int /\ Len(wire) \in Int /\ p + 1 >= 1 /\ Len(wire) <= Len(wire)
      BY <1>1
    <3>3. Part(x[1], x[2]) \in Seq(S)  BY <1>5, <3>1
    <3>4. Part(p + 1, Len(wire)) \in Seq(S)  BY <1>5, <3>2
    <3>5. QED  BY <3>3, <3>4
  <2> DEFINE w2 == Part(1, p) \o Part(x[1], x[2])
  <2> HIDE DEF Kept
  <2>4. w2 \in Seq(S) /\ Kept(w2)  BY <1>7, <2>2, <2>3
  <2>5. wire' = w2 \o Part(p + 1, Len(wire))  BY <2>1
  <2> HIDE DEF w2
  <2>6. wire' \in Seq(S) /\ Kept(wire')  BY <1>7, <2>3, <2>4, <2>5
  <2>7. QED  BY <2>6 DEF Kept
<1>11. CASE wire' \in Swapped(p)
  <2>1. PICK x \in Spans, y \in Spans :
          x[1] = p + 1 /\ x[2] < y[1] /\ wire' = SwapOf(x, y)
    BY <1>11 DEF Swapped
  <2>2. Part(1, x[1] - 1) \in Seq(S) /\ Kept(Part(1, x[1] - 1))
    BY <1>1, <1>6, <2>1
  <2>3. Part(x[2] + 1, y[1] - 1) \in Seq(S)
    <3>1. /\ x[1] \in 1..Len(wire) /\ x[2] \in Int /\ x[1] <= x[2] + 1
          /\ y[1] \in 1..Len(wire)
      BY <1>4
    <3>2. /\ x[2] + 1 \in Int /\ y[1] - 1 \in Int
          /\ x[2] + 1 >= 1 /\ y[1] - 1 <= Len(wire)
      BY <1>1, <3>1
    <3>3. QED  BY <1>5, <3>2
  <2>4. /\ Part(y[1], y[2]) \in Seq(S) /\ Part(x[1], x[2]) \in Seq(S)
        /\ Part(y[2] + 1, Len(wire)) \in Seq(S)
    <3>1. ASSUME NEW z \in Spans
          PROVE  /\ z[1] \in Int /\ z[2] \in Int /\ z[1] >= 1 /\ z[2] <= Len(wire)
                 /\ z[2] + 1 \in Int /\ z[2] + 1 >= 1
      BY <1>1, <1>4
    <3>2. Part(y[1], y[2]) \in Seq(S) /\ Part(x[1], x[2]) \in Seq(S)  BY <1>5, <3>1
    <3>3. Part(y[2] + 1, Len(wire)) \in Seq(S)
      <4>1. y[2] + 1 \in Int /\ y[2] + 1 >= 1 /\ Len(wire) \in Int  BY <1>1, <3>1
      <4>2. QED  BY <1>5, <4>1
    <3>4. QED  BY <3>2, <3>3
  <2> DEFINE w2 == Part(1, x[1] - 1) \o Part(y[1], y[2])
             w3 == w2 \o Part(x[2] + 1, y[1] - 1)
             w4 == w3 \o Part(x[1], x[2])
  <2>5. wire' = w4 \o Part(y[2] + 1, Len(wire))  BY <2>1 DEF SwapOf, Part
  <2> HIDE DEF Kept
  <2>6. w2 \in Seq(S) /\ Kept(w2)  BY <1>7, <2>2, <2>4
  <2> HIDE DEF w2
  <2>7. w3 \in Seq(S) /\ Kept(w3)  BY <1>7, <2>3, <2>6
  <2> HIDE DEF w3
  <2>8. w4 \in Seq(S) /\ Kept(w4)  BY <1>7, <2>4, <2>7
  <2> HIDE DEF w4
  <2>9. wire' \in Seq(S) /\ Kept(wire')  BY <1>7, <2>4, <2>5, <2>8
  <2>10. QED  BY <2>9 DEF Kept
<1>12. CASE wire' \in Lengthened
  <2>1. wire' = Append(wire, Noise)  BY <1>12 DEF Lengthened
  <2>2. QED  BY <1>1, <2>1, AppendProperties
<1>13. QED  BY <1>8, <1>9, <1>10, <1>11, <1>12 DEF Damage

LEMMA DamageType ==
  ASSUME TypeOK, NEW p \in 0..Len(wire), Damage(p)
  PROVE  /\ WireTypeOK'
         /\ edits' <= MaxEdits
         /\ sent' = sent
         /\ p <= Len(wire')
<1>1. sent \in [Sessions -> Seq(WriteUnit)] /\ wire \in Seq(Cell) /\ edits \in Nat
  BY DEF TypeOK, WireTypeOK
<1>2. MaxEdits \in Nat  BY LengthsAssumption
<1>3. Noise \in Cell  BY DEF Cell
<1>4. wire' \in Seq(Cell) /\ p <= Len(wire')  BY <1>1, <1>3, DamageParts
<1>5. sent' = sent /\ edits' = edits + 1 /\ edits < MaxEdits  BY DEF Damage
<1>6. QED  BY <1>1, <1>2, <1>4, <1>5 DEF WireTypeOK

-----------------------------------------------------------------------------
(* The initial states.                                                     *)

LEMMA InitType == Init => TypeOK
<1> SUFFICES ASSUME Init PROVE TypeOK
  OBVIOUS
<1> USE DEF Init, EncryptInit, WireInit, DecryptInit
<1>1. \A s \in Sessions : /\ plain[s] \in Plaintexts[s]
                           /\ plain[s] \in Seq(Byte)
  BY PlaintextsAssumption
<1>2. plain \in [Sessions -> Seq(Byte)]  BY <1>1
<1>3. EncryptTypeOK  BY <1>2, EmptySeq DEF EncryptTypeOK, EncryptEnded
<1>4. WireTypeOK  BY EmptySeq DEF WireTypeOK
<1>5. DecryptTypeOK
  BY StartType, EmptySeq, DecryptAssumption DEF DecryptTypeOK, DecryptEnded
<1>6. \A s \in Sessions : read[s] <= Len(plain[s])  BY <1>1
<1>7. edits <= MaxEdits  BY LengthsAssumption
<1>8. QED  BY <1>1, <1>3, <1>4, <1>5, <1>6, <1>7 DEF TypeOK

-----------------------------------------------------------------------------
(* The steps of an encryption.                                             *)

LEMMA EncryptFrame ==
  ASSUME TypeOK, EncryptTypeOK', WireTypeOK', Len(wire) <= Len(wire'), edits' = edits,
         UNCHANGED decryptVars, plain' = plain,
         \A s \in Sessions : read'[s] <= Len(plain[s])
  PROVE  TypeOK'
<1>1. pos \in 0..Len(wire) /\ Len(wire) \in Nat /\ Len(wire') \in Nat
  BY DEF TypeOK, DecryptTypeOK, WireTypeOK
<1>2. pos \in 0..Len(wire')  BY <1>1
<1>3. DecryptTypeOK'  BY <1>2 DEF TypeOK, DecryptTypeOK, decryptVars
<1>4. QED  BY <1>3 DEF TypeOK, decryptVars

\* A step that writes: its chunk has a type, and so has the protocol after it.
LEMMA WriteStepType ==
  ASSUME TypeOK, NEW s \in Sessions, NEW chunk \in WriteUnit, NEW protocol \in Seq(Op),
         NEW pc \in EncryptEnded \union
            {"headers", "read", "block", "padding-header", "padding", "sign"},
         Write(s, chunk, pc), message' = [message EXCEPT ![s] = protocol],
         UNCHANGED <<sender, receivers, plain, read, blocks>>, UNCHANGED decryptVars
  PROVE  TypeOK'
<1>1. /\ WireTypeOK'
      /\ edits' = edits
      /\ Len(wire) <= Len(wire')
      /\ \/ epc' = [epc EXCEPT ![s] = pc]
         \/ epc' = [epc EXCEPT ![s] = "WriteIo"]
      /\ written' \in [Sessions -> Nat]
  BY WriteType
<1>2. EncryptTypeOK'  BY <1>1 DEF TypeOK, EncryptTypeOK, EncryptEnded
<1>3. \A t \in Sessions : read'[t] <= Len(plain[t])  BY DEF TypeOK
<1>4. QED  BY <1>1, <1>2, <1>3, EncryptFrame

LEMMA SealAndWriteType ==
  ASSUME TypeOK, NEW s \in Sessions, NEW label, NEW plaintext, NEW len \in Nat,
         NEW pc \in {"read", "block", "padding-header", "padding", "sign"},
         \/ label = "block-header" /\ plaintext \in {"Data", "Padding"} \X Nat
         \/ label = "block" /\ plaintext \in Seq(Byte \union {Noise}),
         SealAndWrite(s, label, plaintext, len, pc), UNCHANGED decryptVars
  PROVE  TypeOK'
<1> DEFINE chunk == Ciphertext(message[s], label, plaintext, len + TAG_LEN)
<1>1. message[s] \in Seq(Op)  BY DEF TypeOK, EncryptTypeOK
<1>2. chunk \in WriteUnit
  BY <1>1, LengthsAssumption DEF Ciphertext, WriteUnit, CiphertextOf
<1>3. Sealed(message[s], label, plaintext) \in Seq(Op)  BY <1>1, SealedType
<1>4. /\ Write(s, chunk, pc)
      /\ message' = [message EXCEPT ![s] = Sealed(message[s], label, plaintext)]
      /\ UNCHANGED <<sender, receivers, plain, read, blocks>>
  BY DEF SealAndWrite
<1>5. QED  BY <1>2, <1>3, <1>4, WriteStepType

\* What Encrypt assigns, for some list in which receivers and fakes are shuffled.
LEMMA EncryptEffect ==
  ASSUME TypeOK, NEW s \in Sessions, Encrypt(s)
  PROVE  \E shuffled \in Seq(Keys \union {Fake}) :
           /\ receivers' = [receivers EXCEPT ![s] = shuffled]
           /\ message' = [message EXCEPT ![s] =
                            IF shuffled = << >> THEN Keyed(Start(sender[s]), s)
                            ELSE Start(sender[s])]
           /\ epc' = [epc EXCEPT ![s] = IF shuffled = << >> THEN "read" ELSE "headers"]
<1> DEFINE Effect(shuffled) ==
           /\ receivers' = [receivers EXCEPT ![s] = shuffled]
           /\ message' = [message EXCEPT ![s] =
                            IF shuffled = << >> THEN Keyed(Start(sender[s]), s)
                            ELSE Start(sender[s])]
           /\ epc' = [epc EXCEPT ![s] = IF shuffled = << >> THEN "read" ELSE "headers"]
<1>1. PICK list \in ReceiverLists, fakes \in Fakes :
        \E shuffled \in Shuffled(list \o [k \in 1..fakes |-> Fake]) : Effect(shuffled)
  BY DEF Encrypt
<1> DEFINE all == list \o [k \in 1..fakes |-> Fake]
<1>2. list \in Seq(Keys \union {Fake})  BY KeysAssumption, SeqMonotonic
<1>3. fakes \in Nat  BY KeysAssumption
<1>4. [k \in 1..fakes |-> Fake] \in Seq(Keys \union {Fake})  BY <1>3
<1>5. all \in Seq(Keys \union {Fake})  BY <1>2, <1>4, ConcatProperties
<1> HIDE DEF all, Effect
<1>6. PICK shuffled \in Shuffled(all) : Effect(shuffled)  BY <1>1 DEF all
<1>7. shuffled \in Seq(Keys \union {Fake})  BY <1>5 DEF Shuffled
<1>8. QED  BY <1>6, <1>7 DEF Effect

LEMMA EncryptType ==
  ASSUME TypeOK, NEW s \in Sessions, Encrypt(s), UNCHANGED decryptVars
  PROVE  TypeOK'
<1>1. PICK shuffled \in Seq(Keys \union {Fake}) :
          /\ receivers' = [receivers EXCEPT ![s] = shuffled]
          /\ message' = [message EXCEPT ![s] =
                           IF shuffled = << >> THEN Keyed(Start(sender[s]), s)
                           ELSE Start(sender[s])]
          /\ epc' = [epc EXCEPT ![s] = IF shuffled = << >> THEN "read" ELSE "headers"]
  BY EncryptEffect
<1>2. Start(sender[s]) \in Seq(Op) /\ Keyed(Start(sender[s]), s) \in Seq(Op)
  BY StartType, KeyedType DEF TypeOK, EncryptTypeOK
<1>3. /\ UNCHANGED <<sender, plain, read, blocks, written>>
      /\ UNCHANGED wireVars
  BY DEF Encrypt
<1>4. EncryptTypeOK'
  BY <1>1, <1>2, <1>3 DEF TypeOK, EncryptTypeOK, EncryptEnded
<1>5. WireTypeOK' /\ Len(wire) <= Len(wire') /\ edits' = edits
  BY <1>3 DEF TypeOK, WireTypeOK, wireVars
<1>6. \A t \in Sessions : read'[t] <= Len(plain[t])  BY <1>3 DEF TypeOK
<1>7. QED  BY <1>3, <1>4, <1>5, <1>6, EncryptFrame

LEMMA EncLengthsType ==
  /\ ENC_HEADER_LEN \in Nat \ {0} /\ ENC_BLOCK_HEADER_LEN \in Nat \ {0}
  /\ 1 <= ENC_CT_LEN /\ ENC_CT_LEN <= ENC_HEADER_LEN
BY LengthsAssumption DEF ENC_HEADER_LEN, ENC_BLOCK_HEADER_LEN

\* What a round of the loop over the receivers writes and mixes in.
LEMMA WriteHeaderEffect ==
  ASSUME TypeOK, NEW s \in Sessions, WriteHeader(s), Len(sent[s]) < Len(receivers[s])
  PROVE  LET k     == Len(sent[s]) + 1
             mixed == Mix(message[s], "header", Cells(s, k, ENC_HEADER_LEN))
             next  == IF k = Len(receivers[s]) THEN Keyed(mixed, s) ELSE mixed
         IN  \E chunk \in WriteUnit :
               /\ Write(s, chunk, IF k = Len(receivers[s]) THEN "read" ELSE "headers")
               /\ chunk.label \in {"random", "header"} /\ chunk.n = ENC_HEADER_LEN
               /\ message' = [message EXCEPT ![s] = next] /\ next \in Seq(Op)
               /\ UNCHANGED <<sender, receivers, plain, read, blocks>>
<1> DEFINE k     == Len(sent[s]) + 1
           bytes == Cells(s, k, ENC_HEADER_LEN)
           mixed == Mix(message[s], "header", bytes)
           next  == IF k = Len(receivers[s]) THEN Keyed(mixed, s) ELSE mixed
           chunk == EncHeader(s, receivers[s][k], bytes)
<1>1. /\ message[s] \in Seq(Op) /\ receivers[s] \in Seq(Keys \union {Fake})
      /\ sent[s] \in Seq(WriteUnit)
  BY DEF TypeOK, EncryptTypeOK, WireTypeOK
<1>2. k \in 1..Len(receivers[s])  BY <1>1
<1>3. bytes \in Seq(Cell) /\ Len(bytes) = ENC_HEADER_LEN
  BY <1>2, CellsType, EncLengthsType
<1>4. receivers[s][k] \in Keys \union {Fake}  BY <1>1, <1>2
<1>5. next \in Seq(Op)  BY <1>1, <1>3, MixedHeaderType, KeyedType
<1>6. chunk \in WriteUnit /\ chunk.label \in {"random", "header"} /\ chunk.n = ENC_HEADER_LEN
  <2>1. CASE receivers[s][k] = Fake
    BY <2>1, EncLengthsType, EmptySeq
       DEF EncHeader, Ciphertext, WriteUnit, CiphertextOf
  <2>2. CASE receivers[s][k] # Fake
    <3>1. SubSeq(bytes, 1, ENC_CT_LEN) \in Seq(Cell)
      BY <1>3, EncLengthsType, LengthsAssumption, SubSeqType
    <3>2. HeaderProtocol(message[s], receivers[s][k], SubSeq(bytes, 1, ENC_CT_LEN))
            \in Seq(Op)
      BY <1>1, <1>4, <2>2, <3>1, HeaderProtocolType
    <3>3. <<s, Len(receivers[s])>> \in Sessions \X Nat  BY <1>1
    <3> HIDE DEF bytes
    <3>4. QED  BY <2>2, <3>2, <3>3, EncLengthsType
               DEF EncHeader, Ciphertext, WriteUnit, CiphertextOf
  <2>3. QED  BY <2>1, <2>2
<1>7. /\ Write(s, chunk, IF k = Len(receivers[s]) THEN "read" ELSE "headers")
      /\ message' = [message EXCEPT ![s] = next]
      /\ UNCHANGED <<sender, receivers, plain, read, blocks>>
  BY DEF WriteHeader
<1> HIDE DEF next, chunk
<1>8. QED  BY <1>5, <1>6, <1>7 DEF next

LEMMA WriteHeaderType ==
  ASSUME TypeOK, NEW s \in Sessions, WriteHeader(s), UNCHANGED decryptVars,
         Len(sent[s]) < Len(receivers[s])
  PROVE  TypeOK'
<1> DEFINE k     == Len(sent[s]) + 1
           mixed == Mix(message[s], "header", Cells(s, k, ENC_HEADER_LEN))
           next  == IF k = Len(receivers[s]) THEN Keyed(mixed, s) ELSE mixed
           pc    == IF k = Len(receivers[s]) THEN "read" ELSE "headers"
<1>1. PICK chunk \in WriteUnit :
        /\ Write(s, chunk, pc)
        /\ message' = [message EXCEPT ![s] = next] /\ next \in Seq(Op)
        /\ UNCHANGED <<sender, receivers, plain, read, blocks>>
  BY WriteHeaderEffect
<1>2. pc \in {"read", "headers"}  OBVIOUS
<1> HIDE DEF next, pc
<1>3. QED  BY <1>1, <1>2, WriteStepType

\* What ReadBlock assigns: the next block, which is not empty, or none.
LEMMA ReadBlockEffect ==
  ASSUME TypeOK, NEW s \in Sessions, ReadBlock(s)
  PROVE  /\ read' \in [Sessions -> Nat]
         /\ \A t \in Sessions : read'[t] <= Len(plain[t])
         /\ \/ /\ epc' = [epc EXCEPT ![s] = "padding-header"]
               /\ UNCHANGED blocks
            \/ /\ epc' = [epc EXCEPT ![s] = "block-header"]
               /\ \E block \in Seq(Byte) :
                    blocks' = [blocks EXCEPT ![s] = Append(blocks[s], block)]
            \/ /\ epc' = [epc EXCEPT ![s] = "ReadIo"]
               /\ UNCHANGED blocks
<1>1. /\ plain[s] \in Seq(Byte) /\ read[s] \in Nat /\ read[s] <= Len(plain[s])
      /\ BLOCK_LEN \in Nat \ {0}
  BY LengthsAssumption DEF TypeOK, EncryptTypeOK
<1> DEFINE rest  == Len(plain[s]) - read[s]
           n     == Taken(rest)
           block == SubSeq(plain[s], read[s] + 1, read[s] + n)
<1>2. n \in Nat /\ read[s] + n <= Len(plain[s])  BY <1>1 DEF Taken
<1>3. block \in Seq(Byte)  BY <1>1, <1>2, SubSeqType
<1>4. \/ /\ read' = [read EXCEPT ![s] = read[s] + n]
         /\ \/ /\ epc' = [epc EXCEPT ![s] = "padding-header"] /\ UNCHANGED blocks
            \/ /\ epc' = [epc EXCEPT ![s] = "block-header"]
               /\ blocks' = [blocks EXCEPT ![s] = Append(blocks[s], block)]
      \/ epc' = [epc EXCEPT ![s] = "ReadIo"] /\ UNCHANGED <<read, blocks>>
  BY DEF ReadBlock
<1> HIDE DEF n, block
<1>5. read' \in [Sessions -> Nat] /\ \A t \in Sessions : read'[t] <= Len(plain[t])
  <2>1. read \in [Sessions -> Nat] /\ \A t \in Sessions : read[t] <= Len(plain[t])
    BY DEF TypeOK, EncryptTypeOK
  <2>2. CASE read' = [read EXCEPT ![s] = read[s] + n]
    <3>1. read[s] + n \in Nat  BY <1>1, <1>2
    <3>2. QED  BY <1>2, <2>1, <2>2, <3>1
  <2>3. CASE UNCHANGED read  BY <2>1, <2>3
  <2>4. QED  BY <1>4, <2>2, <2>3
<1>6. QED  BY <1>3, <1>4, <1>5

LEMMA ReadBlockType ==
  ASSUME TypeOK, NEW s \in Sessions, ReadBlock(s), UNCHANGED decryptVars
  PROVE  TypeOK'
<1>1. UNCHANGED <<sender, receivers, plain, message, written>> /\ UNCHANGED wireVars
  BY DEF ReadBlock
<1>2. /\ read' \in [Sessions -> Nat]
      /\ \A t \in Sessions : read'[t] <= Len(plain[t])
  BY ReadBlockEffect
<1>3. blocks' \in [Sessions -> Seq(Seq(Byte))]
  <2>1. blocks \in [Sessions -> Seq(Seq(Byte))]  BY DEF TypeOK, EncryptTypeOK
  <2>2. \A block \in Seq(Byte) : Append(blocks[s], block) \in Seq(Seq(Byte))
    BY <2>1, AppendProperties
  <2>3. \/ UNCHANGED blocks
        \/ \E block \in Seq(Byte) :
             blocks' = [blocks EXCEPT ![s] = Append(blocks[s], block)]
    BY ReadBlockEffect
  <2>4. QED  BY <2>1, <2>2, <2>3
<1>4. \E pc \in {"padding-header", "block-header", "ReadIo"} :
        epc' = [epc EXCEPT ![s] = pc]
  BY ReadBlockEffect
<1>5. EncryptTypeOK'
  BY <1>1, <1>2, <1>3, <1>4 DEF TypeOK, EncryptTypeOK, EncryptEnded
<1>6. WireTypeOK' /\ Len(wire) <= Len(wire') /\ edits' = edits
  BY <1>1 DEF TypeOK, WireTypeOK, wireVars
<1>7. QED  BY <1>1, <1>2, <1>5, <1>6, EncryptFrame

LEMMA WriteBlocksType ==
  ASSUME TypeOK, NEW s \in Sessions, UNCHANGED decryptVars,
         \/ WriteBlockHeader(s) /\ blocks[s] # << >>
         \/ WriteBlock(s) /\ blocks[s] # << >>
         \/ WritePaddingHeader(s)
         \/ WritePadding(s)
  PROVE  TypeOK'
<1> DEFINE block == Last(blocks[s])
           padding == PaddingLen[read[s]]
<1>1. /\ LEN_LIMIT \in Nat \ {0} /\ BLOCK_HEADER_LEN \in Nat /\ BLOCK_LEN \in Nat
  BY LengthsAssumption
<1>2. \A type \in {"Data", "Padding"}, len \in Nat :
        BlockHeader(type, len) \in {"Data", "Padding"} \X Nat
  BY <1>1 DEF BlockHeader
<1>3. ASSUME blocks[s] # << >>
      PROVE  block \in Seq(Byte) /\ block \in Seq(Byte \union {Noise})
  <2>1. blocks[s] \in Seq(Seq(Byte))  BY DEF TypeOK, EncryptTypeOK
  <2>2. block \in Seq(Byte)  BY <1>3, <2>1, EmptySeq DEF Last
  <2>3. QED  BY <2>2, SeqMonotonic
<1>4. padding \in Nat /\ Random(padding) \in Seq(Byte \union {Noise})
  <2>1. /\ read[s] \in Nat /\ read[s] <= Len(plain[s])
        /\ plain[s] \in Seq(Byte) /\ Len(plain[s]) <= MAX_PLAINTEXT
    BY PlaintextsAssumption DEF TypeOK, EncryptTypeOK
  <2>2. read[s] \in 0..MAX_PLAINTEXT  BY <2>1, LengthsAssumption
  <2>3. QED  BY <2>2, PlaintextsAssumption, RandomType
<1>5. CASE WriteBlockHeader(s) /\ blocks[s] # << >>
  <2>1. Len(block) \in Nat  BY <1>3, <1>5
  <2>2. BlockHeader("Data", Len(block)) \in {"Data", "Padding"} \X Nat
    BY <1>2, <2>1
  <2>3. QED  BY <1>1, <1>5, <2>2, SealAndWriteType DEF WriteBlockHeader
<1>6. CASE WriteBlock(s) /\ blocks[s] # << >>
  <2>1. block \in Seq(Byte \union {Noise}) /\ Len(block) \in Nat  BY <1>3, <1>6
  <2>2. SealAndWrite(s, "block", block, Len(block),
                     IF Len(block) < BLOCK_LEN THEN "padding-header" ELSE "read")
    BY <1>6 DEF WriteBlock
  <2>3. QED  BY <2>1, <2>2, SealAndWriteType
<1>7. CASE WritePaddingHeader(s)
  <2>1. BlockHeader("Padding", padding) \in {"Data", "Padding"} \X Nat
    BY <1>2, <1>4
  <2>2. QED  BY <1>1, <1>7, <2>1, SealAndWriteType DEF WritePaddingHeader
<1>8. CASE WritePadding(s)
  BY <1>4, <1>8, SealAndWriteType DEF WritePadding
<1>9. QED  BY <1>5, <1>6, <1>7, <1>8

LEMMA WriteSignatureType ==
  ASSUME TypeOK, NEW s \in Sessions, WriteSignature(s), UNCHANGED decryptVars
  PROVE  TypeOK'
<1> DEFINE chunk == Ciphertext(SignedProtocol(message[s]), "signature",
                               <<sender[s], message[s]>>, SIG_LEN)
<1>1. message[s] \in Seq(Op) /\ sender[s] \in Keys /\ message \in [Sessions -> Seq(Op)]
  BY DEF TypeOK, EncryptTypeOK
<1>2. chunk \in WriteUnit
  BY <1>1, SignedProtocolType, LengthsAssumption DEF Ciphertext, WriteUnit, CiphertextOf
<1>3. /\ Write(s, chunk, "Ok")
      /\ UNCHANGED <<sender, receivers, plain, message, read, blocks>>
  BY DEF WriteSignature, sign_protocol
<1>4. message' = [message EXCEPT ![s] = message[s]]  BY <1>1, <1>3
<1>5. QED  BY <1>1, <1>2, <1>3, <1>4, WriteStepType DEF EncryptEnded

LEMMA WriterType ==
  ASSUME TypeOK, LoopsOK, NEW s \in Sessions, Writer(s)
  PROVE  TypeOK'
<1>1. UNCHANGED decryptVars /\ EncryptStep(s)  BY DEF Writer
<1>2. CASE Encrypt(s)  BY <1>1, <1>2, EncryptType
<1>3. CASE WriteHeader(s)
  <2>1. Len(sent[s]) < Len(receivers[s])  BY <1>3 DEF LoopsOK, WriteHeader
  <2>2. QED  BY <1>1, <1>3, <2>1, WriteHeaderType
<1>4. CASE ReadBlock(s)  BY <1>1, <1>4, ReadBlockType
<1>5. CASE WriteBlockHeader(s)
  BY <1>1, <1>5, WriteBlocksType DEF LoopsOK, WriteBlockHeader
<1>6. CASE WriteBlock(s)
  BY <1>1, <1>6, WriteBlocksType DEF LoopsOK, WriteBlock
<1>7. CASE WritePaddingHeader(s)  BY <1>1, <1>7, WriteBlocksType
<1>8. CASE WritePadding(s)  BY <1>1, <1>8, WriteBlocksType
<1>9. CASE WriteSignature(s)  BY <1>1, <1>9, WriteSignatureType
<1>10. QED
  BY <1>1, <1>2, <1>3, <1>4, <1>5, <1>6, <1>7, <1>8, <1>9 DEF EncryptStep

-----------------------------------------------------------------------------
(* The steps of the decryption.                                            *)

\* What read_exact returns.
LEMMA NextBytesType ==
  ASSUME TypeOK, NEW n \in Nat, Avail(n)
  PROVE  NextBytes(n) \in Seq(Cell) /\ Len(NextBytes(n)) = n /\ pos + n \in 0..Len(wire)
<1>1. wire \in Seq(Cell) /\ pos \in 0..Len(wire) /\ pos + n <= Len(wire)
  BY DEF TypeOK, WireTypeOK, DecryptTypeOK, Avail
<1>2. pos + 1 \in Int /\ pos + n \in Int /\ pos + 1 >= 1 /\ Len(wire) \in Nat
  BY <1>1
<1>3. QED  BY <1>1, <1>2, SubSeqType DEF NextBytes

\* Bytes that are a chunk, intact, are a chunk some session wrote.
LEMMA ChunkType ==
  ASSUME TypeOK, NEW bytes \in Seq(Cell), Intact(bytes)
  PROVE  /\ bytes[1].from \in Sessions
         /\ bytes[1].chunk \in 1..Len(sent[bytes[1].from])
         /\ bytes = Cells(bytes[1].from, bytes[1].chunk, Chunk(bytes).n)
         /\ Chunk(bytes) \in WriteUnit
<1>1. bytes[1] \in Cell /\ bytes[1] # Noise  BY EmptySeq DEF Intact
<1>2. bytes[1].from \in Sessions  BY <1>1 DEF Cell
<1>3. sent[bytes[1].from] \in Seq(WriteUnit)  BY <1>2 DEF TypeOK, WireTypeOK
<1>4. QED  BY <1>2, <1>3 DEF Intact, Chunk

\* The label of a chunk tells what it carries.
LEMMA LabelType ==
  ASSUME NEW u \in WriteUnit
  PROVE  /\ u.label = "header" => u.plain \in Sessions \X Nat
         /\ u.label = "block-header" => u.plain \in {"Data", "Padding"} \X Nat
         /\ u.label = "block" => u.plain \in Seq(Byte \union {Noise})
         /\ u.label = "signature" => u.plain \in Keys \X Seq(Op)
         /\ u.under \in Seq(Op)
BY DEF WriteUnit, CiphertextOf

LEMMA DecryptFrame ==
  ASSUME TypeOK, DecryptTypeOK', dpc' # "InvalidBlockType", UNCHANGED <<encryptVars, wireVars>>
  PROVE  TypeOK'
BY DEF TypeOK, EncryptTypeOK, WireTypeOK, encryptVars, wireVars

LEMMA ReturnType ==
  ASSUME TypeOK, NEW result \in DecryptEnded \ {"InvalidBlockType"}, Return(result),
         UNCHANGED <<encryptVars, wireVars>>
  PROVE  TypeOK'
<1>1. dpc' = result /\ dpc' # "block"  BY DEF Return, DecryptEnded
<1>2. DecryptTypeOK'
  BY <1>1 DEF Return, TypeOK, DecryptTypeOK, wireVars
<1>3. QED  BY <1>1, <1>2, DecryptFrame

LEMMA DecryptHeaderType ==
  ASSUME TypeOK, DecryptHeader
  PROVE  TypeOK'
<1>1. UNCHANGED <<encryptVars, wireVars>>  BY DEF DecryptHeader
<1>2. CASE Eof(ENC_HEADER_LEN) /\ Return("InvalidCiphertext")
  BY <1>1, <1>2, ReturnType DEF DecryptEnded
<1>3. CASE IoErrors /\ Return("ReadIo")
  BY <1>1, <1>3, ReturnType DEF DecryptEnded
<1> DEFINE bytes == NextBytes(ENC_HEADER_LEN)
           mixed == Mix(dmsg, "header", bytes)
<1>4. ASSUME Avail(ENC_HEADER_LEN), pos' = pos + ENC_HEADER_LEN,
             UNCHANGED <<claimed, receiver, hdr, out, torn, dwritten>>,
             IF dek = NoDek /\ HeaderOpens(dmsg, bytes)
             THEN HeadersStep(mixed, Chunk(bytes).plain[1], Chunk(bytes).plain[2])
             ELSE HeadersStep(mixed, dek, recvCount)
      PROVE  TypeOK'
  <2>1. /\ bytes \in Seq(Cell) /\ pos' \in 0..Len(wire)
    BY <1>4, EncLengthsType, NextBytesType
  <2>2. mixed \in Seq(Op)
    <3>1. dmsg \in Seq(Op)  BY DEF TypeOK, DecryptTypeOK
    <3>2. QED  BY <2>1, <3>1, MixedHeaderType
  <2>3. PICK dek_ \in Sessions \union {NoDek}, count \in Nat :
          HeadersStep(mixed, dek_, count)
    <3>1. CASE dek = NoDek /\ HeaderOpens(dmsg, bytes)
      <4>1. Chunk(bytes) \in WriteUnit /\ Chunk(bytes).label = "header"
        BY <2>1, <3>1, ChunkType DEF HeaderOpens, Opens
      <4>2. Chunk(bytes).plain \in Sessions \X Nat  BY <4>1, LabelType
      <4> HIDE DEF bytes, mixed
      <4>3. QED  BY <1>4, <3>1, <4>2
    <3>2. CASE ~(dek = NoDek /\ HeaderOpens(dmsg, bytes))
      BY <1>4, <3>2 DEF TypeOK, DecryptTypeOK
    <3>3. QED  BY <3>1, <3>2
  <2>4. dek_ # NoDek => Keyed(mixed, dek_) \in Seq(Op)  BY <2>2, KeyedType
  <2> HIDE DEF bytes, mixed
  <2>5. /\ i' = i + 1 /\ dek' = dek_ /\ recvCount' = count
        /\ dmsg' \in Seq(Op)
        /\ dpc' \in {"headers", "InvalidCiphertext", "block-header"}
    BY <2>2, <2>3, <2>4 DEF HeadersStep
  <2>6. DecryptTypeOK'
    BY <1>1, <1>4, <2>1, <2>5 DEF TypeOK, DecryptTypeOK, DecryptEnded, wireVars
  <2>7. QED  BY <1>1, <2>5, <2>6, DecryptFrame
<1>5. QED  BY <1>2, <1>3, <1>4 DEF DecryptHeader

LEMMA DecryptBlockHeaderType ==
  ASSUME TypeOK, DecryptBlockHeader
  PROVE  TypeOK'
<1> DEFINE bytes == NextBytes(ENC_BLOCK_HEADER_LEN)
<1>1. UNCHANGED <<encryptVars, wireVars>>  BY DEF DecryptBlockHeader
<1>2. ASSUME NEW result \in {"InvalidCiphertext", "UnexpectedEof", "ReadIo"},
             Return(result)
      PROVE  TypeOK'
  BY <1>1, <1>2, ReturnType DEF DecryptEnded
<1>3. ASSUME Avail(ENC_BLOCK_HEADER_LEN), BytesOpen("block-header", bytes),
             pos' = pos + ENC_BLOCK_HEADER_LEN, hdr' = Chunk(bytes).plain,
             dmsg' = Sealed(dmsg, "block-header", hdr'), dpc' = "block",
             UNCHANGED <<claimed, receiver, i, recvCount, dek, out, torn, dwritten>>
      PROVE  TypeOK'
  <2>1. bytes \in Seq(Cell) /\ pos' \in 0..Len(wire)
    BY <1>3, EncLengthsType, NextBytesType
  <2>2. Chunk(bytes) \in WriteUnit /\ Chunk(bytes).label = "block-header"
    BY <1>3, <2>1, ChunkType DEF BytesOpen, Opens
  <2>3. hdr' \in {"Data", "Padding"} \X Nat  BY <1>3, <2>2, LabelType
  <2>4. dmsg' \in Seq(Op)  BY <1>3, <2>3, SealedType DEF TypeOK, DecryptTypeOK
  <2> HIDE DEF bytes
  <2>5. DecryptTypeOK'
    BY <1>1, <1>3, <2>1, <2>3, <2>4 DEF TypeOK, DecryptTypeOK, DecryptEnded, wireVars
  <2>6. QED  BY <1>1, <1>3, <2>5, DecryptFrame
<1>4. QED  BY <1>2, <1>3 DEF DecryptBlockHeader

LEMMA DecryptBlockType ==
  ASSUME TypeOK, DecryptBlock
  PROVE  TypeOK'
<1> DEFINE n     == hdr[2] + TAG_LEN
           bytes == NextBytes(n)
           block == Chunk(bytes).plain
<1>1. UNCHANGED <<encryptVars, wireVars>> /\ dpc = "block"  BY DEF DecryptBlock
<1>2. ASSUME NEW result \in {"InvalidCiphertext", "UnexpectedEof", "ReadIo"},
             Return(result)
      PROVE  TypeOK'
  BY <1>1, <1>2, ReturnType DEF DecryptEnded
<1>3. hdr[1] \in {"Data", "Padding"} /\ hdr[2] \in Nat /\ n \in Nat
  BY <1>1, LengthsAssumption DEF TypeOK, DecryptTypeOK
<1>4. ASSUME Avail(n), BytesOpen("block", bytes), pos' = pos + n,
             dmsg' = Sealed(dmsg, "block", block),
             IF hdr[1] = "Data"
             THEN Release(block)
             ELSE /\ dpc' = IF hdr[1] = "Padding" THEN "sig" ELSE "InvalidBlockType"
                  /\ UNCHANGED <<out, torn, dwritten>>,
             UNCHANGED <<claimed, receiver, i, recvCount, dek, hdr>>
      PROVE  TypeOK'
  <2>1. bytes \in Seq(Cell) /\ pos' \in 0..Len(wire)
    <3> HIDE DEF n
    <3>1. QED  BY <1>3, <1>4, NextBytesType
  <2>2. Chunk(bytes) \in WriteUnit /\ Chunk(bytes).label = "block"
    BY <1>4, <2>1, ChunkType DEF BytesOpen, Opens
  <2>3. block \in Seq(Byte \union {Noise})  BY <2>2, LabelType
  <2>4. dmsg' \in Seq(Op)  BY <1>4, <2>3, SealedType DEF TypeOK, DecryptTypeOK
  <2> HIDE DEF n, bytes, block
  <2>5. /\ out' \in Seq(Seq(Byte \union {Noise}))
        /\ torn' \in Seq(Byte \union {Noise})
        /\ dwritten' \in Nat
        /\ dpc' \in {"block-header", "WriteIo", "sig"}
    <3>1. /\ out \in Seq(Seq(Byte \union {Noise})) /\ dwritten \in Nat
          /\ torn \in Seq(Byte \union {Noise}) /\ Len(block) \in Nat
      BY <2>3 DEF TypeOK, DecryptTypeOK
    <3>2. CASE hdr[1] # "Data"  BY <1>3, <1>4, <3>1, <3>2
    <3>3. CASE out' = Append(out, block) /\ dwritten' = dwritten + Len(block)
               /\ dpc' = "block-header" /\ UNCHANGED torn
      BY <2>3, <3>1, <3>3, AppendProperties
    <3>4. CASE /\ \E k \in 0..(Len(block) - 1) : torn' = SubSeq(block, 1, k)
               /\ dpc' = "WriteIo" /\ UNCHANGED <<out, dwritten>>
      BY <2>3, <3>1, <3>4, SubSeqType
    <3>5. QED  BY <1>4, <3>2, <3>3, <3>4 DEF Release
  <2>6. DecryptTypeOK'
    BY <1>1, <1>4, <2>1, <2>4, <2>5 DEF TypeOK, DecryptTypeOK, DecryptEnded, wireVars
  <2>7. QED  BY <1>1, <2>5, <2>6, DecryptFrame
<1>5. QED  BY <1>2, <1>4 DEF DecryptBlock

LEMMA ReadSignatureType ==
  ASSUME TypeOK, ReadSignature
  PROVE  TypeOK'
<1>1. UNCHANGED <<encryptVars, wireVars>>  BY DEF ReadSignature
<1>2. CASE Return("ReadIo")  BY <1>1, <1>2, ReturnType DEF DecryptEnded
<1>3. CASE /\ pos' = Len(wire)
           /\ dpc' \in {"Panic", "Ok", "InvalidCiphertext"}
           /\ UNCHANGED <<claimed, receiver, dmsg, i, recvCount, dek, hdr, out, torn,
                          dwritten>>
  <2>1. pos' \in 0..Len(wire)  BY <1>3 DEF TypeOK, WireTypeOK
  <2>2. DecryptTypeOK'
    BY <1>1, <1>3, <2>1 DEF TypeOK, DecryptTypeOK, DecryptEnded, wireVars
  <2>3. QED  BY <1>1, <1>3, <2>2, DecryptFrame
<1>4. QED  BY <1>2, <1>3 DEF ReadSignature

LEMMA EnvironmentType ==
  ASSUME TypeOK, Environment
  PROVE  TypeOK'
<1>1. pos \in 0..Len(wire) /\ Damage(pos) /\ UNCHANGED <<encryptVars, decryptVars>>
  BY DEF TypeOK, DecryptTypeOK, Environment
<1>2. WireTypeOK' /\ edits' <= MaxEdits /\ pos <= Len(wire')  BY <1>1, DamageType
<1>3. EncryptTypeOK'  BY <1>1 DEF TypeOK, EncryptTypeOK, encryptVars
<1>4. pos' \in 0..Len(wire')
  <2>1. pos \in Nat /\ Len(wire') \in Nat  BY <1>1, <1>2 DEF TypeOK, WireTypeOK
  <2>2. QED  BY <1>1, <1>2, <2>1 DEF decryptVars
<1>5. DecryptTypeOK'  BY <1>1, <1>4 DEF TypeOK, DecryptTypeOK, decryptVars
<1>6. QED  BY <1>1, <1>2, <1>3, <1>5 DEF TypeOK, encryptVars, decryptVars

-----------------------------------------------------------------------------
(* LoopsOK, which TypeOK needs: WriteHeader indexes the receivers, and the *)
(* writing of a block the blocks.                                          *)

\* A step that writes moves only s, and only to pc or WriteIo.
LEMMA WriteEffect ==
  ASSUME TypeOK, NEW s \in Sessions, NEW chunk, NEW pc, Write(s, chunk, pc)
  PROVE  /\ \A t \in Sessions \ {s} : epc'[t] = epc[t] /\ sent'[t] = sent[t]
         /\ epc'[s] \in {pc, "WriteIo"}
         /\ sent'[s] = Append(sent[s], chunk)
BY DEF TypeOK, EncryptTypeOK, WireTypeOK, Write, WriteAll, WriteFails

LEMMA WriterLoops ==
  ASSUME TypeOK, LoopsOK, NEW s \in Sessions, Writer(s)
  PROVE  LoopsOK'
<1> DEFINE Loop(t) ==
      /\ epc[t] = "idle" => sent[t] = << >> /\ blocks[t] = << >>
      /\ epc[t] = "headers" => Len(sent[t]) < Len(receivers[t])
      /\ epc[t] \in {"block-header", "block"} => blocks[t] # << >>
<1>1. EncryptStep(s)  BY DEF Writer
<1>2. \A t \in Sessions : Loop(t)  BY DEF LoopsOK
<1>3. /\ epc \in [Sessions -> EncryptEnded \union
                {"idle", "headers", "read", "block-header", "block",
                 "padding-header", "padding", "sign"}]
      /\ receivers \in [Sessions -> Seq(Keys \union {Fake})]
      /\ blocks \in [Sessions -> Seq(Seq(Byte))]
      /\ sent \in [Sessions -> Seq(WriteUnit)]
  BY DEF TypeOK, EncryptTypeOK, WireTypeOK
<1>4. CASE Encrypt(s)
  <2>1. PICK shuffled \in Seq(Keys \union {Fake}) :
          /\ receivers' = [receivers EXCEPT ![s] = shuffled]
          /\ epc' = [epc EXCEPT ![s] = IF shuffled = << >> THEN "read" ELSE "headers"]
    BY <1>4, EncryptEffect
  <2>2. epc[s] = "idle" /\ UNCHANGED <<blocks, sent>>  BY <1>4 DEF Encrypt, wireVars
  <2>3. sent[s] = << >> /\ (shuffled # << >> => Len(shuffled) > 0)
    BY <1>2, <2>1, <2>2, EmptySeq
  <2>4. Loop(s)'  BY <1>3, <2>1, <2>2, <2>3
  <2>5. \A t \in Sessions \ {s} : Loop(t)'  BY <1>2, <1>3, <2>1, <2>2
  <2>6. QED  BY <2>4, <2>5 DEF LoopsOK
<1>5. CASE WriteHeader(s)
  <2> DEFINE k == Len(sent[s]) + 1
             pc == IF k = Len(receivers[s]) THEN "read" ELSE "headers"
  <2>1. PICK chunk : Write(s, chunk, pc)  BY <1>5 DEF WriteHeader
  <2>2. epc[s] = "headers" /\ UNCHANGED <<receivers, blocks>>  BY <1>5 DEF WriteHeader
  <2>3. sent'[s] = Append(sent[s], chunk) /\ epc'[s] \in {pc, "WriteIo"}
    BY <2>1, WriteEffect
  <2>4. Len(sent'[s]) = k  BY <1>3, <2>3
  <2>5. Len(sent[s]) < Len(receivers[s]) /\ Len(receivers[s]) \in Nat
        /\ Len(sent[s]) \in Nat
    BY <1>2, <1>3, <2>2
  <2>6. Loop(s)'  BY <2>2, <2>3, <2>4, <2>5
  <2>7. \A t \in Sessions \ {s} : Loop(t)'  BY <1>2, <2>1, <2>2, WriteEffect
  <2>8. QED  BY <2>6, <2>7 DEF LoopsOK
<1>6. CASE ReadBlock(s)
  <2>1. UNCHANGED <<receivers, sent>>  BY <1>6 DEF ReadBlock, wireVars
  <2>2. ASSUME NEW block \in Seq(Byte) PROVE Append(blocks[s], block) # << >>
    <3>1. blocks[s] \in Seq(Seq(Byte))  BY <1>3
    <3>2. QED  BY <3>1, AppendProperties
  <2>3. PICK pc \in {"padding-header", "block-header", "ReadIo"} :
          /\ epc' = [epc EXCEPT ![s] = pc]
          /\ pc = "block-header" => blocks'[s] # << >>
          /\ \A t \in Sessions \ {s} : blocks'[t] = blocks[t]
    <3>1. CASE epc' = [epc EXCEPT ![s] = "padding-header"] /\ UNCHANGED blocks
      BY <3>1
    <3>2. CASE epc' = [epc EXCEPT ![s] = "ReadIo"] /\ UNCHANGED blocks
      BY <3>2
    <3>3. CASE /\ epc' = [epc EXCEPT ![s] = "block-header"]
               /\ \E block \in Seq(Byte) :
                    blocks' = [blocks EXCEPT ![s] = Append(blocks[s], block)]
      BY <1>3, <2>2, <3>3
    <3>4. QED  BY <1>6, <3>1, <3>2, <3>3, ReadBlockEffect
  <2>4. Loop(s)'  BY <1>3, <2>3
  <2>5. \A t \in Sessions \ {s} : Loop(t)'  BY <1>2, <1>3, <2>1, <2>3
  <2>6. QED  BY <2>4, <2>5 DEF LoopsOK
<1>7. CASE WriteBlockHeader(s)
  <2>1. PICK chunk : Write(s, chunk, "block")  BY <1>7 DEF WriteBlockHeader, SealAndWrite
  <2>2. epc[s] = "block-header" /\ UNCHANGED <<receivers, blocks>>
    BY <1>7 DEF WriteBlockHeader, SealAndWrite
  <2>3. Loop(s)'  BY <1>2, <2>1, <2>2, WriteEffect
  <2>4. \A t \in Sessions \ {s} : Loop(t)'  BY <1>2, <2>1, <2>2, WriteEffect
  <2>5. QED  BY <2>3, <2>4 DEF LoopsOK
<1>8. ASSUME NEW pc \in {"read", "padding-header", "padding", "sign", "Ok"}, NEW chunk,
             Write(s, chunk, pc), UNCHANGED <<receivers, blocks>>
      PROVE  LoopsOK'
  <2>1. Loop(s)'  BY <1>8, WriteEffect
  <2>2. \A t \in Sessions \ {s} : Loop(t)'  BY <1>2, <1>8, WriteEffect
  <2>3. QED  BY <2>1, <2>2 DEF LoopsOK
<1>9. CASE WriteBlock(s)
  BY <1>8, <1>9 DEF WriteBlock, SealAndWrite
<1>10. CASE WritePaddingHeader(s)
  BY <1>8, <1>10 DEF WritePaddingHeader, SealAndWrite
<1>11. CASE WritePadding(s)
  BY <1>8, <1>11 DEF WritePadding, SealAndWrite
<1>12. CASE WriteSignature(s)
  BY <1>8, <1>12 DEF WriteSignature
<1>13. QED
  BY <1>1, <1>4, <1>5, <1>6, <1>7, <1>9, <1>10, <1>11, <1>12 DEF EncryptStep

-----------------------------------------------------------------------------
\* TypeOK and LoopsOK hold together: every step of every session, of the
\* decryption and of the environment preserves them.
LEMMA TypesInductive ==
  ASSUME TypeOK, LoopsOK, [Next]_vars
  PROVE  TypeOK' /\ LoopsOK'
<1>1. CASE UNCHANGED vars
  <2>1. UNCHANGED <<encryptVars, wireVars, decryptVars>>  BY <1>1 DEF vars
  <2>2. DecryptTypeOK' /\ EncryptTypeOK' /\ WireTypeOK'
    BY <2>1 DEF TypeOK, DecryptTypeOK, EncryptTypeOK, WireTypeOK,
                decryptVars, encryptVars, wireVars
  <2>3. TypeOK'
    BY <2>1, <2>2 DEF TypeOK, encryptVars, wireVars, decryptVars
  <2>4. LoopsOK'  BY <2>1 DEF LoopsOK, encryptVars, wireVars
  <2>5. QED  BY <2>3, <2>4
<1>2. CASE \E s \in Sessions : Writer(s)  BY <1>2, WriterType, WriterLoops
<1>3. CASE DecryptStep
  <2>1. TypeOK'
    BY <1>3, DecryptHeaderType, DecryptBlockHeaderType, DecryptBlockType,
       ReadSignatureType DEF DecryptStep
  <2>2. UNCHANGED <<encryptVars, wireVars>>
    BY <1>3 DEF DecryptStep, DecryptHeader, DecryptBlockHeader, DecryptBlock,
                ReadSignature
  <2>3. LoopsOK'  BY <2>2 DEF LoopsOK, encryptVars, wireVars
  <2>4. QED  BY <2>1, <2>3
<1>4. CASE Environment
  <2>1. TypeOK'  BY <1>4, EnvironmentType
  <2>2. UNCHANGED encryptVars /\ sent' = sent  BY <1>4 DEF Environment, Damage
  <2>3. LoopsOK'  BY <2>2 DEF LoopsOK, encryptVars
  <2>4. QED  BY <2>1, <2>3
<1>5. QED  BY <1>1, <1>2, <1>3, <1>4 DEF Next

\* Every reachable state has the types of TypeOK: no index is out of range, the
\* lengths of headers are natural numbers, and decrypt_message never meets a
\* block type other than the two encrypt_message writes.
THEOREM TypeCorrect == Spec => []TypeOK
<1>1. Init => TypeOK /\ LoopsOK
  BY InitType DEF Init, EncryptInit, WireInit, LoopsOK
<1>2. TypeOK /\ LoopsOK /\ [Next]_vars => TypeOK' /\ LoopsOK'
  BY TypesInductive
<1>3. QED  BY <1>1, <1>2, PTL DEF Spec

-----------------------------------------------------------------------------
(* Histories that grow.                                                    *)

Extends(m2, m1) ==
  /\ Len(m1) <= Len(m2)
  /\ \A q \in 1..Len(m1) : m2[q] = m1[q]

LEMMA AppendExtends ==
  ASSUME NEW S, NEW m \in Seq(S), NEW e \in S
  PROVE  /\ Append(m, e) \in Seq(S)
         /\ Len(Append(m, e)) = Len(m) + 1
         /\ Append(m, e)[Len(m) + 1] = e
         /\ Extends(Append(m, e), m)
BY AppendProperties DEF Extends

LEMMA ExtendsReflexive ==
  ASSUME NEW S, NEW m \in Seq(S)
  PROVE  Extends(m, m)
BY DEF Extends

LEMMA ExtendsTransitive ==
  ASSUME NEW S, NEW m1 \in Seq(S), NEW m2 \in Seq(S), NEW m3 \in Seq(S),
         Extends(m2, m1), Extends(m3, m2)
  PROVE  Extends(m3, m1)
BY DEF Extends

\* The beginnings of a history are the beginnings of what it grows into.
LEMMA PrefixOfExtension ==
  ASSUME NEW S, NEW m1 \in Seq(S), NEW m2 \in Seq(S), Extends(m2, m1),
         NEW n \in 0..Len(m1)
  PROVE  SubSeq(m2, 1, n) = SubSeq(m1, 1, n)
<1>1. n \in Int /\ n <= Len(m1) /\ n <= Len(m2) /\ 1 \in Int /\ Len(m1) \in Nat
  BY DEF Extends
<1>2. \A q \in 1..n : m2[q] = m1[q] /\ m1[q] \in S /\ m2[q] \in S
  BY <1>1 DEF Extends
<1>3. /\ SubSeq(m1, 1, n) \in Seq(S) /\ SubSeq(m2, 1, n) \in Seq(S)
      /\ Len(SubSeq(m1, 1, n)) = n /\ Len(SubSeq(m2, 1, n)) = n
      /\ \A q \in 1..n : SubSeq(m1, 1, n)[q] = m1[q] /\ SubSeq(m2, 1, n)[q] = m2[q]
  BY <1>1, <1>2, SubSeqProperties
<1>4. QED  BY <1>2, <1>3, SeqEqual

\* A beginning of m with the next operation of m is a beginning of m.
LEMMA PrefixAppend ==
  ASSUME NEW S, NEW m \in Seq(S), NEW p \in Seq(S),
         Len(p) + 1 <= Len(m), p = SubSeq(m, 1, Len(p))
  PROVE  Append(p, m[Len(p) + 1]) = SubSeq(m, 1, Len(p) + 1)
<1> DEFINE n == Len(p)
           e == m[n + 1]
<1>1. n \in Nat /\ n + 1 \in 1..Len(m) /\ e \in S  OBVIOUS
<1>2. \A q \in 1..(n + 1) : m[q] \in S  BY <1>1
<1>3. /\ SubSeq(m, 1, n + 1) \in Seq(S) /\ Len(SubSeq(m, 1, n + 1)) = n + 1
      /\ \A q \in 1..(n + 1) : SubSeq(m, 1, n + 1)[q] = m[q]
  BY <1>1, <1>2, SubSeqProperties
<1>4. \A q \in 1..n : p[q] = m[q]
  BY <1>1, <1>2, SubSeqProperties
<1>5. /\ Append(p, e) \in Seq(S) /\ Len(Append(p, e)) = n + 1
      /\ \A q \in 1..n : Append(p, e)[q] = p[q]
      /\ Append(p, e)[n + 1] = e
  BY <1>1, AppendProperties
<1> HIDE DEF n, e
<1>6. \A q \in 1..(n + 1) : Append(p, e)[q] = SubSeq(m, 1, n + 1)[q]
  BY <1>1, <1>3, <1>4, <1>5 DEF e
<1>7. Append(p, e) = SubSeq(m, 1, n + 1)  BY <1>1, <1>3, <1>5, <1>6, SeqEqual
<1>8. QED  BY <1>7 DEF n, e

LEMMA PrefixElements ==
  ASSUME NEW S, NEW m \in Seq(S), NEW n \in 0..Len(m)
  PROVE  /\ SubSeq(m, 1, n) \in Seq(S)
         /\ Len(SubSeq(m, 1, n)) = n
         /\ \A q \in 1..n : SubSeq(m, 1, n)[q] = m[q]
<1>1. n \in Int /\ 1 \in Int /\ n <= Len(m) /\ \A q \in 1..n : m[q] \in S  OBVIOUS
<1>2. QED  BY <1>1, SubSeqProperties

-----------------------------------------------------------------------------
(* The histories of the encryptions.                                       *)

\* The next operation keeps a history if it is the one due at its place.
LEMMA HistoryAppend ==
  ASSUME NEW s \in Sessions, NEW m \in Seq(Op), NEW e \in Op, NEW b \in Nat,
         NEW bs \in Seq(Seq(Byte)), History(m, s, b, bs),
         e[2] = "dek" => e[3] = s,
         \A j \in 1..Len(bs) : /\ Len(m) + 1 = b + 2 * j - 1 => e[3][1] = "Data"
                               /\ Len(m) + 1 = b + 2 * j => e[3] = bs[j],
         Len(m) + 1 = b + 2 * Len(bs) + 1 => e[3][1] = "Padding",
         Len(m) + 1 <= b + 2 * Len(bs) + 2
  PROVE  History(Append(m, e), s, b, bs)
<1> DEFINE m2 == Append(m, e)
           k  == Len(bs)
<1>1. /\ Len(m) \in Nat /\ k \in Nat /\ Len(m2) = Len(m) + 1 /\ m2[Len(m) + 1] = e
      /\ \A q \in 1..Len(m) : m2[q] = m[q]
  BY AppendExtends DEF Extends
<1> HIDE DEF m2
<1>2. Len(m2) >= 2 /\ m2[2] = <<"mix", "sender", sender[s]>>
  BY <1>1 DEF History
<1>3. \A q \in 1..Len(m2) : m2[q][2] = "dek" => m2[q][3] = s
  BY <1>1 DEF History
<1>4. ASSUME NEW j \in 1..k
      PROVE  /\ b + 2 * j - 1 <= Len(m2) => m2[b + 2 * j - 1][3][1] = "Data"
             /\ b + 2 * j <= Len(m2) => m2[b + 2 * j][3] = bs[j]
  <2> DEFINE q == b + 2 * j
  <2>1. q \in Nat /\ q - 1 \in Nat /\ q - 1 >= 1  BY <1>1
  <2>2. /\ q - 1 <= Len(m) => m[q - 1][3][1] = "Data"
        /\ q <= Len(m) => m[q][3] = bs[j]
        /\ Len(m) + 1 = q - 1 => e[3][1] = "Data"
        /\ Len(m) + 1 = q => e[3] = bs[j]
    BY DEF History
  <2> HIDE DEF q
  <2> DEFINE n == Len(m)
  <2>3. n \in Nat /\ Len(m2) = n + 1 /\ m2[n + 1] = e  BY <1>1
  <2>4. \A h \in 1..n : m2[h] = m[h]  BY <1>1
  <2>5. /\ q - 1 <= n => m[q - 1][3][1] = "Data"
        /\ q <= n => m[q][3] = bs[j]
        /\ n + 1 = q - 1 => e[3][1] = "Data"
        /\ n + 1 = q => e[3] = bs[j]
    BY <2>2
  <2> HIDE DEF n
  <2>6. q - 1 <= n + 1 => m2[q - 1][3][1] = "Data"
    <3>1. CASE q - 1 <= n
      <4>1. q - 1 \in 1..n  BY <2>1, <2>3, <3>1
      <4>2. QED  BY <2>4, <2>5, <3>1, <4>1
    <3>2. CASE q - 1 = n + 1  BY <2>3, <2>5, <3>2
    <3>3. q - 1 <= n + 1 => q - 1 <= n \/ q - 1 = n + 1  BY <2>1, <2>3
    <3>4. QED  BY <3>1, <3>2, <3>3
  <2>7. q <= n + 1 => m2[q][3] = bs[j]
    <3>1. CASE q <= n
      <4>1. q \in 1..n  BY <2>1, <2>3, <3>1
      <4>2. QED  BY <2>4, <2>5, <3>1, <4>1
    <3>2. CASE q = n + 1  BY <2>3, <2>5, <3>2
    <3>3. q <= n + 1 => q <= n \/ q = n + 1  BY <2>1, <2>3
    <3>4. QED  BY <3>1, <3>2, <3>3
  <2>8. QED  BY <2>3, <2>6, <2>7 DEF q
<1>5. b + 2 * k + 1 <= Len(m2) => m2[b + 2 * k + 1][3][1] = "Padding"
  <2>1. b + 2 * k + 1 \in 1..Len(m) \/ b + 2 * k + 1 >= Len(m) + 1  BY <1>1
  <2>2. QED  BY <1>1, <2>1 DEF History
<1>6. Len(m2) <= b + 2 * k + 2  BY <1>1
<1>7. History(m2, s, b, bs)  BY <1>2, <1>3, <1>4, <1>5, <1>6 DEF History
<1>8. QED  BY <1>7 DEF m2

\* Up to the DEK anything may come, but no other DEK.
LEMMA HistoryHeader ==
  ASSUME NEW s \in Sessions, NEW m \in Seq(Op), NEW e \in Op, NEW b \in Nat,
         History(m, s, b, << >>), e[2] = "dek" => e[3] = s, Len(m) + 1 <= b
  PROVE  History(Append(m, e), s, b, << >>)
<1> DEFINE bs == << >>
<1>1. bs \in Seq(Seq(Byte)) /\ Len(bs) = 0 /\ Len(m) \in Nat  OBVIOUS
<1>2. History(m, s, b, bs)  OBVIOUS
<1> HIDE DEF bs
<1>3. \A j \in 1..Len(bs) : /\ Len(m) + 1 = b + 2 * j - 1 => e[3][1] = "Data"
                            /\ Len(m) + 1 = b + 2 * j => e[3] = bs[j]
  BY <1>1
<1>4. ~(Len(m) + 1 = b + 2 * Len(bs) + 1) /\ Len(m) + 1 <= b + 2 * Len(bs) + 2
  BY <1>1
<1>5. History(Append(m, e), s, b, bs)  BY <1>1, <1>2, <1>3, <1>4, HistoryAppend
<1>6. QED  BY <1>5 DEF bs

\* A block may be read when nothing is due for it yet.
LEMMA HistoryBlock ==
  ASSUME NEW s \in Sessions, NEW m \in Seq(Op), NEW b \in Nat,
         NEW bs \in Seq(Seq(Byte)), NEW block \in Seq(Byte),
         History(m, s, b, bs), Len(m) = b + 2 * Len(bs)
  PROVE  History(m, s, b, Append(bs, block))
<1> DEFINE bs2 == Append(bs, block)
           k   == Len(bs)
<1>1. /\ Len(bs2) = k + 1 /\ k \in Nat /\ Len(m) \in Nat
      /\ \A j \in 1..k : bs2[j] = bs[j]
  BY AppendExtends DEF Extends
<1> HIDE DEF bs2
<1>2. ASSUME NEW j \in 1..Len(bs2)
      PROVE  /\ b + 2 * j - 1 <= Len(m) => m[b + 2 * j - 1][3][1] = "Data"
             /\ b + 2 * j <= Len(m) => m[b + 2 * j][3] = bs2[j]
  <2>1. CASE j \in 1..k  BY <1>1, <2>1 DEF History
  <2>2. CASE j = k + 1  BY <1>1, <2>2
  <2>3. QED  BY <1>1, <2>1, <2>2
<1>3. ~(b + 2 * Len(bs2) + 1 <= Len(m)) /\ Len(m) <= b + 2 * Len(bs2) + 2  BY <1>1
<1>4. History(m, s, b, bs2)  BY <1>2, <1>3 DEF History
<1>5. QED  BY <1>4 DEF bs2

\* A chunk stays sealed in a history that grows.
LEMMA SealedInExtension ==
  ASSUME NEW s \in Sessions, NEW u \in WriteUnit, NEW c \in Nat, NEW list,
         NEW m \in Seq(Op), NEW m2 \in Seq(Op), Extends(m2, m),
         SealedIn(u, c, s, m, list)
  PROVE  SealedIn(u, c, s, m2, list)
<1>1. Len(m) \in Nat /\ Len(m2) \in Nat /\ Len(m) <= Len(m2)  BY DEF Extends
<1>2. CASE u.label = "header"
  <2>1. c + 1 \in 0..Len(m)  BY <1>1, <1>2 DEF SealedIn
  <2>2. SubSeq(m2, 1, c + 1) = SubSeq(m, 1, c + 1)  BY <2>1, PrefixOfExtension
  <2>3. c + 1 <= Len(m2)  BY <1>1, <2>1
  <2>4. QED  BY <1>2, <2>2, <2>3 DEF SealedIn
<1>3. CASE u.label \in {"block-header", "block"}
  <2> DEFINE n == Len(u.under)
  <2>1. n \in Nat  BY LabelType
  <2>2. n \in 0..Len(m) /\ n + 1 \in 1..Len(m)  BY <1>1, <1>3, <2>1 DEF SealedIn
  <2>3. SubSeq(m2, 1, n) = SubSeq(m, 1, n)  BY <2>2, PrefixOfExtension
  <2>4. m2[n + 1] = m[n + 1]  BY <2>2 DEF Extends
  <2>5. n + 1 <= Len(m2)  BY <1>1, <2>2
  <2>6. QED  BY <1>3, <2>3, <2>4, <2>5 DEF SealedIn
<1>4. CASE u.label \notin {"header", "block-header", "block"}
  BY <1>4 DEF SealedIn
<1>5. QED  BY <1>2, <1>3, <1>4

\* A session's step leaves what belongs to the others alone.
LEMMA OtherSessions ==
  ASSUME TypeOK, NEW s \in Sessions, Writer(s), NEW t \in Sessions \ {s}
  PROVE  /\ epc'[t] = epc[t] /\ message'[t] = message[t] /\ receivers'[t] = receivers[t]
         /\ blocks'[t] = blocks[t] /\ sent'[t] = sent[t]
<1>1. /\ message \in [Sessions -> Seq(Op)]
      /\ receivers \in [Sessions -> Seq(Keys \union {Fake})]
      /\ blocks \in [Sessions -> Seq(Seq(Byte))]
      /\ sent \in [Sessions -> Seq(WriteUnit)]
      /\ DOMAIN epc = Sessions
  BY DEF TypeOK, EncryptTypeOK, WireTypeOK
<1>2. CASE Encrypt(s)
  <2>1. UNCHANGED <<blocks, sent>>  BY <1>2 DEF Encrypt, wireVars
  <2>2. QED  BY <1>1, <1>2, <2>1, EncryptEffect
<1>3. CASE ReadBlock(s)
  <2>1. UNCHANGED <<message, receivers, sent>>  BY <1>3 DEF ReadBlock, wireVars
  <2>2. \E pc : epc' = [epc EXCEPT ![s] = pc]  BY <1>3, ReadBlockEffect
  <2>3. UNCHANGED blocks \/ \E bs : blocks' = [blocks EXCEPT ![s] = bs]
    BY <1>3, ReadBlockEffect
  <2>4. QED  BY <1>1, <2>1, <2>2, <2>3
<1>4. ASSUME NEW chunk, NEW pc, NEW protocol, Write(s, chunk, pc),
             message' = [message EXCEPT ![s] = protocol] \/ UNCHANGED message,
             UNCHANGED <<receivers, blocks>>
      PROVE  /\ epc'[t] = epc[t] /\ message'[t] = message[t]
             /\ receivers'[t] = receivers[t]
             /\ blocks'[t] = blocks[t] /\ sent'[t] = sent[t]
  BY <1>1, <1>4, WriteEffect
<1>5. CASE WriteHeader(s)  BY <1>4, <1>5 DEF WriteHeader
<1>6. CASE WriteBlockHeader(s)  BY <1>4, <1>6 DEF WriteBlockHeader, SealAndWrite
<1>7. CASE WriteBlock(s)  BY <1>4, <1>7 DEF WriteBlock, SealAndWrite
<1>8. CASE WritePaddingHeader(s)  BY <1>4, <1>8 DEF WritePaddingHeader, SealAndWrite
<1>9. CASE WritePadding(s)  BY <1>4, <1>9 DEF WritePadding, SealAndWrite
<1>10. CASE WriteSignature(s)  BY <1>4, <1>10 DEF WriteSignature
<1>11. QED
  BY <1>2, <1>3, <1>5, <1>6, <1>7, <1>8, <1>9, <1>10 DEF Writer, EncryptStep

\* The state of one session that EncryptHistories speaks of.
SessionOK(s) ==
  /\ History(message[s], s, Base(s), blocks[s])
  /\ HistoryLength(s)
  /\ \A c \in 1..Len(sent[s]) : SealedIn(sent[s][c], c, s, message[s], receivers[s])

\* A step that writes a chunk sealed in the history it leaves.
LEMMA WriteSession ==
  ASSUME TypeOK, NEW s \in Sessions, SessionOK(s), NEW chunk \in WriteUnit, NEW pc,
         NEW m2 \in Seq(Op), Write(s, chunk, pc), Extends(m2, message[s]),
         SealedIn(chunk, Len(sent[s]) + 1, s, m2, receivers[s])
  PROVE  \A c \in 1..Len(sent'[s]) : SealedIn(sent'[s][c], c, s, m2, receivers[s])
<1>1. sent[s] \in Seq(WriteUnit) /\ message[s] \in Seq(Op) /\ Len(sent[s]) \in Nat
  BY DEF TypeOK, WireTypeOK, EncryptTypeOK
<1>2. sent'[s] = Append(sent[s], chunk)  BY WriteEffect
<1>3. /\ Len(sent'[s]) = Len(sent[s]) + 1
      /\ sent'[s][Len(sent[s]) + 1] = chunk
      /\ \A c \in 1..Len(sent[s]) : sent'[s][c] = sent[s][c]
  BY <1>1, <1>2, AppendExtends DEF Extends
<1>4. ASSUME NEW c \in 1..Len(sent[s])
      PROVE  SealedIn(sent'[s][c], c, s, m2, receivers[s])
  <2>1. SealedIn(sent[s][c], c, s, message[s], receivers[s])  BY DEF SessionOK
  <2>2. sent[s][c] \in WriteUnit /\ c \in Nat  BY <1>1
  <2>3. SealedIn(sent[s][c], c, s, m2, receivers[s])
    BY <1>1, <2>1, <2>2, SealedInExtension
  <2>4. QED  BY <1>3, <2>3
<1>5. QED  BY <1>1, <1>3, <1>4

\* What a step has to establish of its session.
LEMMA SessionStep ==
  ASSUME NEW s \in Sessions, sender' = sender, NEW m2, message'[s] = m2,
         History(m2, s, Base(s)', blocks'[s]), HistoryLength(s)',
         \A c \in 1..Len(sent'[s]) : SealedIn(sent'[s][c], c, s, m2, receivers'[s])
  PROVE  SessionOK(s)'
<1>1. History(message'[s], s, Base(s)', blocks'[s])
        = History(message[s], s, Base(s), blocks[s])'
  BY DEF History
<1>2. \A c \in 1..Len(sent'[s]) :
        SealedIn(sent'[s][c], c, s, message'[s], receivers'[s])
          = SealedIn(sent[s][c], c, s, message[s], receivers[s])'
  BY DEF SealedIn
<1>3. QED  BY <1>1, <1>2 DEF SessionOK

LEMMA HistoryStart ==
  ASSUME NEW s \in Sessions, sender[s] \in Keys, NEW b \in Nat, b >= 3
  PROVE  /\ History(Start(sender[s]), s, b, << >>) /\ Len(Start(sender[s])) = 2
         /\ History(Keyed(Start(sender[s]), s), s, b, << >>)
         /\ Len(Keyed(Start(sender[s]), s)) = 3
<1> DEFINE m1 == Start(sender[s])
           m2 == Keyed(m1, s)
<1>1. /\ Len(m1) = 2 /\ m1[1] = <<"new", "domain", "veil.message">>
      /\ m1[2] = <<"mix", "sender", sender[s]>>
  BY DEF Start, New, Mix
<1>2. /\ Len(m2) = 3 /\ m2[1] = <<"new", "domain", "veil.message">>
      /\ m2[2] = <<"mix", "sender", sender[s]>> /\ m2[3] = <<"mix", "dek", s>>
  BY DEF Keyed, Start, New, Mix
<1> HIDE DEF m1, m2
<1>3. History(m1, s, b, << >>)  BY <1>1 DEF History
<1>4. \A q \in 1..Len(m2) : m2[q][2] = "dek" => m2[q][3] = s
  <2>1. \A q \in 1..3 : q = 1 \/ q = 2 \/ q = 3  OBVIOUS
  <2>2. QED  BY <1>2, <2>1
<1>5. History(m2, s, b, << >>)  BY <1>2, <1>4 DEF History
<1>6. QED  BY <1>1, <1>2, <1>3, <1>5 DEF m1, m2

LEMMA EncryptSession ==
  ASSUME TypeOK, LoopsOK, NEW s \in Sessions, Encrypt(s)
  PROVE  SessionOK(s)'
<1>1. PICK shuffled \in Seq(Keys \union {Fake}) :
        /\ receivers' = [receivers EXCEPT ![s] = shuffled]
        /\ message' = [message EXCEPT ![s] =
                         IF shuffled = << >> THEN Keyed(Start(sender[s]), s)
                         ELSE Start(sender[s])]
        /\ epc' = [epc EXCEPT ![s] = IF shuffled = << >> THEN "read" ELSE "headers"]
  BY EncryptEffect
<1>2. sender' = sender /\ blocks' = blocks /\ sent' = sent /\ epc[s] = "idle"
  BY DEF Encrypt, wireVars
<1>3. sent[s] = << >> /\ blocks[s] = << >>  BY <1>2 DEF LoopsOK
<1>4. /\ sender[s] \in Keys /\ DOMAIN receivers = Sessions
      /\ DOMAIN message = Sessions /\ DOMAIN epc = Sessions
  BY DEF TypeOK, EncryptTypeOK
<1> DEFINE m2 == IF shuffled = << >> THEN Keyed(Start(sender[s]), s)
                 ELSE Start(sender[s])
<1>5. /\ message'[s] = m2 /\ receivers'[s] = shuffled
      /\ epc'[s] = IF shuffled = << >> THEN "read" ELSE "headers"
  BY <1>1, <1>4
<1>6. Base(s)' = Len(shuffled) + 3 /\ Len(shuffled) \in Nat  BY <1>5 DEF Base
<1>7. /\ History(m2, s, Base(s)', << >>)
      /\ Len(m2) = IF shuffled = << >> THEN 3 ELSE 2
  <2>1. Base(s)' \in Nat /\ Base(s)' >= 3  BY <1>6
  <2>2. /\ History(Start(sender[s]), s, Base(s)', << >>) /\ Len(Start(sender[s])) = 2
        /\ History(Keyed(Start(sender[s]), s), s, Base(s)', << >>)
        /\ Len(Keyed(Start(sender[s]), s)) = 3
    BY <1>4, <2>1, HistoryStart
  <2>3. CASE shuffled = << >>  BY <2>2, <2>3
  <2>4. CASE shuffled # << >>  BY <2>2, <2>4
  <2>5. QED  BY <2>3, <2>4
<1> HIDE DEF m2
<1>8. HistoryLength(s)'
  <2>1. blocks'[s] = << >> /\ Len(blocks'[s]) = 0 /\ Len(sent'[s]) = 0  BY <1>2, <1>3
  <2>2. CASE shuffled = << >>
    BY <1>5, <1>6, <1>7, <2>1, <2>2 DEF HistoryLength
  <2>3. CASE shuffled # << >>
    BY <1>5, <1>6, <1>7, <2>1, <2>3 DEF HistoryLength
  <2>4. QED  BY <2>2, <2>3
<1>9. History(m2, s, Base(s)', blocks'[s])  BY <1>2, <1>3, <1>7
<1>10. Len(sent'[s]) = 0  BY <1>2, <1>3
<1>11. QED  BY <1>2, <1>5, <1>8, <1>9, <1>10, SessionStep

LEMMA WriteHeaderSession ==
  ASSUME TypeOK, LoopsOK, NEW s \in Sessions, SessionOK(s), WriteHeader(s)
  PROVE  SessionOK(s)'
<1> DEFINE k     == Len(sent[s]) + 1
           n     == Len(receivers[s])
           m     == message[s]
           bytes == Cells(s, k, ENC_HEADER_LEN)
           mixed == Mix(m, "header", bytes)
           m2    == IF k = n THEN Keyed(mixed, s) ELSE mixed
           chunk == EncHeader(s, receivers[s][k], bytes)
           pc    == IF k = n THEN "read" ELSE "headers"
           b     == Base(s)
<1>1. /\ epc[s] = "headers" /\ Write(s, chunk, pc)
      /\ message' = [message EXCEPT ![s] = m2]
      /\ UNCHANGED <<sender, receivers, blocks>>
  BY DEF WriteHeader
<1>2. /\ m \in Seq(Op) /\ sent[s] \in Seq(WriteUnit) /\ receivers[s] \in Seq(Keys \union {Fake})
      /\ message'[s] = m2 /\ blocks[s] \in Seq(Seq(Byte)) /\ epc[s] # "idle"
  BY <1>1 DEF TypeOK, EncryptTypeOK, WireTypeOK
<1>3. /\ Len(m) = k + 1 /\ blocks[s] = << >> /\ k <= n /\ k \in Nat \ {0} /\ n \in Nat
      /\ Len(m) \in Nat
  BY <1>1, <1>2 DEF SessionOK, HistoryLength, LoopsOK
<1>4. b = n + 3 /\ b \in Nat  BY <1>3 DEF Base
<1>5. bytes \in Seq(Cell) /\ ENC_HEADER_LEN \in Nat  BY <1>3, CellsType, EncLengthsType
<1>6. /\ mixed \in Seq(Op) /\ Keyed(mixed, s) \in Seq(Op)
      /\ <<"mix", "header", bytes>> \in Op /\ <<"mix", "dek", s>> \in Op
      /\ mixed = Append(m, <<"mix", "header", bytes>>)
      /\ Keyed(mixed, s) = Append(mixed, <<"mix", "dek", s>>)
  BY <1>2, <1>5, MixedHeaderType, KeyedType DEF Op, Mix, Keyed
<1> HIDE DEF mixed, bytes, b, m, n, k
<1>7. /\ Len(mixed) = k + 2 /\ Extends(mixed, m)
      /\ Len(Keyed(mixed, s)) = k + 3 /\ Extends(Keyed(mixed, s), mixed)
  <2>1. Len(mixed) = Len(m) + 1 /\ Extends(mixed, m)  BY <1>2, <1>6, AppendExtends
  <2> DEFINE e == <<"mix", "dek", s>>
  <2>2. mixed \in Seq(Op) /\ e \in Op /\ Keyed(mixed, s) = Append(mixed, e)
    BY <1>6
  <2> HIDE DEF e
  <2>3. Len(Append(mixed, e)) = Len(mixed) + 1 /\ Extends(Append(mixed, e), mixed)
    BY <2>2, AppendExtends
  <2>4. QED  BY <1>3, <2>1, <2>2, <2>3
<1>8. /\ History(m, s, b, << >>)
      /\ <<"mix", "dek", s>>[3] = s
      /\ <<"mix", "header", bytes>>[2] # "dek"
  BY <1>2, <1>3 DEF SessionOK, m, b
<1>9. History(mixed, s, b, << >>)
  <2>1. Len(m) + 1 <= b  BY <1>3, <1>4
  <2>2. QED  BY <1>2, <1>4, <1>6, <1>8, <2>1, HistoryHeader
<1>10. k = n => History(Keyed(mixed, s), s, b, << >>)
  <2>1. k = n => Len(mixed) + 1 <= b  BY <1>3, <1>4, <1>7
  <2>2. QED  BY <1>4, <1>6, <1>8, <1>9, <2>1, HistoryHeader
<1>11. /\ m2 \in Seq(Op) /\ Extends(m2, m) /\ History(m2, s, b, << >>)
       /\ Len(m2) = IF k = n THEN n + 3 ELSE k + 2
  <2>1. Extends(Keyed(mixed, s), m)  BY <1>2, <1>6, <1>7, ExtendsTransitive
  <2>2. CASE k = n  BY <1>3, <1>6, <1>7, <1>10, <2>1, <2>2
  <2>3. CASE k # n  BY <1>3, <1>6, <1>7, <1>9, <2>3
  <2>4. QED  BY <2>2, <2>3
<1>12. SubSeq(m2, 1, k + 1) = m
  <2>1. Len(m) \in 0..Len(m)  BY <1>3
  <2>2. SubSeq(m2, 1, Len(m)) = SubSeq(m, 1, Len(m))
    BY <1>2, <1>11, <2>1, PrefixOfExtension
  <2>3. SubSeq(m, 1, Len(m)) = m
    <3>1. /\ SubSeq(m, 1, Len(m)) \in Seq(Op) /\ Len(SubSeq(m, 1, Len(m))) = Len(m)
          /\ \A q \in 1..Len(m) : SubSeq(m, 1, Len(m))[q] = m[q]
      BY <1>2, <2>1, PrefixElements
    <3>2. QED  BY <1>2, <3>1, SeqEqual
  <2>4. QED  BY <1>3, <2>2, <2>3
<1>13. chunk \in WriteUnit /\ SealedIn(chunk, k, s, m2, receivers[s])
  <2>1. k + 1 <= Len(m2) /\ k <= Len(receivers[s])  BY <1>3, <1>11 DEF n
  <2>2. CASE receivers[s][k] = Fake
    <3>1. chunk = Ciphertext(<< >>, "random", << >>, ENC_HEADER_LEN)
      BY <2>2 DEF EncHeader
    <3>2. QED
      BY <1>5, <3>1 DEF Ciphertext, WriteUnit, CiphertextOf, SealedIn
  <2>3. CASE receivers[s][k] # Fake
    <3> DEFINE ect == SubSeq(bytes, 1, ENC_CT_LEN)
               hp  == HeaderProtocol(m, receivers[s][k], ect)
    <3>1. receivers[s][k] \in Keys  BY <1>2, <1>3, <2>3 DEF n
    <3>2. ect \in Seq(Cell)
      <4>1. Len(bytes) = ENC_HEADER_LEN  BY <1>3, <1>5, CellsType DEF bytes
      <4>2. 1 \in Int /\ ENC_CT_LEN \in Int /\ 1 >= 1 /\ ENC_CT_LEN <= Len(bytes)
        BY <4>1, EncLengthsType, LengthsAssumption
      <4>3. QED  BY <1>5, <4>2, SubSeqType
    <3>3. hp \in Seq(Op)  BY <1>2, <3>1, <3>2, HeaderProtocolType
    <3>4. chunk = Ciphertext(hp, "header", <<s, n>>, ENC_HEADER_LEN)
      BY <2>3 DEF EncHeader, m, n
    <3> HIDE DEF hp, chunk, m2
    <3>5. chunk \in WriteUnit
      BY <1>3, <1>5, <3>3, <3>4 DEF Ciphertext, WriteUnit, CiphertextOf
    <3>6. hp = HeaderProtocol(SubSeq(m2, 1, k + 1), receivers[s][k],
                 SubSeq(Cells(s, k, ENC_HEADER_LEN), 1, ENC_CT_LEN))
      BY <1>12 DEF hp, bytes
    <3>7. /\ chunk.label = "header" /\ chunk.under = hp
          /\ chunk.plain = <<s, Len(receivers[s])>>
      BY <3>4 DEF Ciphertext, n
    <3>8. SealedIn(chunk, k, s, m2, receivers[s])
      BY <2>1, <3>1, <3>6, <3>7 DEF SealedIn
    <3>9. QED  BY <3>5, <3>8
  <2>4. QED  BY <2>2, <2>3
<1> HIDE DEF chunk, m2, pc
<1>14. \A c \in 1..Len(sent'[s]) : SealedIn(sent'[s][c], c, s, m2, receivers[s])
  BY <1>1, <1>11, <1>13, WriteSession DEF k, m
<1>15. HistoryLength(s)'
  <2>1. /\ epc'[s] \in {pc, "WriteIo"} /\ sent'[s] = Append(sent[s], chunk)
    BY <1>1, WriteEffect
  <2>2. Len(sent'[s]) = k
    BY <1>2, <1>13, <2>1, AppendExtends DEF k
  <2>3. /\ Base(s)' = n + 3 /\ blocks'[s] = << >> /\ Len(blocks'[s]) = 0
        /\ message'[s] = m2
    BY <1>1, <1>2, <1>3 DEF Base, n
  <2>4. CASE k = n
    BY <1>3, <1>11, <2>1, <2>2, <2>3, <2>4 DEF HistoryLength, pc
  <2>5. CASE k # n
    BY <1>3, <1>11, <2>1, <2>2, <2>3, <2>5 DEF HistoryLength, pc
  <2>6. QED  BY <2>4, <2>5
<1>16. Base(s)' = b /\ blocks'[s] = << >>  BY <1>1, <1>3 DEF Base, b
<1>17. receivers'[s] = receivers[s] /\ sender' = sender  BY <1>1
<1>18. History(m2, s, Base(s)', blocks'[s])  BY <1>11, <1>16
<1>19. \A c \in 1..Len(sent'[s]) : SealedIn(sent'[s][c], c, s, m2, receivers'[s])
  BY <1>14, <1>17
<1>20. QED  BY <1>2, <1>15, <1>17, <1>18, <1>19, SessionStep

LEMMA ReadBlockSession ==
  ASSUME TypeOK, NEW s \in Sessions, SessionOK(s), ReadBlock(s)
  PROVE  SessionOK(s)'
<1> DEFINE m == message[s]
           bs == blocks[s]
           b == Base(s)
<1>1. /\ UNCHANGED <<sender, receivers, message>> /\ sent' = sent /\ epc[s] = "read"
  BY DEF ReadBlock, wireVars
<1>2. /\ m \in Seq(Op) /\ bs \in Seq(Seq(Byte)) /\ Len(bs) \in Nat
      /\ Len(receivers[s]) \in Nat /\ b \in Nat
      /\ DOMAIN blocks = Sessions /\ DOMAIN epc = Sessions
  BY DEF TypeOK, EncryptTypeOK, Base
<1>3. History(m, s, b, bs) /\ Len(m) = b + 2 * Len(bs)
  BY <1>1 DEF SessionOK, HistoryLength
<1>4. Base(s)' = b /\ message'[s] = m /\ receivers'[s] = receivers[s] /\ sender' = sender
  BY <1>1 DEF Base
<1>5. \A c \in 1..Len(sent'[s]) : SealedIn(sent'[s][c], c, s, m, receivers'[s])
  BY <1>1 DEF SessionOK
<1> HIDE DEF m, bs, b
<1>6. CASE UNCHANGED blocks /\ epc'[s] \in {"padding-header", "ReadIo"}
  <2>1. HistoryLength(s)'
    BY <1>3, <1>4, <1>6 DEF HistoryLength, bs
  <2>2. History(m, s, Base(s)', blocks'[s])  BY <1>3, <1>4, <1>6 DEF bs
  <2>3. QED  BY <1>4, <1>5, <2>1, <2>2, SessionStep
<1>7. ASSUME NEW block \in Seq(Byte), blocks'[s] = Append(bs, block),
             epc'[s] = "block-header"
      PROVE  SessionOK(s)'
  <2>1. Len(blocks'[s]) = Len(bs) + 1  BY <1>2, <1>7, AppendExtends
  <2>2. HistoryLength(s)'
    <3>1. /\ Len(m) = Base(s)' + 2 * Len(blocks'[s]) - 2
          /\ Base(s)' \in Nat /\ Len(blocks'[s]) \in Nat
      BY <1>2, <1>3, <1>4, <2>1
    <3>2. QED  BY <1>4, <1>7, <3>1 DEF HistoryLength
  <2>3. History(m, s, b, Append(bs, block))
    BY <1>2, <1>3, HistoryBlock
  <2>4. History(m, s, Base(s)', blocks'[s])  BY <1>4, <1>7, <2>3
  <2>5. QED  BY <1>4, <1>5, <2>2, <2>4, SessionStep
<1>8. QED
  <2>1. CASE epc' = [epc EXCEPT ![s] = "padding-header"] /\ UNCHANGED blocks
    BY <1>2, <1>6, <2>1
  <2>2. CASE epc' = [epc EXCEPT ![s] = "ReadIo"] /\ UNCHANGED blocks
    BY <1>2, <1>6, <2>2
  <2>3. CASE /\ epc' = [epc EXCEPT ![s] = "block-header"]
             /\ \E block \in Seq(Byte) :
                  blocks' = [blocks EXCEPT ![s] = Append(blocks[s], block)]
    <3>1. PICK block \in Seq(Byte) :
            blocks' = [blocks EXCEPT ![s] = Append(blocks[s], block)]
      BY <2>3
    <3>2. blocks'[s] = Append(bs, block) /\ epc'[s] = "block-header"
      BY <1>2, <2>3, <3>1 DEF bs
    <3>3. QED  BY <1>7, <3>2
  <2>4. QED  BY <2>1, <2>2, <2>3, ReadBlockEffect

\* Sealing: the operation that is due comes into the history, and the chunk is
\* sealed under what precedes it.
LEMMA SealSession ==
  ASSUME TypeOK, NEW s \in Sessions, SessionOK(s), NEW label \in {"block-header", "block"},
         NEW plaintext, NEW len \in Nat, NEW pc, epc[s] # "idle",
         \/ label = "block-header" /\ plaintext \in {"Data", "Padding"} \X Nat
         \/ label = "block" /\ plaintext \in Seq(Byte \union {Noise}),
         SealAndWrite(s, label, plaintext, len, pc),
         History(Append(message[s], <<"seal", label, plaintext>>), s, Base(s), blocks[s]),
         HistoryLength(s)'
  PROVE  SessionOK(s)'
<1> DEFINE m     == message[s]
           e     == <<"seal", label, plaintext>>
           m2    == Append(m, e)
           chunk == Ciphertext(m, label, plaintext, len + TAG_LEN)
<1>1. /\ Write(s, chunk, pc) /\ message' = [message EXCEPT ![s] = m2]
      /\ UNCHANGED <<sender, receivers, blocks>>
  BY DEF SealAndWrite, Sealed
<1>2. /\ m \in Seq(Op) /\ message'[s] = m2 /\ len + TAG_LEN \in Nat
      /\ sent[s] \in Seq(WriteUnit) /\ Len(sent[s]) + 1 \in Nat
  BY <1>1, LengthsAssumption DEF TypeOK, EncryptTypeOK, WireTypeOK
<1>3. e \in Op
  BY DEF Op
<1>4. m2 \in Seq(Op) /\ Len(m2) = Len(m) + 1 /\ m2[Len(m) + 1] = e /\ Extends(m2, m)
  <2> HIDE DEF e, m
  <2>1. QED  BY <1>2, <1>3, AppendExtends
<1>5. chunk \in WriteUnit
  <2> HIDE DEF m
  <2>1. CASE label = "block-header" /\ plaintext \in {"Data", "Padding"} \X Nat
    BY <1>2, <2>1 DEF Ciphertext, WriteUnit, CiphertextOf
  <2>2. CASE label = "block" /\ plaintext \in Seq(Byte \union {Noise})
    BY <1>2, <2>2 DEF Ciphertext, WriteUnit, CiphertextOf
  <2>3. QED  BY <2>1, <2>2
<1>6. /\ chunk.label = label /\ chunk.under = m /\ chunk.plain = plaintext
      /\ label # "header"
  BY DEF Ciphertext
<1> HIDE DEF m, m2, e, chunk
<1>7. m = SubSeq(m2, 1, Len(m))
  <2>1. Len(m) \in 0..Len(m)  BY <1>2
  <2>2. /\ SubSeq(m2, 1, Len(m)) = SubSeq(m, 1, Len(m))
    BY <1>2, <1>4, <2>1, PrefixOfExtension
  <2>3. /\ SubSeq(m, 1, Len(m)) \in Seq(Op) /\ Len(SubSeq(m, 1, Len(m))) = Len(m)
        /\ \A q \in 1..Len(m) : SubSeq(m, 1, Len(m))[q] = m[q]
    BY <1>2, <2>1, PrefixElements
  <2>4. SubSeq(m, 1, Len(m)) = m  BY <1>2, <2>3, SeqEqual
  <2>5. QED  BY <2>2, <2>4
<1>8. SealedIn(chunk, Len(sent[s]) + 1, s, m2, receivers[s])
  <2>1. Len(m) + 1 <= Len(m2)  BY <1>2, <1>4
  <2>2. m2[Len(m) + 1] = <<"seal", label, plaintext>>  BY <1>4 DEF e
  <2>3. QED  BY <1>6, <1>7, <2>1, <2>2 DEF SealedIn
<1>9. \A c \in 1..Len(sent'[s]) : SealedIn(sent'[s][c], c, s, m2, receivers[s])
  BY <1>1, <1>4, <1>5, <1>8, WriteSession DEF m
<1>10. Base(s)' = Base(s) /\ blocks'[s] = blocks[s] /\ sender' = sender
       /\ receivers'[s] = receivers[s]
  BY <1>1 DEF Base
<1>11. History(m2, s, Base(s)', blocks'[s])
  BY <1>10 DEF m2, e, m
<1>12. \A c \in 1..Len(sent'[s]) : SealedIn(sent'[s][c], c, s, m2, receivers'[s])
  BY <1>9, <1>10
<1>13. QED  BY <1>2, <1>10, <1>11, <1>12, SessionStep

\* Where sealing leaves a session.
LEMMA SealEffect ==
  ASSUME TypeOK, NEW s \in Sessions, NEW label, NEW plaintext, NEW len, NEW pc,
         SealAndWrite(s, label, plaintext, len, pc)
  PROVE  /\ epc'[s] \in {pc, "WriteIo"}
         /\ Base(s)' = Base(s) /\ blocks'[s] = blocks[s]
         /\ Base(s) \in Nat /\ Len(blocks[s]) \in Nat /\ blocks[s] \in Seq(Seq(Byte))
         /\ message[s] \in Seq(Op) /\ Len(message[s]) \in Nat
         /\ Len(message'[s]) = Len(message[s]) + 1
<1> DEFINE chunk == Ciphertext(message[s], label, plaintext, len + TAG_LEN)
<1>1. /\ Write(s, chunk, pc)
      /\ message' = [message EXCEPT ![s] = Append(message[s], <<"seal", label, plaintext>>)]
      /\ UNCHANGED <<receivers, blocks>>
  BY DEF SealAndWrite, Sealed
<1>2. epc'[s] \in {pc, "WriteIo"}  BY <1>1, WriteEffect
<1>3. /\ message \in [Sessions -> Seq(Op)] /\ receivers[s] \in Seq(Keys \union {Fake})
      /\ blocks[s] \in Seq(Seq(Byte))
  BY DEF TypeOK, EncryptTypeOK
<1>4. Base(s)' = Base(s) /\ Base(s) \in Nat  BY <1>1, <1>3 DEF Base
<1>5. message'[s] = Append(message[s], <<"seal", label, plaintext>>)  BY <1>1, <1>3
<1>6. Len(message'[s]) = Len(message[s]) + 1  BY <1>3, <1>5
<1>7. QED  BY <1>1, <1>2, <1>3, <1>4, <1>6

\* The four writes of encrypt_message: each seals what is due.
LEMMA SealsSession ==
  ASSUME TypeOK, LoopsOK, NEW s \in Sessions, SessionOK(s),
         \/ WriteBlockHeader(s) \/ WriteBlock(s)
         \/ WritePaddingHeader(s) \/ WritePadding(s)
  PROVE  SessionOK(s)'
<1> DEFINE m  == message[s]
           bs == blocks[s]
           k  == Len(blocks[s])
           b  == Base(s)
<1>1. /\ LEN_LIMIT \in Nat \ {0} /\ BLOCK_HEADER_LEN \in Nat /\ BLOCK_LEN \in Nat
      /\ bs \in Seq(Seq(Byte)) /\ k \in Nat /\ m \in Seq(Op) /\ b \in Nat
      /\ read[s] <= MAX_PLAINTEXT /\ read[s] \in Nat
      /\ PaddingLen[read[s]] \in Nat
  <2>1. /\ plain[s] \in Seq(Byte) /\ Len(plain[s]) <= MAX_PLAINTEXT
        /\ read[s] \in Nat /\ read[s] <= Len(plain[s])
    BY PlaintextsAssumption DEF TypeOK, EncryptTypeOK
  <2>2. read[s] \in 0..MAX_PLAINTEXT  BY <2>1, LengthsAssumption
  <2>3. PaddingLen[read[s]] \in Nat  BY <2>2, PlaintextsAssumption
  <2>4. receivers[s] \in Seq(Keys \union {Fake})  BY DEF TypeOK, EncryptTypeOK
  <2>5. QED
    BY <2>2, <2>3, <2>4, LengthsAssumption DEF TypeOK, EncryptTypeOK, Base
<1>2. \A type \in {"Data", "Padding"}, len \in Nat :
        /\ BlockHeader(type, len) \in {"Data", "Padding"} \X Nat
        /\ BlockHeader(type, len)[1] = type
  BY <1>1 DEF BlockHeader
<1>3. History(m, s, b, bs)  BY DEF SessionOK
<1>4. ASSUME k # 0
      PROVE  Last(bs) = bs[k] /\ Last(bs) \in Seq(Byte) /\ Len(Last(bs)) \in Nat
             /\ Last(bs) \in Seq(Byte \union {Noise})
  <2>1. Last(bs) = bs[k]  BY DEF Last
  <2>2. Last(bs) \in Seq(Byte)  BY <1>1, <1>4, <2>1
  <2>3. QED  BY <2>1, <2>2
\* An operation that is no DEK, at its place.
<1>5. ASSUME NEW e \in Op, e[2] # "dek",
             \/ Len(m) = b + 2 * k - 2 /\ k # 0 /\ e[3][1] = "Data"
             \/ Len(m) = b + 2 * k - 1 /\ k # 0 /\ e[3] = bs[k]
             \/ Len(m) = b + 2 * k /\ e[3][1] = "Padding"
             \/ Len(m) = b + 2 * k + 1
      PROVE  History(Append(m, e), s, b, bs)
  <2> HIDE DEF b, m
  <2>1. \A j \in 1..k : /\ Len(m) + 1 = b + 2 * j - 1 => e[3][1] = "Data"
                        /\ Len(m) + 1 = b + 2 * j => e[3] = bs[j]
    <3>1. SUFFICES ASSUME NEW j \in 1..k
          PROVE  /\ Len(m) + 1 = b + 2 * j - 1 => e[3][1] = "Data"
                 /\ Len(m) + 1 = b + 2 * j => e[3] = bs[j]
      OBVIOUS
    <3>2. j \in Nat /\ j <= k /\ Len(m) \in Nat  BY <1>1
    <3>3. CASE Len(m) = b + 2 * k - 2 /\ k # 0 /\ e[3][1] = "Data"
      BY <1>1, <3>2, <3>3
    <3>4. CASE Len(m) = b + 2 * k - 1 /\ k # 0 /\ e[3] = bs[k]
      <4>1. Len(m) + 1 # b + 2 * j - 1  BY <1>1, <3>2, <3>4
      <4>2. Len(m) + 1 = b + 2 * j => j = k  BY <1>1, <3>2, <3>4
      <4>3. QED  BY <3>4, <4>1, <4>2
    <3>5. CASE Len(m) = b + 2 * k \/ Len(m) = b + 2 * k + 1
      BY <1>1, <3>2, <3>5
    <3>6. QED  BY <1>5, <3>3, <3>4, <3>5
  <2>2. Len(m) + 1 = b + 2 * k + 1 => e[3][1] = "Padding"
    BY <1>1, <1>5
  <2>3. Len(m) + 1 <= b + 2 * k + 2  BY <1>1, <1>5
  <2>4. QED  BY <1>1, <1>3, <1>5, <2>1, <2>2, <2>3, HistoryAppend
<1>6. CASE WriteBlockHeader(s)
  <2> DEFINE h == BlockHeader("Data", Len(Last(bs)))
  <2>1. epc[s] = "block-header" /\ SealAndWrite(s, "block-header", h, BLOCK_HEADER_LEN, "block")
    BY <1>6 DEF WriteBlockHeader
  <2>2. k # 0 /\ Len(m) = b + 2 * k - 2
    BY <1>1, <2>1, EmptySeq DEF LoopsOK, SessionOK, HistoryLength
  <2>3. h \in {"Data", "Padding"} \X Nat /\ h[1] = "Data"  BY <1>2, <1>4, <2>2
  <2> HIDE DEF h
  <2>4. <<"seal", "block-header", h>> \in Op  BY <2>3 DEF Op
  <2>5. History(Append(m, <<"seal", "block-header", h>>), s, b, bs)
    BY <1>5, <2>2, <2>3, <2>4
  <2>6. HistoryLength(s)'
    <3>1. /\ epc'[s] \in {"block", "WriteIo"} /\ Base(s)' = b /\ Len(blocks'[s]) = k
          /\ Len(message'[s]) = Len(m) + 1
      BY <2>1, SealEffect
    <3>2. /\ Len(message'[s]) = Base(s)' + 2 * Len(blocks'[s]) - 1
          /\ Base(s)' \in Nat /\ Len(blocks'[s]) \in Nat
      BY <1>1, <2>2, <3>1
    <3>3. epc'[s] \in {"block", "WriteIo"}  BY <3>1
    <3>4. QED  BY ONLY <3>2, <3>3 DEF HistoryLength
  <2>7. QED  BY <1>1, <2>1, <2>3, <2>5, <2>6, SealSession
<1>7. CASE WriteBlock(s)
  <2> DEFINE block == Last(bs)
             pc == IF Len(block) < BLOCK_LEN THEN "padding-header" ELSE "read"
  <2>1. epc[s] = "block" /\ SealAndWrite(s, "block", block, Len(block), pc)
    BY <1>7 DEF WriteBlock
  <2>2. k # 0 /\ Len(m) = b + 2 * k - 1
    BY <1>1, <2>1, EmptySeq DEF LoopsOK, SessionOK, HistoryLength
  <2>3. block = bs[k] /\ block \in Seq(Byte \union {Noise}) /\ Len(block) \in Nat
    BY <1>4, <2>2
  <2> HIDE DEF block
  <2>4. <<"seal", "block", block>> \in Op  BY <2>3 DEF Op
  <2>5. History(Append(m, <<"seal", "block", block>>), s, b, bs)
    BY <1>5, <2>2, <2>3, <2>4
  <2>6. HistoryLength(s)'
    <3>1. /\ epc'[s] \in {pc, "WriteIo"} /\ Base(s)' = b /\ Len(blocks'[s]) = k
          /\ Len(message'[s]) = Len(m) + 1
      BY <2>1, SealEffect
    <3>2. pc \in {"padding-header", "read"}  OBVIOUS
    <3>3. Len(m) + 1 = b + 2 * k  BY <1>1, <2>2
    <3>4. Len(message'[s]) = Base(s)' + 2 * Len(blocks'[s])  BY <3>1, <3>3
    <3>5. epc'[s] \in {"padding-header", "read", "WriteIo"}  BY <3>1, <3>2
    <3>6. QED  BY ONLY <3>4, <3>5 DEF HistoryLength
  <2>7. QED  BY <1>1, <2>1, <2>3, <2>5, <2>6, SealSession
<1>8. CASE WritePaddingHeader(s)
  <2> DEFINE h == BlockHeader("Padding", PaddingLen[read[s]])
  <2>1. /\ epc[s] = "padding-header"
        /\ SealAndWrite(s, "block-header", h, BLOCK_HEADER_LEN, "padding")
    BY <1>8 DEF WritePaddingHeader
  <2>2. Len(m) = b + 2 * k
    BY <2>1 DEF SessionOK, HistoryLength
  <2>3. h \in {"Data", "Padding"} \X Nat /\ h[1] = "Padding"  BY <1>1, <1>2
  <2> HIDE DEF h
  <2>4. <<"seal", "block-header", h>> \in Op  BY <2>3 DEF Op
  <2>5. History(Append(m, <<"seal", "block-header", h>>), s, b, bs)
    BY <1>5, <2>2, <2>3, <2>4
  <2>6. HistoryLength(s)'
    <3>1. /\ epc'[s] \in {"padding", "WriteIo"} /\ Base(s)' = b /\ Len(blocks'[s]) = k
          /\ Len(message'[s]) = Len(m) + 1
      BY <2>1, SealEffect
    <3>2. Len(m) + 1 = b + 2 * k + 1  BY <1>1, <2>2
    <3>3. Len(message'[s]) = Base(s)' + 2 * Len(blocks'[s]) + 1  BY <3>1, <3>2
    <3>4. epc'[s] \in {"padding", "WriteIo"}  BY <3>1
    <3>5. QED  BY ONLY <3>3, <3>4 DEF HistoryLength
  <2>7. QED  BY <1>1, <2>1, <2>3, <2>5, <2>6, SealSession
<1>9. CASE WritePadding(s)
  <2> DEFINE n == PaddingLen[read[s]]
             block == Random(n)
  <2>1. epc[s] = "padding" /\ SealAndWrite(s, "block", block, n, "sign")
    BY <1>9 DEF WritePadding
  <2>2. Len(m) = b + 2 * k + 1
    BY <2>1 DEF SessionOK, HistoryLength
  <2>3. block \in Seq(Byte \union {Noise}) /\ n \in Nat  BY <1>1, RandomType
  <2> HIDE DEF block, n
  <2>4. <<"seal", "block", block>> \in Op  BY <2>3 DEF Op
  <2>5. History(Append(m, <<"seal", "block", block>>), s, b, bs)
    BY <1>5, <2>2, <2>4
  <2>6. HistoryLength(s)'
    <3>1. /\ epc'[s] \in {"sign", "WriteIo"} /\ Base(s)' = b /\ Len(blocks'[s]) = k
          /\ Len(message'[s]) = Len(m) + 1
      BY <2>1, SealEffect
    <3>2. Len(m) + 1 = b + 2 * k + 2  BY <1>1, <2>2
    <3>3. Len(message'[s]) = Base(s)' + 2 * Len(blocks'[s]) + 2  BY <3>1, <3>2
    <3>4. epc'[s] \in {"sign", "WriteIo"}  BY <3>1
    <3>5. QED  BY ONLY <3>3, <3>4 DEF HistoryLength
  <2>7. QED  BY <1>1, <2>1, <2>3, <2>5, <2>6, SealSession
<1>10. QED  BY <1>6, <1>7, <1>8, <1>9

LEMMA WriteSignatureSession ==
  ASSUME TypeOK, NEW s \in Sessions, SessionOK(s), WriteSignature(s)
  PROVE  SessionOK(s)'
<1> DEFINE m     == message[s]
           chunk == Ciphertext(SignedProtocol(m), "signature", <<sender[s], m>>, SIG_LEN)
<1>1. /\ Write(s, chunk, "Ok") /\ UNCHANGED <<sender, receivers, message, blocks>>
  BY DEF WriteSignature, sign_protocol
<1>2. m \in Seq(Op) /\ sender[s] \in Keys /\ SIG_LEN \in Nat
  BY LengthsAssumption DEF TypeOK, EncryptTypeOK
<1>3. SignedProtocol(m) \in Seq(Op)  BY <1>2, SignedProtocolType
<1> HIDE DEF m
<1>4. chunk \in WriteUnit /\ chunk.label = "signature"
  BY <1>2, <1>3 DEF Ciphertext, WriteUnit, CiphertextOf
<1> HIDE DEF chunk
<1>5. SealedIn(chunk, Len(sent[s]) + 1, s, m, receivers[s])  BY <1>4 DEF SealedIn
<1>6. Extends(m, m)  BY <1>2, ExtendsReflexive
<1>7. \A c \in 1..Len(sent'[s]) : SealedIn(sent'[s][c], c, s, m, receivers[s])
  BY <1>1, <1>2, <1>4, <1>5, <1>6, WriteSession DEF m
<1>8. epc'[s] \in {"Ok", "WriteIo"}  BY <1>1, WriteEffect
<1>9. HistoryLength(s)'  BY <1>8 DEF HistoryLength
<1>10. /\ Base(s)' = Base(s) /\ blocks'[s] = blocks[s] /\ message'[s] = m
       /\ receivers'[s] = receivers[s] /\ sender' = sender
  BY <1>1 DEF Base, m
<1>11. History(m, s, Base(s)', blocks'[s])  BY <1>10 DEF SessionOK, m
<1>12. \A c \in 1..Len(sent'[s]) : SealedIn(sent'[s][c], c, s, m, receivers'[s])
  BY <1>7, <1>10
<1>13. QED  BY <1>9, <1>10, <1>11, <1>12, SessionStep

\* What they seal has the type of its label.
LEMMA SealsAreTyped ==
  ASSUME TypeOK, LoopsOK, NEW s \in Sessions,
         \/ WriteBlockHeader(s) \/ WriteBlock(s)
         \/ WritePaddingHeader(s) \/ WritePadding(s)
  PROVE  \E label \in {"block-header", "block"}, len \in Nat,
            pc \in {"read", "block", "padding-header", "padding", "sign"} :
            \E plaintext :
              /\ \/ label = "block-header" /\ plaintext \in {"Data", "Padding"} \X Nat
                 \/ label = "block" /\ plaintext \in Seq(Byte \union {Noise})
              /\ SealAndWrite(s, label, plaintext, len, pc)
<1> DEFINE padding == PaddingLen[read[s]]
           block   == Last(blocks[s])
<1>1. padding \in Nat
  <2>1. /\ plain[s] \in Seq(Byte) /\ Len(plain[s]) <= MAX_PLAINTEXT
        /\ read[s] \in Nat /\ read[s] <= Len(plain[s])
    BY PlaintextsAssumption DEF TypeOK, EncryptTypeOK
  <2>2. read[s] \in 0..MAX_PLAINTEXT  BY <2>1, LengthsAssumption
  <2>3. QED  BY <2>2, PlaintextsAssumption
<1>2. blocks[s] # << >> => block \in Seq(Byte)
  <2>1. blocks[s] \in Seq(Seq(Byte))  BY DEF TypeOK, EncryptTypeOK
  <2>2. QED  BY <2>1, EmptySeq DEF Last
<1>3. \A type \in {"Data", "Padding"}, len \in Nat :
        BlockHeader(type, len) \in {"Data", "Padding"} \X Nat
  BY LengthsAssumption DEF BlockHeader
<1> HIDE DEF padding, block
<1>4. CASE WriteBlockHeader(s)
  <2> DEFINE h == BlockHeader("Data", Len(block))
  <2>1. blocks[s] # << >>  BY <1>4 DEF WriteBlockHeader, LoopsOK
  <2>2. h \in {"Data", "Padding"} \X Nat  BY <1>2, <1>3, <2>1
  <2>3. SealAndWrite(s, "block-header", h, BLOCK_HEADER_LEN, "block")
    BY <1>4 DEF WriteBlockHeader, block
  <2> HIDE DEF h
  <2>4. QED
    <3> "block-header" \in {"block-header", "block"} /\ BLOCK_HEADER_LEN \in Nat
       /\ "block" \in {"read", "block", "padding-header", "padding", "sign"}
      BY LengthsAssumption
    <3> WITNESS "block-header" \in {"block-header", "block"}, BLOCK_HEADER_LEN \in Nat,
                "block" \in {"read", "block", "padding-header", "padding", "sign"}
    <3> WITNESS h
    <3> QED  BY <2>2, <2>3
<1>5. CASE WriteBlock(s)
  <2>1. blocks[s] # << >>  BY <1>5 DEF WriteBlock, LoopsOK
  <2>2. block \in Seq(Byte \union {Noise})  BY <1>2, <2>1
  <2> DEFINE pc == IF Len(block) < BLOCK_LEN THEN "padding-header" ELSE "read"
  <2>3. SealAndWrite(s, "block", block, Len(block), pc)
    BY <1>5 DEF WriteBlock, block
  <2>4. Len(block) \in Nat  BY <1>2, <2>1
  <2>5. QED
    <3> "block" \in {"block-header", "block"} /\ Len(block) \in Nat
       /\ pc \in {"read", "block", "padding-header", "padding", "sign"}
      BY <2>4, LengthsAssumption
    <3> WITNESS "block" \in {"block-header", "block"}, Len(block) \in Nat,
                pc \in {"read", "block", "padding-header", "padding", "sign"}
    <3> WITNESS block
    <3> QED  BY <2>2, <2>3
<1>6. CASE WritePaddingHeader(s)
  <2> DEFINE h == BlockHeader("Padding", padding)
  <2>1. h \in {"Data", "Padding"} \X Nat  BY <1>1, <1>3
  <2>2. SealAndWrite(s, "block-header", h, BLOCK_HEADER_LEN, "padding")
    BY <1>6 DEF WritePaddingHeader, padding
  <2> HIDE DEF h
  <2>3. QED
    <3> "block-header" \in {"block-header", "block"} /\ BLOCK_HEADER_LEN \in Nat
       /\ "padding" \in {"read", "block", "padding-header", "padding", "sign"}
      BY LengthsAssumption
    <3> WITNESS "block-header" \in {"block-header", "block"}, BLOCK_HEADER_LEN \in Nat,
                "padding" \in {"read", "block", "padding-header", "padding", "sign"}
    <3> WITNESS h
    <3> QED  BY <2>1, <2>2
<1>7. CASE WritePadding(s)
  <2>1. Random(padding) \in Seq(Byte \union {Noise})  BY <1>1, RandomType
  <2>2. SealAndWrite(s, "block", Random(padding), padding, "sign")
    BY <1>7 DEF WritePadding, padding
  <2>3. QED
    <3> "block" \in {"block-header", "block"} /\ padding \in Nat
       /\ "sign" \in {"read", "block", "padding-header", "padding", "sign"}
      BY <1>1, LengthsAssumption
    <3> WITNESS "block" \in {"block-header", "block"}, padding \in Nat,
                "sign" \in {"read", "block", "padding-header", "padding", "sign"}
    <3> WITNESS Random(padding)
    <3> QED  BY <2>1, <2>2
<1>8. QED  BY <1>4, <1>5, <1>6, <1>7

-----------------------------------------------------------------------------
(* The writers, and what decrypt sees of them.                             *)

\* Each step of an encryption leaves its session in a state that its history
\* explains.
LEMMA WriterHistories ==
  ASSUME TypeOK, LoopsOK, EncryptHistories, NEW s \in Sessions, Writer(s)
  PROVE  EncryptHistories'
<1>1. sender' = sender
  BY DEF Writer, EncryptStep, Encrypt, WriteHeader, ReadBlock, WriteBlockHeader,
         WriteBlock, WritePaddingHeader, WritePadding, WriteSignature, SealAndWrite
<1>2. ASSUME NEW t \in Sessions \ {s}, epc'[t] # "idle"
      PROVE  SessionOK(t)'
  <2>1. /\ epc'[t] = epc[t] /\ message'[t] = message[t] /\ receivers'[t] = receivers[t]
        /\ blocks'[t] = blocks[t] /\ sent'[t] = sent[t]
    BY OtherSessions
  <2>2. SessionOK(t)  BY <1>2, <2>1 DEF EncryptHistories, SessionOK
  <2>3. Base(t)' = Base(t)  BY <2>1 DEF Base
  <2>4. HistoryLength(t)'  BY <2>1, <2>2, <2>3 DEF SessionOK, HistoryLength
  <2>5. /\ History(message[t], t, Base(t)', blocks'[t])
        /\ \A c \in 1..Len(sent'[t]) :
             SealedIn(sent'[t][c], c, t, message[t], receivers'[t])
    BY <2>1, <2>2, <2>3 DEF SessionOK
  <2>6. QED  BY <1>1, <2>1, <2>4, <2>5, SessionStep
<1>3. epc[s] # "idle" => SessionOK(s)  BY DEF EncryptHistories, SessionOK
<1>4. SessionOK(s)'
  <2>1. CASE Encrypt(s)  BY <2>1, EncryptSession
  <2>2. CASE WriteHeader(s)
    BY <1>3, <2>2, WriteHeaderSession DEF WriteHeader
  <2>3. CASE ReadBlock(s)  BY <1>3, <2>3, ReadBlockSession DEF ReadBlock
  <2>4. CASE \/ WriteBlockHeader(s) \/ WriteBlock(s)
             \/ WritePaddingHeader(s) \/ WritePadding(s)
    <3>1. epc[s] # "idle"
      BY <2>4 DEF WriteBlockHeader, WriteBlock, WritePaddingHeader, WritePadding
    <3>2. QED  BY <1>3, <2>4, <3>1, SealsSession
  <2>5. CASE WriteSignature(s)
    BY <1>3, <2>5, WriteSignatureSession DEF WriteSignature
  <2>6. QED  BY <2>1, <2>2, <2>3, <2>4, <2>5 DEF Writer, EncryptStep
<1>5. \A t \in Sessions : epc'[t] # "idle" => SessionOK(t)'  BY <1>2, <1>4
<1>6. QED  BY <1>5 DEF EncryptHistories, SessionOK

\* An encryption that has started keeps its receivers; what it has said and what
\* it has read only grow.
LEMMA WriterGrows ==
  ASSUME TypeOK, LoopsOK, NEW s \in Sessions, Writer(s),
         NEW t \in Sessions, epc[t] # "idle"
  PROVE  /\ epc'[t] # "idle" /\ receivers'[t] = receivers[t] /\ sender' = sender
         /\ Extends(message'[t], message[t])
         /\ Extends(blocks'[t], blocks[t])
<1>1. /\ message[t] \in Seq(Op) /\ blocks[t] \in Seq(Seq(Byte))
      /\ message \in [Sessions -> Seq(Op)]
      /\ DOMAIN epc = Sessions /\ DOMAIN blocks = Sessions
      /\ sent[s] \in Seq(WriteUnit) /\ receivers[s] \in Seq(Keys \union {Fake})
  BY DEF TypeOK, EncryptTypeOK, WireTypeOK
<1>2. Extends(message[t], message[t]) /\ Extends(blocks[t], blocks[t])
  BY <1>1, ExtendsReflexive
<1>3. sender' = sender
  BY DEF Writer, EncryptStep, Encrypt, WriteHeader, ReadBlock, WriteBlockHeader,
         WriteBlock, WritePaddingHeader, WritePadding, WriteSignature, SealAndWrite
<1>4. CASE t # s  BY <1>2, <1>3, <1>4, OtherSessions
<1>5. CASE t = s
  <2>1. CASE Encrypt(s)  BY <1>5, <2>1 DEF Encrypt
  <2>2. CASE WriteHeader(s)
    <3> DEFINE m     == message[s]
               bytes == Cells(s, Len(sent[s]) + 1, ENC_HEADER_LEN)
               e     == <<"mix", "header", bytes>>
               d     == <<"mix", "dek", s>>
    <3>1. PICK chunk, pc : /\ pc # "idle" /\ Write(s, chunk, pc)
                           /\ UNCHANGED <<receivers, blocks>>
                           /\ \/ message' = [message EXCEPT ![s] = Append(Append(m, e), d)]
                              \/ message' = [message EXCEPT ![s] = Append(m, e)]
      BY <2>2 DEF WriteHeader, Mix, Keyed
    <3>2. epc'[s] # "idle"  BY <3>1, WriteEffect
    <3>3. bytes \in Seq(Cell)  BY <1>1, CellsType, EncLengthsType
    <3>4. e \in Op /\ d \in Op  BY <3>3 DEF Op
    <3>5. m \in Seq(Op)  BY <1>1
    <3>6. \/ message'[s] = Append(Append(m, e), d)
          \/ message'[s] = Append(m, e)
      BY <1>1, <3>1
    <3> HIDE DEF e, d, m
    <3>7. Append(m, e) \in Seq(Op) /\ Extends(Append(m, e), m)
      BY <3>4, <3>5, AppendExtends
    <3>8. /\ Append(Append(m, e), d) \in Seq(Op)
          /\ Extends(Append(Append(m, e), d), Append(m, e))
      BY <3>4, <3>7, AppendExtends
    <3>9. Extends(Append(Append(m, e), d), m)
      BY <3>5, <3>7, <3>8, ExtendsTransitive
    <3>10. Extends(message'[s], message[s])  BY <3>6, <3>7, <3>9 DEF m
    <3>11. QED  BY <1>2, <1>3, <1>5, <3>1, <3>2, <3>10
  <2>3. CASE ReadBlock(s)
    <3>1. UNCHANGED <<receivers, message>>  BY <2>3 DEF ReadBlock
    <3>2. epc'[s] # "idle"  BY <1>1, <2>3, ReadBlockEffect
    <3>3. blocks' = blocks \/ \E block \in Seq(Byte) : blocks'[s] = Append(blocks[s], block)
      BY <1>1, <2>3, ReadBlockEffect
    <3>4. Extends(blocks'[s], blocks[s])
      <4>1. CASE blocks' = blocks  BY <1>2, <1>5, <4>1
      <4>2. ASSUME NEW block \in Seq(Byte), blocks'[s] = Append(blocks[s], block)
            PROVE  Extends(blocks'[s], blocks[s])
        BY <1>1, <1>5, <4>2, AppendExtends
      <4>3. QED  BY <3>3, <4>1, <4>2
    <3>5. QED  BY <1>2, <1>3, <1>5, <3>1, <3>2, <3>4
  <2>4. ASSUME NEW label, NEW plaintext, NEW len, NEW pc, pc # "idle",
               \/ label = "block-header" /\ plaintext \in {"Data", "Padding"} \X Nat
               \/ label = "block" /\ plaintext \in Seq(Byte \union {Noise}),
               SealAndWrite(s, label, plaintext, len, pc)
        PROVE  /\ epc'[s] # "idle" /\ UNCHANGED <<receivers, blocks>>
               /\ Extends(message'[s], message[s])
    <3> DEFINE e == <<"seal", label, plaintext>>
    <3>1. /\ UNCHANGED <<receivers, blocks>>
          /\ message' = [message EXCEPT ![s] = Append(message[s], e)]
      BY <2>4 DEF SealAndWrite, Sealed
    <3>2. epc'[s] # "idle"  BY <2>4, SealEffect
    <3>3. e \in Op  BY <2>4 DEF Op
    <3>4. message[s] \in Seq(Op) /\ message'[s] = Append(message[s], e)  BY <1>1, <3>1
    <3> HIDE DEF e
    <3>5. Extends(message'[s], message[s])  BY <3>3, <3>4, AppendExtends
    <3>6. QED  BY <3>1, <3>2, <3>5
  <2>5. CASE \/ WriteBlockHeader(s) \/ WriteBlock(s)
             \/ WritePaddingHeader(s) \/ WritePadding(s)
    <3>0. PICK label \in {"block-header", "block"}, len \in Nat,
               pc \in {"read", "block", "padding-header", "padding", "sign"} :
            \E plaintext :
              /\ \/ label = "block-header" /\ plaintext \in {"Data", "Padding"} \X Nat
                 \/ label = "block" /\ plaintext \in Seq(Byte \union {Noise})
              /\ SealAndWrite(s, label, plaintext, len, pc)
      BY <2>5, SealsAreTyped
    <3>1. PICK plaintext :
            /\ \/ label = "block-header" /\ plaintext \in {"Data", "Padding"} \X Nat
               \/ label = "block" /\ plaintext \in Seq(Byte \union {Noise})
            /\ SealAndWrite(s, label, plaintext, len, pc)
      BY <3>0
    <3>2. QED  BY <1>2, <1>3, <1>5, <2>4, <3>1
  <2>6. CASE WriteSignature(s)
    <3>1. UNCHANGED <<receivers, message, blocks>>  BY <2>6 DEF WriteSignature
    <3>2. epc'[s] # "idle"
      BY <2>6, WriteEffect DEF WriteSignature
    <3>3. QED  BY <1>2, <1>3, <1>5, <3>1, <3>2
  <2>7. QED  BY <2>1, <2>2, <2>3, <2>5, <2>6 DEF Writer, EncryptStep
<1>6. QED  BY <1>4, <1>5

-----------------------------------------------------------------------------
(* Blocks and counts.                                                      *)

\* Where the k-th block of session s ends in what was read.
BlockEnd(s, k) == IF k * BLOCK_LEN < read[s] THEN k * BLOCK_LEN ELSE read[s]

\* The blocks read tile what was read: all but the last are full, none is empty,
\* and once one is short the plaintext is at its end.
BlocksRead(s) ==
  LET k == Len(blocks[s])
  IN  /\ read[s] <= k * BLOCK_LEN
      /\ k # 0 => (k - 1) * BLOCK_LEN < read[s]
      /\ read[s] < k * BLOCK_LEN => read[s] = Len(plain[s])
      /\ \A j \in 1..k :
           blocks[s][j] = SubSeq(plain[s], (j - 1) * BLOCK_LEN + 1, BlockEnd(s, j))

\* What encrypt has read at each point of the code: full blocks before each read,
\* a last one that is not empty after it, all of the plaintext after the loop.
BytesRead(s) ==
  LET k == Len(blocks[s])
  IN  /\ epc[s] \in {"idle", "headers"} => read[s] = 0 /\ k = 0
      /\ epc[s] = "read" => read[s] = k * BLOCK_LEN
      /\ epc[s] \in {"block-header", "block"} => k # 0
      /\ epc[s] \in {"padding-header", "padding", "sign", "Ok"} => read[s] = Len(plain[s])

\* The two seals that every block costs.
Seals == ENC_BLOCK_HEADER_LEN + TAG_LEN

\* What encrypt has counted at each point of the code.
BytesCounted(s) ==
  LET k       == Len(blocks[s])
      headers == Len(receivers[s]) * ENC_HEADER_LEN
  IN  /\ epc[s] = "idle" => written[s] = 0
      /\ epc[s] = "headers" => written[s] = Len(sent[s]) * ENC_HEADER_LEN
      /\ epc[s] \in {"read", "padding-header"} => written[s] = headers + k * Seals + read[s]
      /\ epc[s] = "block-header" =>
           written[s] = headers + (k - 1) * Seals + (k - 1) * BLOCK_LEN
      /\ epc[s] = "block" =>
           written[s] = headers + (k - 1) * Seals + (k - 1) * BLOCK_LEN + ENC_BLOCK_HEADER_LEN
      /\ epc[s] = "padding" =>
           written[s] = headers + k * Seals + read[s] + ENC_BLOCK_HEADER_LEN
      /\ epc[s] = "sign" =>
           written[s] = headers + (k + 1) * Seals + read[s] + PaddingLen[read[s]]
      /\ epc[s] = "Ok" => written[s] = CiphertextLength(s)

\* The inductive invariant, with TypeOK and LoopsOK.
TallyOf(s) == BlocksRead(s) /\ BytesRead(s) /\ BytesCounted(s)

Tally == \A s \in Sessions : TallyOf(s)

-----------------------------------------------------------------------------
LEMMA ProductMonotone ==
  ASSUME NEW j \in Int, NEW k \in Int, NEW n \in Nat, j <= k
  PROVE  j * n <= k * n /\ (k - 1) * n = k * n - n /\ (k + 1) * n = k * n + n
<1>1. (k - j) * n >= 0  OBVIOUS
<1>2. (k - j) * n = k * n - j * n  OBVIOUS
<1>3. j * n \in Int /\ k * n \in Int  OBVIOUS
<1>4. QED  BY <1>1, <1>2, <1>3

\* The types of what a session counts with.
LEMMA CountTypes ==
  ASSUME TypeOK, NEW s \in Sessions
  PROVE  /\ read[s] \in Nat /\ written[s] \in Nat /\ read[s] <= Len(plain[s])
         /\ plain[s] \in Seq(Byte) /\ Len(plain[s]) \in Nat
         /\ blocks[s] \in Seq(Seq(Byte)) /\ Len(blocks[s]) \in Nat
         /\ Len(receivers[s]) \in Nat /\ sent[s] \in Seq(WriteUnit) /\ Len(sent[s]) \in Nat
         /\ PaddingLen[read[s]] \in Nat
         /\ BLOCK_LEN \in Nat \ {0} /\ TAG_LEN \in Nat \ {0} /\ SIG_LEN \in Nat
         /\ ENC_HEADER_LEN \in Nat \ {0} /\ ENC_BLOCK_HEADER_LEN \in Nat \ {0} /\ Seals \in Nat
<1>1. /\ read[s] \in Nat /\ written[s] \in Nat /\ read[s] <= Len(plain[s])
      /\ plain[s] \in Seq(Byte) /\ plain[s] \in Plaintexts[s]
      /\ blocks[s] \in Seq(Seq(Byte)) /\ receivers[s] \in Seq(Keys \union {Fake})
      /\ sent[s] \in Seq(WriteUnit)
  BY DEF TypeOK, EncryptTypeOK, WireTypeOK
<1>2. Len(plain[s]) <= MAX_PLAINTEXT /\ MAX_PLAINTEXT \in Nat
  BY <1>1, PlaintextsAssumption, LengthsAssumption
<1>3. PaddingLen[read[s]] \in Nat  BY <1>1, <1>2, PlaintextsAssumption
<1>4. /\ BLOCK_LEN \in Nat \ {0} /\ TAG_LEN \in Nat \ {0} /\ SIG_LEN \in Nat
      /\ ENC_HEADER_LEN \in Nat \ {0} /\ ENC_BLOCK_HEADER_LEN \in Nat \ {0} /\ Seals \in Nat
  BY LengthsAssumption, EncLengthsType DEF Seals
<1>5. QED  BY <1>1, <1>3, <1>4

\* The length of a block, and that it is not empty.
LEMMA BlockLengths ==
  ASSUME TypeOK, NEW s \in Sessions, BlocksRead(s), NEW j \in 1..Len(blocks[s])
  PROVE  /\ Len(blocks[s][j]) = BlockEnd(s, j) - (j - 1) * BLOCK_LEN
         /\ Len(blocks[s][j]) > 0
         /\ BlockEnd(s, j) \in Nat
         /\ j < Len(blocks[s]) => BlockEnd(s, j) = j * BLOCK_LEN
         /\ j = Len(blocks[s]) => BlockEnd(s, j) = read[s]
<1> DEFINE k == Len(blocks[s])
           B == BLOCK_LEN
           r == read[s]
           a == (j - 1) * B
           e == BlockEnd(s, j)
<1>1. /\ r \in Nat /\ r <= Len(plain[s]) /\ Len(plain[s]) \in Nat /\ plain[s] \in Seq(Byte)
      /\ k \in Nat /\ B \in Nat \ {0}
  BY CountTypes
<1>2. /\ r <= k * B /\ (k - 1) * B < r
      /\ blocks[s][j] = SubSeq(plain[s], a + 1, e)
      /\ e = IF j * B < r THEN j * B ELSE r
  <2>1. k # 0  BY <1>1
  <2>2. QED  BY <2>1 DEF BlocksRead, BlockEnd
<1> HIDE DEF k, B, r, a, e
<1>3. j \in Int /\ j >= 1 /\ j <= k  BY DEF k
<1>4. a <= (k - 1) * B /\ a = j * B - B /\ j * B \in Nat /\ a \in Nat
  <2>1. j - 1 \in Int /\ k - 1 \in Int /\ j - 1 <= k - 1  BY <1>1, <1>3
  <2>2. (j - 1) * B <= (k - 1) * B  BY <1>1, <2>1, ProductMonotone
  <2>3. (j - 1) * B = j * B - B  BY <1>1, <1>3, ProductMonotone
  <2>4. j * B \in Nat /\ (j - 1) * B \in Nat
    <3>1. j \in Nat /\ j - 1 \in Nat  BY <1>3
    <3>2. QED  BY <1>1, <3>1
  <2>5. QED  BY <2>2, <2>3, <2>4 DEF a
<1>5. j < k => j * B <= (k - 1) * B
  <2>1. j < k => j <= k - 1 /\ k - 1 \in Int  BY <1>1, <1>3
  <2>2. QED  BY <1>1, <1>3, <2>1, ProductMonotone
<1>6. (k - 1) * B \in Int /\ k * B \in Int  BY <1>1
<1>7. e \in Nat /\ a < e /\ e <= r  BY <1>1, <1>2, <1>4, <1>6
<1>8. Len(SubSeq(plain[s], a + 1, e)) = e - a
  <2>1. a + 1 \in Int /\ e \in Int /\ a + 1 >= 1 /\ e <= Len(plain[s]) /\ a + 1 <= e
    BY <1>1, <1>4, <1>7
  <2>2. Len(SubSeq(plain[s], a + 1, e)) = e - (a + 1) + 1  BY <1>1, <2>1, SubSeqType
  <2>3. QED  BY <1>4, <1>7, <2>2
<1>9. ASSUME j < k  PROVE e = j * B
  <2>1. j * B <= (k - 1) * B  BY <1>5, <1>9
  <2> DEFINE P == (k - 1) * B
             J == j * B
  <2>2. J <= P /\ P < r /\ P \in Int /\ J \in Int /\ r \in Int
    BY <1>1, <1>2, <1>4, <1>6, <2>1
  <2> HIDE DEF P, J
  <2>3. J < r  BY <2>2
  <2>4. QED  BY <1>2, <2>3 DEF J
<1>10. j = k => e = r  BY <1>1, <1>2, <1>4
<1>11. QED  BY <1>2, <1>4, <1>7, <1>8, <1>9, <1>10 DEF k, B, r, a, e

-----------------------------------------------------------------------------
(* The steps of an encryption.                                             *)

LEMMA BlocksReadKept ==
  ASSUME NEW s \in Sessions, BlocksRead(s), read'[s] = read[s], blocks'[s] = blocks[s],
         plain'[s] = plain[s]
  PROVE  BlocksRead(s)'
BY DEF BlocksRead, BlockEnd

\* A session that moves nothing but itself.
LEMMA OtherTally ==
  ASSUME TypeOK, Tally, NEW s \in Sessions, Writer(s), NEW t \in Sessions \ {s}
  PROVE  TallyOf(t)'
<1>1. /\ epc'[t] = epc[t] /\ receivers'[t] = receivers[t] /\ blocks'[t] = blocks[t]
      /\ sent'[t] = sent[t]
  BY OtherSessions
<1>2. plain' = plain
  BY DEF Writer, EncryptStep, Encrypt, WriteHeader, ReadBlock, WriteBlockHeader,
         WriteBlock, WritePaddingHeader, WritePadding, WriteSignature, SealAndWrite
<1>3. DOMAIN read = Sessions /\ DOMAIN written = Sessions
  BY DEF TypeOK, EncryptTypeOK
<1>4. read'[t] = read[t]
  <2>1. CASE ReadBlock(s)  BY <1>3, <2>1 DEF ReadBlock
  <2>2. CASE ~ReadBlock(s)
    BY <2>2 DEF Writer, EncryptStep, Encrypt, WriteHeader, WriteBlockHeader, WriteBlock,
                WritePaddingHeader, WritePadding, WriteSignature, SealAndWrite
  <2>3. QED  BY <2>1, <2>2
<1>5. written'[t] = written[t]
  <2>1. CASE Encrypt(s) \/ ReadBlock(s)  BY <2>1 DEF Encrypt, ReadBlock
  <2>2. ASSUME NEW chunk, NEW pc, Write(s, chunk, pc)
        PROVE  written'[t] = written[t]
    BY <1>3, <2>2 DEF Write
  <2>3. QED
    BY <2>1, <2>2 DEF Writer, EncryptStep, WriteHeader, WriteBlockHeader, WriteBlock,
                      WritePaddingHeader, WritePadding, WriteSignature, SealAndWrite
<1>6. TallyOf(t)  BY DEF Tally
<1>7. BlocksRead(t)'  BY <1>1, <1>2, <1>4, <1>6, BlocksReadKept DEF TallyOf
<1>8. BytesRead(t)'  BY <1>1, <1>2, <1>4, <1>6 DEF TallyOf, BytesRead
<1>9. BytesCounted(t)'
  BY <1>1, <1>2, <1>4, <1>5, <1>6 DEF TallyOf, BytesCounted, CiphertextLength
<1>10. QED  BY <1>7, <1>8, <1>9 DEF TallyOf

\* A write either moves its session on and counts the chunk, or ends it.
LEMMA WriteCounts ==
  ASSUME TypeOK, NEW s \in Sessions, NEW chunk, NEW pc, Write(s, chunk, pc)
  PROVE  \/ /\ epc'[s] = pc /\ written'[s] = written[s] + chunk.n
            /\ Len(sent'[s]) = Len(sent[s]) + 1
         \/ epc'[s] = "WriteIo"
<1>1. /\ DOMAIN epc = Sessions /\ DOMAIN written = Sessions
      /\ sent[s] \in Seq(WriteUnit)
  BY DEF TypeOK, EncryptTypeOK, WireTypeOK
<1>2. sent'[s] = Append(sent[s], chunk)  BY WriteEffect
<1>3. Len(sent'[s]) = Len(sent[s]) + 1  BY <1>1, <1>2
<1>4. QED  BY <1>1, <1>3 DEF Write

\* What is left to show of a session that read nothing.
LEMMA WriteTally ==
  ASSUME TypeOK, NEW s \in Sessions, TallyOf(s), UNCHANGED <<receivers, plain, read, blocks>>,
         epc'[s] # "WriteIo" => BytesRead(s)' /\ BytesCounted(s)'
  PROVE  TallyOf(s)'
<1>1. BlocksRead(s)'  BY BlocksReadKept DEF TallyOf
<1>2. epc'[s] = "WriteIo" => BytesRead(s)' /\ BytesCounted(s)'
  BY DEF BytesRead, BytesCounted
<1>3. QED  BY <1>1, <1>2 DEF TallyOf

LEMMA EncryptTally ==
  ASSUME TypeOK, LoopsOK, NEW s \in Sessions, TallyOf(s), Encrypt(s)
  PROVE  TallyOf(s)'
<1>1. PICK shuffled \in Seq(Keys \union {Fake}) :
        /\ receivers' = [receivers EXCEPT ![s] = shuffled]
        /\ epc' = [epc EXCEPT ![s] = IF shuffled = << >> THEN "read" ELSE "headers"]
  BY EncryptEffect
<1>2. /\ epc[s] = "idle" /\ UNCHANGED <<plain, read, blocks, written>> /\ sent' = sent
      /\ DOMAIN epc = Sessions /\ DOMAIN receivers = Sessions
  BY DEF Encrypt, wireVars, TypeOK, EncryptTypeOK
<1>3. /\ epc'[s] = IF shuffled = << >> THEN "read" ELSE "headers"
      /\ receivers'[s] = shuffled /\ sent[s] = << >>
  BY <1>1, <1>2 DEF LoopsOK
<1>4. /\ read'[s] = 0 /\ Len(blocks'[s]) = 0 /\ written'[s] = 0 /\ Len(sent'[s]) = 0
      /\ shuffled = << >> => Len(receivers'[s]) = 0
  BY <1>2, <1>3 DEF TallyOf, BytesRead, BytesCounted
<1>5. /\ 0 * BLOCK_LEN = 0 /\ 0 * ENC_HEADER_LEN = 0 /\ 0 * Seals = 0
  BY CountTypes
<1>6. BlocksRead(s)'  BY <1>2, BlocksReadKept DEF TallyOf
<1>7. BytesRead(s)'  BY <1>3, <1>4, <1>5 DEF BytesRead
<1>8. BytesCounted(s)'  BY <1>3, <1>4, <1>5 DEF BytesCounted
<1>9. QED  BY <1>6, <1>7, <1>8 DEF TallyOf

LEMMA WriteHeaderTally ==
  ASSUME TypeOK, LoopsOK, NEW s \in Sessions, TallyOf(s), WriteHeader(s)
  PROVE  TallyOf(s)'
<1> DEFINE k  == Len(sent[s]) + 1
           pc == IF k = Len(receivers[s]) THEN "read" ELSE "headers"
           chunk == EncHeader(s, receivers[s][k], Cells(s, k, ENC_HEADER_LEN))
<1>1. /\ epc[s] = "headers" /\ Write(s, chunk, pc)
      /\ UNCHANGED <<receivers, plain, read, blocks>>
  BY DEF WriteHeader
<1>2. chunk.n = ENC_HEADER_LEN  BY DEF EncHeader, Ciphertext
<1> HIDE DEF chunk
<1>3. \/ /\ epc'[s] = pc /\ written'[s] = written[s] + ENC_HEADER_LEN
         /\ Len(sent'[s]) = k
      \/ epc'[s] = "WriteIo"
  BY <1>1, <1>2, WriteCounts
<1>4. /\ read[s] = 0 /\ Len(blocks[s]) = 0 /\ written[s] = Len(sent[s]) * ENC_HEADER_LEN
  BY <1>1 DEF TallyOf, BytesRead, BytesCounted
<1>5. /\ 0 * BLOCK_LEN = 0 /\ 0 * Seals = 0
      /\ k * ENC_HEADER_LEN = Len(sent[s]) * ENC_HEADER_LEN + ENC_HEADER_LEN
      /\ k * ENC_HEADER_LEN \in Nat
  <2>1. /\ Len(sent[s]) \in Nat /\ ENC_HEADER_LEN \in Nat /\ Seals \in Nat /\ BLOCK_LEN \in Nat
    BY CountTypes
  <2>2. (Len(sent[s]) + 1) * ENC_HEADER_LEN = Len(sent[s]) * ENC_HEADER_LEN + ENC_HEADER_LEN
    BY <2>1, ProductMonotone
  <2>3. QED  BY <2>1, <2>2
<1>6. ASSUME epc'[s] # "WriteIo"
      PROVE  BytesRead(s)' /\ BytesCounted(s)'
  <2>1. /\ epc'[s] = pc /\ written'[s] = k * ENC_HEADER_LEN /\ Len(sent'[s]) = k
        /\ read'[s] = 0 /\ Len(blocks'[s]) = 0 /\ Len(receivers'[s]) = Len(receivers[s])
    BY <1>1, <1>3, <1>4, <1>5, <1>6
  <2>2. BytesRead(s)'  BY <1>5, <2>1 DEF BytesRead
  <2>3. BytesCounted(s)'
    BY <1>5, <2>1 DEF BytesCounted
  <2>4. QED  BY <2>2, <2>3
<1>7. QED  BY <1>1, <1>6, WriteTally

\* The next block: BLOCK_LEN bytes, or what is left, or nothing.
LEMMA ReadBlockTally ==
  ASSUME TypeOK, NEW s \in Sessions, TallyOf(s), ReadBlock(s)
  PROVE  TallyOf(s)'
<1> DEFINE B == BLOCK_LEN
           k == Len(blocks[s])
           r == read[s]
           n == Taken(Len(plain[s]) - r)
           block == SubSeq(plain[s], r + 1, r + n)
           kB == k * B
           kS == k * Seals
           h == Len(receivers[s]) * ENC_HEADER_LEN
<1>1. /\ epc[s] = "read" /\ UNCHANGED <<receivers, plain, written>> /\ sent' = sent
      /\ DOMAIN epc = Sessions /\ DOMAIN read = Sessions /\ DOMAIN blocks = Sessions
  BY DEF ReadBlock, wireVars, TypeOK, EncryptTypeOK
<1>2. \/ /\ epc'[s] = "ReadIo" /\ UNCHANGED <<read, blocks>>
      \/ /\ n = 0 /\ epc'[s] = "padding-header" /\ UNCHANGED blocks /\ read'[s] = r + n
      \/ /\ n # 0 /\ epc'[s] = "block-header" /\ read'[s] = r + n
         /\ blocks'[s] = Append(blocks[s], block)
  BY <1>1 DEF ReadBlock
<1>3. /\ r \in Nat /\ r <= Len(plain[s]) /\ Len(plain[s]) \in Nat /\ k \in Nat
      /\ B \in Nat \ {0} /\ blocks[s] \in Seq(Seq(Byte)) /\ plain[s] \in Seq(Byte)
      /\ Seals \in Nat /\ Len(receivers[s]) \in Nat /\ ENC_HEADER_LEN \in Nat
  BY CountTypes
<1>4. r = kB /\ written[s] = h + kS + r
  BY <1>1 DEF TallyOf, BytesRead, BytesCounted
<1>5. /\ (k + 1) * B = kB + B /\ kB \in Nat /\ kS \in Nat /\ h \in Nat
      /\ (k + 1 - 1) * B = kB /\ (k + 1 - 1) * Seals = kS
  <2>1. (k + 1) * B = k * B + B  BY <1>3, ProductMonotone
  <2>2. k + 1 - 1 = k  BY <1>3
  <2>3. QED  BY <1>3, <2>1, <2>2
<1>6. /\ n \in Nat /\ n <= B /\ r + n <= Len(plain[s])
      /\ n < B => r + n = Len(plain[s])
  BY <1>3 DEF Taken
<1>7. CASE epc'[s] = "ReadIo" /\ UNCHANGED <<read, blocks>>
  <2>1. BlocksRead(s)'  BY <1>1, <1>7, BlocksReadKept DEF TallyOf
  <2>2. BytesRead(s)' /\ BytesCounted(s)'  BY <1>7 DEF BytesRead, BytesCounted
  <2>3. QED  BY <2>1, <2>2 DEF TallyOf
<1>8. CASE n = 0 /\ epc'[s] = "padding-header" /\ UNCHANGED blocks /\ read'[s] = r + n
  <2>1. read'[s] = r /\ r = Len(plain[s])  BY <1>3, <1>6, <1>8
  <2>2. BlocksRead(s)'  BY <1>1, <1>8, <2>1, BlocksReadKept DEF TallyOf
  <2>3. BytesRead(s)'  BY <1>1, <1>8, <2>1 DEF BytesRead
  <2>4. BytesCounted(s)'  BY <1>1, <1>4, <1>8, <2>1 DEF BytesCounted
  <2>5. QED  BY <2>2, <2>3, <2>4 DEF TallyOf
<1>9. CASE n # 0 /\ epc'[s] = "block-header" /\ read'[s] = r + n
           /\ blocks'[s] = Append(blocks[s], block)
  <2>1. block \in Seq(Byte)
    <3>1. r + 1 \in Int /\ r + n \in Int /\ r + 1 >= 1  BY <1>3, <1>6
    <3>2. QED  BY <1>3, <1>6, <3>1, SubSeqType
  <2>2. /\ Len(blocks'[s]) = k + 1 /\ blocks'[s][k + 1] = block
        /\ \A j \in 1..k : blocks'[s][j] = blocks[s][j]
    <3>1. blocks[s] \in Seq(Seq(Byte)) /\ blocks'[s] = Append(blocks[s], block)
      BY <1>3, <1>9
    <3> HIDE DEF block
    <3>2. QED  BY <2>1, <3>1, AppendExtends DEF Extends
  <2>3. /\ read'[s] <= kB + B /\ kB < read'[s]
        /\ read'[s] < kB + B => read'[s] = Len(plain[s])
        /\ read'[s] \in Nat
    <3> HIDE DEF n, kB
    <3>1. QED  BY <1>3, <1>4, <1>5, <1>6, <1>9
  <2>4. ASSUME NEW j \in 1..(k + 1)
        PROVE  blocks'[s][j] = SubSeq(plain[s], (j - 1) * B + 1, BlockEnd(s, j)')
    <3>1. BlockEnd(s, j)' = IF j * B < read'[s] THEN j * B ELSE read'[s]
      BY DEF BlockEnd
    <3>2. CASE j = k + 1
      <4>1. j * B = kB + B /\ (j - 1) * B = kB  BY <1>5, <3>2
      <4> HIDE DEF kB, block
      <4>2. BlockEnd(s, j)' = read'[s]  BY <1>3, <1>5, <2>3, <3>1, <4>1
      <4>3. (j - 1) * B + 1 = r + 1 /\ BlockEnd(s, j)' = r + n  BY <1>4, <1>9, <4>1, <4>2
      <4>4. QED  BY <2>2, <3>2, <4>3 DEF block
    <3>3. CASE j \in 1..k
      <4> DEFINE jB == j * B
      <4>1. jB <= kB /\ jB \in Nat
        <5>1. j \in Int /\ j <= k /\ j \in Nat  BY <1>3, <3>3
        <5>2. k \in Int /\ B \in Nat  BY <1>3
        <5> HIDE DEF k, B
        <5>3. j * B <= k * B /\ j * B \in Nat  BY <5>1, <5>2, ProductMonotone
        <5>4. QED  BY <5>3
      <4> HIDE DEF kB
      <4>2. blocks[s][j] = SubSeq(plain[s], (j - 1) * B + 1, BlockEnd(s, j))
        BY <3>3 DEF TallyOf, BlocksRead
      <4>3. BlockEnd(s, j) = IF jB < r THEN jB ELSE r  BY DEF BlockEnd
      <4>4. BlockEnd(s, j)' = IF jB < read'[s] THEN jB ELSE read'[s]  BY <3>1
      <4> HIDE DEF jB, r, B
      <4>5. BlockEnd(s, j) = jB  BY <1>3, <1>4, <1>5, <4>1, <4>3
      <4>6. BlockEnd(s, j)' = jB  BY <1>5, <2>3, <4>1, <4>4
      <4>7. QED  BY <2>2, <3>3, <4>2, <4>5, <4>6
    <3>4. j = k + 1 \/ j \in 1..k
      <4>1. k \in Nat  BY <1>3
      <4> HIDE DEF k
      <4>2. QED  BY <4>1
    <3>5. QED  BY <3>2, <3>3, <3>4
  <2>5. BlocksRead(s)'
    BY <1>1, <1>5, <2>2, <2>3, <2>4 DEF BlocksRead
  <2>6. BytesRead(s)'
    <3>1. Len(blocks'[s]) # 0  BY <1>3, <2>2
    <3>2. QED  BY <1>9, <3>1 DEF BytesRead
  <2>7. BytesCounted(s)'
    <3>1. written'[s] = h + kS + kB  BY <1>1, <1>4
    <3>2. Len(receivers'[s]) * ENC_HEADER_LEN = h  BY <1>1
    <3>3. /\ (Len(blocks'[s]) - 1) * Seals = kS /\ (Len(blocks'[s]) - 1) * BLOCK_LEN = kB
      BY <1>5, <2>2
    <3>4. QED  BY <1>9, <3>1, <3>2, <3>3 DEF BytesCounted
  <2>8. QED  BY <2>5, <2>6, <2>7 DEF TallyOf
<1>10. QED  BY <1>2, <1>7, <1>8, <1>9

\* A seal costs its bytes and a tag.
LEMMA SealCounts ==
  ASSUME TypeOK, NEW s \in Sessions, NEW label, NEW plaintext, NEW len \in Nat, NEW pc,
         SealAndWrite(s, label, plaintext, len, pc)
  PROVE  /\ UNCHANGED <<receivers, plain, read, blocks>>
         /\ \/ epc'[s] = pc /\ written'[s] = written[s] + (len + TAG_LEN)
            \/ epc'[s] = "WriteIo"
<1> DEFINE chunk == Ciphertext(message[s], label, plaintext, len + TAG_LEN)
<1>1. Write(s, chunk, pc) /\ chunk.n = len + TAG_LEN
      /\ UNCHANGED <<receivers, plain, read, blocks>>
  BY DEF SealAndWrite, Ciphertext
<1> HIDE DEF chunk
<1>2. QED  BY <1>1, WriteCounts

LEMMA SealsTally ==
  ASSUME TypeOK, LoopsOK, NEW s \in Sessions, TallyOf(s),
         \/ WriteBlockHeader(s) \/ WriteBlock(s)
         \/ WritePaddingHeader(s) \/ WritePadding(s)
  PROVE  TallyOf(s)'
<1> DEFINE k == Len(blocks[s])
           r == read[s]
           w == written[s]
           h == Len(receivers[s]) * ENC_HEADER_LEN
           kS == k * Seals
           kB == k * BLOCK_LEN
           p == PaddingLen[r]
           block == Last(blocks[s])
<1>1. /\ r \in Nat /\ w \in Nat /\ k \in Nat /\ h \in Nat /\ kS \in Nat /\ kB \in Nat
      /\ p \in Nat /\ BLOCK_LEN \in Nat \ {0} /\ Seals \in Nat /\ TAG_LEN \in Nat
      /\ BLOCK_HEADER_LEN \in Nat /\ ENC_BLOCK_HEADER_LEN = BLOCK_HEADER_LEN + TAG_LEN
      /\ Seals = ENC_BLOCK_HEADER_LEN + TAG_LEN
  <2>1. /\ r \in Nat /\ w \in Nat /\ k \in Nat /\ p \in Nat
        /\ Len(receivers[s]) \in Nat /\ ENC_HEADER_LEN \in Nat /\ Seals \in Nat
    BY CountTypes
  <2>2. BLOCK_LEN \in Nat \ {0} /\ TAG_LEN \in Nat /\ BLOCK_HEADER_LEN \in Nat
    BY LengthsAssumption
  <2>3. h \in Nat /\ kS \in Nat /\ kB \in Nat  BY <2>1, <2>2
  <2>4. QED  BY <2>1, <2>2, <2>3 DEF Seals, ENC_BLOCK_HEADER_LEN
<1>2. /\ (k - 1) * Seals = kS - Seals /\ (k - 1) * BLOCK_LEN = kB - BLOCK_LEN
      /\ (k + 1) * Seals = kS + Seals
  <2>1. k \in Int /\ k <= k  BY <1>1
  <2>2. (k - 1) * Seals = k * Seals - Seals /\ (k + 1) * Seals = k * Seals + Seals
    BY <1>1, <2>1, ProductMonotone
  <2>3. (k - 1) * BLOCK_LEN = k * BLOCK_LEN - BLOCK_LEN  BY <1>1, <2>1, ProductMonotone
  <2>4. QED  BY <2>2, <2>3
<1> HIDE DEF h, kS, kB, w, r, p
<1>3. UNCHANGED <<receivers, plain, read, blocks>>
  BY DEF WriteBlockHeader, WriteBlock, WritePaddingHeader, WritePadding, SealAndWrite
<1>4. /\ Len(blocks'[s]) = k /\ read'[s] = r /\ PaddingLen[read'[s]] = p
      /\ Len(receivers'[s]) * ENC_HEADER_LEN = h /\ plain'[s] = plain[s]
  BY <1>3 DEF r, p, h
<1>5. CASE WriteBlockHeader(s)
  <2>1. epc[s] = "block-header" /\ k # 0 /\ w = h + (kS - Seals) + (kB - BLOCK_LEN)
    BY <1>2, <1>5 DEF WriteBlockHeader, TallyOf, BytesRead, BytesCounted, h, w
  <2>2. \/ epc'[s] = "block" /\ written'[s] = w + ENC_BLOCK_HEADER_LEN
        \/ epc'[s] = "WriteIo"
    BY <1>1, <1>5, SealCounts DEF WriteBlockHeader, w
  <2>3. ASSUME epc'[s] # "WriteIo" PROVE BytesRead(s)' /\ BytesCounted(s)'
    <3>1. BytesRead(s)'  BY <1>4, <2>1, <2>2, <2>3 DEF BytesRead
    <3>2. written'[s] = h + (k - 1) * Seals + (k - 1) * BLOCK_LEN + ENC_BLOCK_HEADER_LEN
      BY <1>1, <1>2, <2>1, <2>2, <2>3
    <3>3. BytesCounted(s)'  BY <1>4, <2>2, <2>3, <3>2 DEF BytesCounted
    <3>4. QED  BY <3>1, <3>3
  <2>4. QED  BY <1>3, <2>3, WriteTally
<1>6. CASE WriteBlock(s)
  <2> DEFINE pc == IF Len(block) < BLOCK_LEN THEN "padding-header" ELSE "read"
             l  == Len(block)
  <2>1. /\ epc[s] = "block" /\ k # 0
        /\ w = h + (kS - Seals) + (kB - BLOCK_LEN) + ENC_BLOCK_HEADER_LEN
    BY <1>2, <1>6 DEF WriteBlock, TallyOf, BytesRead, BytesCounted, h, w
  <2>2. l = r - (kB - BLOCK_LEN) /\ l \in Nat
    <3>1. k \in 1..k /\ block = blocks[s][k]  BY <1>1, <2>1 DEF Last
    <3>2. /\ Len(blocks[s][k]) = BlockEnd(s, k) - (k - 1) * BLOCK_LEN
          /\ Len(blocks[s][k]) > 0 /\ BlockEnd(s, k) = read[s]
      BY <3>1, BlockLengths DEF TallyOf
    <3>3. l = r - (kB - BLOCK_LEN) /\ l > 0  BY <1>2, <3>1, <3>2 DEF r
    <3> HIDE DEF l
    <3>4. QED  BY <1>1, <3>3
  <2>3. \/ epc'[s] = pc /\ written'[s] = w + (l + TAG_LEN)
        \/ epc'[s] = "WriteIo"
    <3>1. SealAndWrite(s, "block", block, l, pc)  BY <1>6 DEF WriteBlock
    <3> HIDE DEF pc, l, block
    <3>2. QED  BY <2>2, <3>1, SealCounts DEF w
  <2>4. r <= kB /\ (r < kB => r = Len(plain[s]))
    BY DEF TallyOf, BlocksRead, r, kB
  <2> HIDE DEF l
  <2>5. ASSUME epc'[s] # "WriteIo" PROVE BytesRead(s)' /\ BytesCounted(s)'
    <3>1. written'[s] = h + kS + r  BY <1>1, <2>1, <2>2, <2>3, <2>5
    <3>2. BytesCounted(s)'
      BY <1>4, <2>3, <2>5, <3>1 DEF BytesCounted, h, kS
    <3>3. CASE l < BLOCK_LEN
      <4>1. r = Len(plain[s])  BY <1>1, <2>2, <2>4, <3>3
      <4>2. epc'[s] = "padding-header"  BY <2>3, <2>5, <3>3 DEF l
      <4>3. QED  BY <1>4, <3>2, <4>1, <4>2 DEF BytesRead
    <3>4. CASE ~(l < BLOCK_LEN)
      <4>1. r = kB  BY <1>1, <2>2, <2>4, <3>4
      <4>2. epc'[s] = "read"  BY <2>3, <2>5, <3>4 DEF l
      <4>3. QED  BY <1>4, <3>2, <4>1, <4>2 DEF BytesRead, kB
    <3>5. QED  BY <3>3, <3>4
  <2>6. QED  BY <1>3, <2>5, WriteTally
<1>7. CASE WritePaddingHeader(s)
  <2>1. epc[s] = "padding-header" /\ r = Len(plain[s]) /\ w = h + kS + r
    BY <1>7 DEF WritePaddingHeader, TallyOf, BytesRead, BytesCounted, h, w, kS, r
  <2>2. \/ epc'[s] = "padding" /\ written'[s] = w + ENC_BLOCK_HEADER_LEN
        \/ epc'[s] = "WriteIo"
    BY <1>1, <1>7, SealCounts DEF WritePaddingHeader, w
  <2>3. ASSUME epc'[s] # "WriteIo" PROVE BytesRead(s)' /\ BytesCounted(s)'
    <3>1. BytesRead(s)'  BY <1>4, <2>1, <2>2, <2>3 DEF BytesRead
    <3>2. BytesCounted(s)'
      BY <1>4, <2>1, <2>2, <2>3 DEF BytesCounted, kS
    <3>3. QED  BY <3>1, <3>2
  <2>4. QED  BY <1>3, <2>3, WriteTally
<1>8. CASE WritePadding(s)
  <2>1. /\ epc[s] = "padding" /\ r = Len(plain[s])
        /\ w = h + kS + r + ENC_BLOCK_HEADER_LEN
    BY <1>8 DEF WritePadding, TallyOf, BytesRead, BytesCounted, h, w, kS, r
  <2>2. \/ epc'[s] = "sign" /\ written'[s] = w + (p + TAG_LEN)
        \/ epc'[s] = "WriteIo"
    BY <1>1, <1>8, SealCounts DEF WritePadding, w, p, r
  <2>3. ASSUME epc'[s] # "WriteIo" PROVE BytesRead(s)' /\ BytesCounted(s)'
    <3>1. BytesRead(s)'  BY <1>4, <2>1, <2>2, <2>3 DEF BytesRead
    <3>2. written'[s] = h + (k + 1) * Seals + r + p
      <4>1. written'[s] = h + (kS + Seals) + r + p
        <5>1. written'[s] = w + (p + TAG_LEN)  BY <2>2, <2>3
        <5>2. Seals = ENC_BLOCK_HEADER_LEN + TAG_LEN /\ ENC_BLOCK_HEADER_LEN \in Nat
          BY <1>1
        <5>3. /\ h \in Nat /\ kS \in Nat /\ r \in Nat /\ p \in Nat /\ TAG_LEN \in Nat
              /\ w = h + kS + r + ENC_BLOCK_HEADER_LEN
          BY <1>1, <2>1
        <5> HIDE DEF h, kS, r, p, w, k
        <5>4. QED  BY <5>1, <5>2, <5>3
      <4>2. QED  BY <1>2, <4>1
    <3>3. BytesCounted(s)'
      BY <1>4, <2>2, <2>3, <3>2 DEF BytesCounted
    <3>4. QED  BY <3>1, <3>3
  <2>4. QED  BY <1>3, <2>3, WriteTally
<1>9. QED  BY <1>5, <1>6, <1>7, <1>8

LEMMA WriteSignatureTally ==
  ASSUME TypeOK, NEW s \in Sessions, TallyOf(s), WriteSignature(s)
  PROVE  TallyOf(s)'
<1> DEFINE chunk == sign_protocol(message[s], sender[s])
           h == Len(receivers[s]) * ENC_HEADER_LEN
           kS == (Len(blocks[s]) + 1) * Seals
<1>1. /\ epc[s] = "sign" /\ Write(s, chunk, "Ok") /\ chunk.n = SIG_LEN
      /\ UNCHANGED <<receivers, plain, read, blocks>>
  BY DEF WriteSignature, sign_protocol, Ciphertext
<1> HIDE DEF chunk
<1>2. \/ epc'[s] = "Ok" /\ written'[s] = written[s] + SIG_LEN
      \/ epc'[s] = "WriteIo"
  BY <1>1, WriteCounts
<1>3. read[s] = Len(plain[s]) /\ written[s] = h + kS + read[s] + PaddingLen[read[s]]
  BY <1>1 DEF TallyOf, BytesRead, BytesCounted
<1>4. ASSUME epc'[s] # "WriteIo" PROVE BytesRead(s)' /\ BytesCounted(s)'
  <2>1. epc'[s] = "Ok" /\ read'[s] = Len(plain'[s])  BY <1>1, <1>2, <1>3, <1>4
  <2>2. BytesRead(s)'  BY <2>1 DEF BytesRead
  <2>3. CiphertextLength(s)' = h + kS + Len(plain[s]) + PaddingLen[Len(plain[s])] + SIG_LEN
    BY <1>1 DEF CiphertextLength, Seals
  <2>4. BytesCounted(s)'  BY <1>2, <1>3, <1>4, <2>1, <2>3 DEF BytesCounted
  <2>5. QED  BY <2>2, <2>4
<1>5. QED  BY <1>1, <1>4, WriteTally

-----------------------------------------------------------------------------
LEMMA TallyInit == Init => Tally
<1> SUFFICES ASSUME Init, NEW s \in Sessions PROVE TallyOf(s)
  BY DEF Tally
<1>1. epc[s] = "idle" /\ read[s] = 0 /\ Len(blocks[s]) = 0 /\ written[s] = 0
  BY DEF Init, EncryptInit
<1>2. 0 * BLOCK_LEN = 0  BY LengthsAssumption
<1>3. QED  BY <1>1, <1>2 DEF TallyOf, BlocksRead, BytesRead, BytesCounted

\* Tally is kept by every step: by those of its session as the code does the sums,
\* by all others because they touch nothing it speaks of.
LEMMA TallyInductive ==
  ASSUME TypeOK, LoopsOK, Tally, [Next]_vars
  PROVE  Tally'
<1>1. ASSUME NEW s \in Sessions, Writer(s)
      PROVE  Tally'
  <2>1. TallyOf(s)  BY DEF Tally
  <2>2. TallyOf(s)'
    BY <1>1, <2>1, EncryptTally, WriteHeaderTally, ReadBlockTally, SealsTally,
       WriteSignatureTally DEF Writer, EncryptStep
  <2>3. QED  BY <1>1, <2>2, OtherTally DEF Tally
<1>2. CASE UNCHANGED <<encryptVars, sent>>
  BY <1>2 DEF Tally, TallyOf, BlocksRead, BlockEnd, BytesRead, BytesCounted,
              CiphertextLength, encryptVars
<1>3. CASE DecryptStep \/ Environment \/ UNCHANGED vars
  BY <1>2, <1>3 DEF DecryptStep, DecryptHeader, DecryptBlockHeader, DecryptBlock,
                    ReadSignature, Environment, Damage, vars, wireVars
<1>4. QED  BY <1>1, <1>3 DEF Next

LEMMA TallyCorrect == Spec => [](TypeOK /\ LoopsOK /\ Tally)
<1>1. Init => TypeOK /\ LoopsOK /\ Tally
  BY InitType, TallyInit DEF Init, EncryptInit, WireInit, LoopsOK
<1>2. TypeOK /\ LoopsOK /\ Tally /\ [Next]_vars => (TypeOK /\ LoopsOK /\ Tally)'
  BY TypesInductive, TallyInductive
<1>3. QED  BY <1>1, <1>2, PTL DEF Spec

\* Whatever an encryption reads and whenever it fails: its blocks are its plaintext
\* as far as it was read, in order, without a gap, and none of them empty.
THEOREM TilesCorrect == Spec => []BlocksTileThePlaintext
<1>1. TypeOK /\ Tally => BlocksTileThePlaintext
  <2> SUFFICES ASSUME TypeOK, Tally, NEW s \in Sessions
               PROVE  /\ \A k \in 1..Len(blocks[s]) :
                           /\ blocks[s][k] = SubSeq(plain[s], (k - 1) * BLOCK_LEN + 1,
                                   IF k * BLOCK_LEN < read[s] THEN k * BLOCK_LEN ELSE read[s])
                           /\ blocks[s][k] # << >>
                      /\ Len(blocks[s]) * BLOCK_LEN >= read[s]
                      /\ epc[s] \in {"padding-header", "padding", "sign", "Ok"}
                           => read[s] = Len(plain[s])
    BY DEF BlocksTileThePlaintext
  <2>1. BlocksRead(s) /\ BytesRead(s)  BY DEF Tally, TallyOf
  <2>2. ASSUME NEW k \in 1..Len(blocks[s]) PROVE blocks[s][k] # << >>
    <3>1. Len(blocks[s][k]) > 0  BY <2>1, BlockLengths
    <3>2. QED  BY <3>1
  <2>3. Len(blocks[s]) * BLOCK_LEN >= read[s]
    <3> DEFINE kB == Len(blocks[s]) * BLOCK_LEN
    <3>1. kB \in Nat /\ read[s] \in Nat  BY CountTypes
    <3>2. read[s] <= kB  BY <2>1 DEF BlocksRead
    <3> HIDE DEF kB
    <3>3. kB >= read[s]  BY <3>1, <3>2
    <3>4. QED  BY <3>3 DEF kB
  <2>4. QED  BY <2>1, <2>2, <2>3 DEF BlocksRead, BytesRead, BlockEnd
<1>2. QED  BY TallyCorrect, <1>1, PTL

\* The number encrypt returns is the length of the message it wrote, for any list of
\* receivers and any length of plaintext.
THEOREM CountsCorrect == Spec => []EncryptCountsItsBytes
<1>1. Tally => EncryptCountsItsBytes
  BY DEF Tally, TallyOf, BytesCounted, EncryptCountsItsBytes
<1>2. QED  BY TallyCorrect, <1>1, PTL

\* What is kept of decrypt, apart from the histories of the encryptions.
ReaderOK == HeadersLockstep /\ BlocksLockstep /\ ReleasedLockstep

-----------------------------------------------------------------------------
(* Steps that are not decrypt's.                                           *)

LEMMA WriterReader ==
  ASSUME TypeOK, LoopsOK, ReaderOK, NEW s \in Sessions, Writer(s)
  PROVE  ReaderOK'
<1>1. UNCHANGED decryptVars  BY DEF Writer
<1>2. /\ dek' = dek /\ dpc' = dpc /\ dmsg' = dmsg /\ i' = i /\ recvCount' = recvCount
      /\ claimed' = claimed /\ receiver' = receiver /\ out' = out /\ torn' = torn
      /\ hdr' = hdr
  BY <1>1 DEF decryptVars
<1>3. CASE dek = NoDek
  BY <1>2, <1>3 DEF ReaderOK, HeadersLockstep, BlocksLockstep, ReleasedLockstep
<1>4. CASE dek # NoDek
  <2>1. dek \in Sessions /\ epc[dek] # "idle"
    BY <1>4 DEF TypeOK, DecryptTypeOK, ReaderOK, HeadersLockstep
  <2>2. /\ epc'[dek] # "idle" /\ receivers'[dek] = receivers[dek] /\ sender' = sender
        /\ Extends(message'[dek], message[dek]) /\ Extends(blocks'[dek], blocks[dek])
    BY <2>1, WriterGrows
  <2>3. HeadersLockstep'
    BY <1>2, <1>4, <2>2 DEF ReaderOK, HeadersLockstep, Addressed
  <2>4. TypeOK'  BY WriterType
  <2>5. /\ dmsg \in Seq(Op) /\ message[dek] \in Seq(Op) /\ message'[dek] \in Seq(Op)
        /\ Len(out) \in Nat /\ blocks[dek] \in Seq(Seq(Byte))
        /\ blocks'[dek] \in Seq(Seq(Byte))
    BY <2>1, <2>4 DEF TypeOK, EncryptTypeOK, DecryptTypeOK
  <2>6. BlocksLockstep'
    <3>1. Base(dek)' = Base(dek)  BY <1>2, <2>2 DEF Base
    <3>2. ASSUME Len(dmsg) <= Len(message[dek])
          PROVE  /\ Len(dmsg) <= Len(message'[dek])
                 /\ SubSeq(message'[dek], 1, Len(dmsg)) = SubSeq(message[dek], 1, Len(dmsg))
      <4>1. Len(dmsg) \in 0..Len(message[dek])  BY <2>5, <3>2
      <4>2. Len(dmsg) <= Len(message'[dek])  BY <2>2, <2>5, <3>2 DEF Extends
      <4>3. QED  BY <2>2, <2>5, <4>1, <4>2, PrefixOfExtension
    <3>3. QED  BY <1>2, <3>1, <3>2 DEF ReaderOK, BlocksLockstep
  <2>7. ReleasedLockstep'
    <3>1. /\ Len(out) <= Len(blocks[dek]) /\ \A k \in 1..Len(out) : out[k] = blocks[dek][k]
          /\ torn # << >> => /\ dpc = "WriteIo"
                             /\ Len(out) < Len(blocks[dek])
                             /\ IsPrefix(torn, blocks[dek][Len(out) + 1])
          /\ dpc = "headers" => out = << >> /\ torn = << >>
      BY <1>4 DEF ReaderOK, ReleasedLockstep
    <3>2. /\ Len(blocks[dek]) <= Len(blocks'[dek]) /\ Len(blocks[dek]) \in Nat
          /\ Len(blocks'[dek]) \in Nat
          /\ \A k \in 1..Len(blocks[dek]) : blocks'[dek][k] = blocks[dek][k]
      BY <2>2, <2>5 DEF Extends
    <3>3. /\ Len(out) <= Len(blocks'[dek])
          /\ \A k \in 1..Len(out) : out[k] = blocks'[dek][k]
      BY <2>5, <3>1, <3>2
    <3>4. ASSUME torn # << >>
          PROVE  Len(out) < Len(blocks'[dek]) /\ IsPrefix(torn, blocks'[dek][Len(out) + 1])
      <4>1. Len(out) + 1 \in 1..Len(blocks[dek])  BY <2>5, <3>1, <3>2, <3>4
      <4>2. blocks'[dek][Len(out) + 1] = blocks[dek][Len(out) + 1]  BY <3>2, <4>1
      <4>3. Len(out) < Len(blocks'[dek])  BY <2>5, <3>2, <4>1
      <4>4. QED  BY <3>1, <3>4, <4>2, <4>3
    <3>5. QED  BY <1>2, <1>4, <3>1, <3>3, <3>4 DEF ReleasedLockstep
  <2>8. QED  BY <2>3, <2>6, <2>7 DEF ReaderOK
<1>5. QED  BY <1>3, <1>4

\* A return with an error, or after the signature.
LEMMA EndReader ==
  ASSUME ReaderOK, dpc \in {"headers", "block-header", "block", "sig"},
         dpc' \in DecryptEnded, UNCHANGED encryptVars,
         dpc = "headers" => dpc' = "InvalidCiphertext" \/ (IoErrors /\ dpc' = "ReadIo"),
         UNCHANGED <<claimed, receiver, dmsg, i, recvCount, dek, hdr, out, torn>>
  PROVE  ReaderOK'
<1>1. dpc' \notin {"headers", "block-header", "block", "sig"}  BY DEF DecryptEnded
<1>2. torn = << >>  BY DEF ReaderOK, ReleasedLockstep
<1>3. HeadersLockstep'
  BY <1>1 DEF ReaderOK, HeadersLockstep, Addressed, encryptVars
<1>4. BlocksLockstep'  BY <1>1 DEF BlocksLockstep
<1>5. ReleasedLockstep'
  BY <1>1, <1>2 DEF ReaderOK, ReleasedLockstep, encryptVars
<1>6. QED  BY <1>3, <1>4, <1>5 DEF ReaderOK

-----------------------------------------------------------------------------
(* The headers.                                                            *)

\* Appending is one to one.
LEMMA AppendOneToOne ==
  ASSUME NEW S, NEW p \in Seq(S), NEW q \in Seq(S), NEW e \in S, NEW f \in S,
         Append(p, e) = Append(q, f)
  PROVE  p = q /\ e = f
<1>1. /\ Len(Append(p, e)) = Len(p) + 1 /\ Append(p, e)[Len(p) + 1] = e
      /\ \A k \in 1..Len(p) : Append(p, e)[k] = p[k]
  BY AppendExtends DEF Extends
<1>2. /\ Len(Append(q, f)) = Len(q) + 1 /\ Append(q, f)[Len(q) + 1] = f
      /\ \A k \in 1..Len(q) : Append(q, f)[k] = q[k]
  BY AppendExtends DEF Extends
<1>3. Len(p) = Len(q)  BY <1>1, <1>2
<1>4. \A k \in 1..Len(p) : p[k] = q[k]  BY <1>1, <1>2, <1>3
<1>5. p = q  BY <1>3, <1>4, SeqEqual
<1>6. QED  BY <1>1, <1>2, <1>3, <1>5

LEMMA HeaderProtocolOneToOne ==
  ASSUME NEW p \in Seq(Op), NEW q \in Seq(Op), NEW j \in Keys, NEW k \in Keys,
         NEW x \in Seq(Cell), NEW y \in Seq(Cell),
         HeaderProtocol(p, j, x) = HeaderProtocol(q, k, y)
  PROVE  p = q /\ j = k
<1> DEFINE r(l) == <<"mix", "receiver", l>>
           t(z) == <<"mix", "ml-kem-768-ect", z>>
           u(l, z) == <<"mix", "ml-kem-768-ss", <<l, z>>>>
           p1 == Append(p, r(j))
           q1 == Append(q, r(k))
           p2 == Append(p1, t(x))
           q2 == Append(q1, t(y))
<1>1. /\ r(j) \in Op /\ r(k) \in Op /\ t(x) \in Op /\ t(y) \in Op
      /\ u(j, x) \in Op /\ u(k, y) \in Op
  BY DEF Op
<1>2. Append(p2, u(j, x)) = Append(q2, u(k, y))  BY DEF HeaderProtocol, Mix
<1>3. r(j) = r(k) => j = k  OBVIOUS
<1> HIDE DEF r, t, u
<1>4. p1 \in Seq(Op) /\ q1 \in Seq(Op)  BY <1>1, AppendExtends
<1> HIDE DEF p1, q1
<1>5. p2 \in Seq(Op) /\ q2 \in Seq(Op)  BY <1>1, <1>4, AppendExtends
<1> HIDE DEF p2, q2
<1>6. p2 = q2  BY <1>1, <1>2, <1>5, AppendOneToOne
<1>7. p1 = q1  BY <1>1, <1>4, <1>6, AppendOneToOne DEF p2, q2
<1>8. p = q /\ r(j) = r(k)  BY <1>1, <1>7, AppendOneToOne DEF p1, q1
<1>9. QED  BY <1>3, <1>8

\* What decrypt reads intact was sealed by a session that has started.
LEMMA ChunkSealed ==
  ASSUME TypeOK, LoopsOK, EncryptHistories, NEW bytes \in Seq(Cell), Intact(bytes)
  PROVE  LET s == bytes[1].from
             c == bytes[1].chunk
         IN  /\ s \in Sessions /\ c \in Nat \ {0} /\ epc[s] # "idle"
             /\ SealedIn(Chunk(bytes), c, s, message[s], receivers[s])
             /\ History(message[s], s, Base(s), blocks[s])
             /\ Chunk(bytes) \in WriteUnit
<1> DEFINE s == bytes[1].from
           c == bytes[1].chunk
<1>1. s \in Sessions /\ c \in 1..Len(sent[s]) /\ Chunk(bytes) \in WriteUnit
  BY ChunkType
<1>2. sent[s] \in Seq(WriteUnit)  BY <1>1 DEF TypeOK, WireTypeOK
<1>3. sent[s] # << >> /\ c \in Nat \ {0}  BY <1>1, <1>2
<1>4. epc[s] # "idle"  BY <1>1, <1>3 DEF LoopsOK
<1>5. /\ SealedIn(sent[s][c], c, s, message[s], receivers[s])
      /\ History(message[s], s, Base(s), blocks[s])
  BY <1>1, <1>4 DEF EncryptHistories
<1>6. QED  BY <1>1, <1>3, <1>4, <1>5 DEF Chunk

\* A header that opens was sealed for the receiver, by the claimed sender, at the
\* same place in the list; and it tells how long the list is.
LEMMA HeaderOpensAddressed ==
  ASSUME TypeOK, LoopsOK, EncryptHistories, ReaderOK, dpc = "headers",
         NEW bytes \in Seq(Cell), Len(bytes) = ENC_HEADER_LEN, HeaderOpens(dmsg, bytes)
  PROVE  LET s == Chunk(bytes).plain[1]
             n == Chunk(bytes).plain[2]
         IN  /\ s \in Sessions /\ epc[s] # "idle" /\ Addressed(s)
             /\ n = Len(receivers[s]) /\ n \in Nat /\ i < n
<1> DEFINE u == Chunk(bytes)
           s == bytes[1].from
           c == bytes[1].chunk
           ect == SubSeq(bytes, 1, ENC_CT_LEN)
           ect2 == SubSeq(Cells(s, c, ENC_HEADER_LEN), 1, ENC_CT_LEN)
           m == message[s]
           list == receivers[s]
<1>1. /\ Intact(bytes) /\ u.label = "header"
      /\ u.under = HeaderProtocol(dmsg, receiver, ect)
  BY DEF HeaderOpens, Opens
<1>2. /\ s \in Sessions /\ c \in Nat \ {0} /\ epc[s] # "idle"
      /\ SealedIn(u, c, s, m, list) /\ History(m, s, Base(s), blocks[s])
  BY <1>1, ChunkSealed
<1>3. /\ c <= Len(list) /\ list[c] \in Keys /\ c + 1 <= Len(m)
      /\ u.under = HeaderProtocol(SubSeq(m, 1, c + 1), list[c], ect2)
      /\ u.plain = <<s, Len(list)>>
  BY <1>1, <1>2 DEF SealedIn
<1>4. /\ m \in Seq(Op) /\ list \in Seq(Keys \union {Fake}) /\ dmsg \in Seq(Op)
      /\ receiver \in Keys /\ i \in Nat /\ Len(list) \in Nat
  <2> HIDE DEF u, s, c, ect, ect2
  <2>1. s \in Sessions  BY <1>2
  <2>2. m \in Seq(Op) /\ list \in Seq(Keys \union {Fake})
    BY <2>1 DEF TypeOK, EncryptTypeOK
  <2>3. dmsg \in Seq(Op) /\ receiver \in Keys /\ i \in Nat
    BY DEF TypeOK, DecryptTypeOK
  <2>4. QED  BY <2>2, <2>3
<1>5. ect \in Seq(Cell)
  <2>1. 1 \in Int /\ ENC_CT_LEN \in Int /\ 1 >= 1 /\ ENC_CT_LEN <= Len(bytes)
    BY EncLengthsType, LengthsAssumption
  <2>2. QED  BY <2>1, SubSeqType
<1>6. ect2 \in Seq(Cell)
  <2>1. Cells(s, c, ENC_HEADER_LEN) \in Seq(Cell) /\ Len(Cells(s, c, ENC_HEADER_LEN)) = ENC_HEADER_LEN
    BY <1>2, EncLengthsType, CellsType
  <2>2. 1 \in Int /\ ENC_CT_LEN \in Int /\ 1 >= 1
        /\ ENC_CT_LEN <= Len(Cells(s, c, ENC_HEADER_LEN))
    BY <2>1, EncLengthsType, LengthsAssumption
  <2>3. QED  BY <2>1, <2>2, SubSeqType
<1> HIDE DEF u, s, c, ect, ect2, m, list
<1>7. c + 1 \in 0..Len(m)  BY <1>2, <1>3, <1>4
<1>8. /\ SubSeq(m, 1, c + 1) \in Seq(Op) /\ Len(SubSeq(m, 1, c + 1)) = c + 1
      /\ \A q \in 1..(c + 1) : SubSeq(m, 1, c + 1)[q] = m[q]
  BY <1>4, <1>7, PrefixElements
<1>9. dmsg = SubSeq(m, 1, c + 1) /\ receiver = list[c]
  <2> DEFINE q == SubSeq(m, 1, c + 1)
  <2>1. q \in Seq(Op) /\ list[c] \in Keys  BY <1>3, <1>8
  <2>2. HeaderProtocol(dmsg, receiver, ect) = HeaderProtocol(q, list[c], ect2)
    BY <1>1, <1>3
  <2> HIDE DEF q
  <2>3. dmsg = q /\ receiver = list[c]
    BY <1>4, <1>5, <1>6, <2>1, <2>2, HeaderProtocolOneToOne
  <2>4. QED  BY <2>3 DEF q
<1>10. i < Len(list)
  <2>1. Len(dmsg) = i + 2  BY DEF ReaderOK, HeadersLockstep
  <2>2. QED  BY <1>2, <1>3, <1>4, <1>8, <1>9, <2>1
<1>11. Addressed(s)
  <2>1. dmsg[2] = m[2]  BY <1>2, <1>8, <1>9
  <2>2. dmsg[2] = <<"mix", "sender", claimed>>  BY DEF ReaderOK, HeadersLockstep
  <2>3. m[2] = <<"mix", "sender", sender[s]>>  BY <1>2 DEF History
  <2>4. sender[s] = claimed
    <3>1. \A x, y : <<"mix", "sender", x>> = <<"mix", "sender", y>> => x = y  OBVIOUS
    <3>2. QED  BY <2>1, <2>2, <2>3, <3>1
  <2>5. c \in DOMAIN list  BY <1>2, <1>3, <1>4
  <2>6. receiver \in Range(list)  BY <1>9, <2>5 DEF Range
  <2>7. QED  BY <2>4, <2>6 DEF Addressed, list
<1>12. Chunk(bytes).plain[1] = s /\ Chunk(bytes).plain[2] = Len(list)
  BY <1>3 DEF u
<1>13. QED  BY <1>2, <1>4, <1>10, <1>11, <1>12 DEF list

\* A round of the loop, with the DEK and the count it knows of after it.
LEMMA HeadersStepReader ==
  ASSUME TypeOK, ReaderOK, dpc = "headers", NEW bytes \in Seq(Cell),
         NEW d \in Sessions \union {NoDek}, NEW count \in Nat,
         d # NoDek => /\ epc[d] # "idle" /\ Addressed(d)
                      /\ count = Len(receivers[d]) /\ i < count,
         HeadersStep(Mix(dmsg, "header", bytes), d, count),
         UNCHANGED <<claimed, receiver, hdr, out, torn>>, UNCHANGED encryptVars
  PROVE  ReaderOK'
<1> DEFINE more  == i + 1 < count
           mixed == Mix(dmsg, "header", bytes)
           e     == <<"mix", "header", bytes>>
           f     == <<"mix", "dek", d>>
<1>1. /\ i' = i + 1 /\ dek' = d /\ recvCount' = count
      /\ dmsg' = IF more \/ d = NoDek THEN mixed ELSE Keyed(mixed, d)
      /\ dpc' = IF more THEN "headers"
                ELSE IF d = NoDek THEN "InvalidCiphertext" ELSE "block-header"
  BY DEF HeadersStep
<1>2. /\ dmsg \in Seq(Op) /\ i \in Nat /\ Len(dmsg) = i + 2
      /\ dmsg[2] = <<"mix", "sender", claimed>>
  BY DEF TypeOK, DecryptTypeOK, ReaderOK, HeadersLockstep
<1>3. /\ mixed = Append(dmsg, e) /\ Keyed(mixed, d) = Append(Append(dmsg, e), f)
      /\ e \in Op
      /\ d # NoDek => f \in Op
  BY DEF Mix, Keyed, Op
<1>4. /\ out = << >> /\ torn = << >> /\ out' = << >> /\ torn' = << >>
  BY DEF ReaderOK, ReleasedLockstep
<1> HIDE DEF more, mixed, e, f
<1>5. /\ mixed \in Seq(Op) /\ Len(mixed) = i + 3 /\ mixed[2] = dmsg[2]
  <2>1. /\ Append(dmsg, e) \in Seq(Op) /\ Len(Append(dmsg, e)) = Len(dmsg) + 1
        /\ Extends(Append(dmsg, e), dmsg)
    BY <1>2, <1>3, AppendExtends
  <2>2. 2 \in 1..Len(dmsg)  BY <1>2
  <2>3. Append(dmsg, e)[2] = dmsg[2]  BY <2>1, <2>2 DEF Extends
  <2>4. QED  BY <1>2, <1>3, <2>1, <2>3
<1>6. d # NoDek => /\ Len(Keyed(mixed, d)) = i + 4 /\ Keyed(mixed, d)[2] = dmsg[2]
                   /\ Keyed(mixed, d)[i + 4] = <<"mix", "dek", d>>
  <2>1. SUFFICES ASSUME d # NoDek
        PROVE  /\ Len(Keyed(mixed, d)) = i + 4 /\ Keyed(mixed, d)[2] = dmsg[2]
               /\ Keyed(mixed, d)[i + 4] = <<"mix", "dek", d>>
    OBVIOUS
  <2>2. f \in Op /\ Keyed(mixed, d) = Append(mixed, f)  BY <1>3, <2>1
  <2>3. /\ Len(Append(mixed, f)) = Len(mixed) + 1 /\ Extends(Append(mixed, f), mixed)
        /\ Append(mixed, f)[Len(mixed) + 1] = f
    BY <1>5, <2>2, AppendExtends
  <2>4. 2 \in 1..Len(mixed)  BY <1>2, <1>5
  <2>5. Append(mixed, f)[2] = mixed[2]  BY <2>3, <2>4 DEF Extends
  <2>6. QED  BY <1>2, <1>5, <2>2, <2>3, <2>5 DEF f
<1>7. d # NoDek => /\ epc'[d] # "idle" /\ Addressed(d)' /\ count = Len(receivers'[d])
                   /\ Base(d)' = count + 3 /\ d \in Sessions
  BY DEF Addressed, Base, encryptVars
<1>8. HeadersLockstep'
  <2>1. CASE d = NoDek
    BY <1>1, <1>2, <1>5, <2>1 DEF HeadersLockstep
  <2>2. CASE d # NoDek /\ more
    BY <1>1, <1>2, <1>5, <1>7, <2>2 DEF HeadersLockstep, more
  <2>3. CASE d # NoDek /\ ~more
    BY <1>1, <1>2, <1>6, <1>7, <2>3 DEF HeadersLockstep
  <2>4. QED  BY <2>1, <2>2, <2>3
<1>9. BlocksLockstep'
  <2>1. CASE d = NoDek \/ more
    BY <1>1, <2>1 DEF BlocksLockstep
  <2>2. CASE d # NoDek /\ ~more
    <3>1. i + 1 = count  BY <1>2, <2>2 DEF more
    <3>2. /\ dpc' = "block-header" /\ dek' = d /\ dmsg' = Keyed(mixed, d)
          /\ Len(out') = 0
      BY <1>1, <1>4, <2>2
    <3>3. Len(dmsg') = Base(d)' /\ Base(d)' = i + 4 /\ Base(d)' \in Nat
      BY <1>2, <1>6, <1>7, <2>2, <3>1, <3>2
    <3>4. dmsg'[Base(d)'] = <<"mix", "dek", d>>
      BY <1>6, <2>2, <3>2, <3>3
    <3>5. QED  BY <3>2, <3>3, <3>4 DEF BlocksLockstep
  <2>3. QED  BY <2>1, <2>2
<1>10. ReleasedLockstep'
  <2>1. d # NoDek => Len(blocks'[d]) \in Nat
    BY DEF TypeOK, EncryptTypeOK, encryptVars
  <2>2. QED  BY <1>1, <1>4, <2>1 DEF ReleasedLockstep
<1>11. QED  BY <1>8, <1>9, <1>10 DEF ReaderOK

LEMMA DecryptHeaderReader ==
  ASSUME TypeOK, LoopsOK, EncryptHistories, ReaderOK, DecryptHeader
  PROVE  ReaderOK'
<1>1. dpc = "headers" /\ UNCHANGED encryptVars  BY DEF DecryptHeader
<1>2. CASE Return("InvalidCiphertext") \/ (IoErrors /\ Return("ReadIo"))
  <2>1. /\ dpc' \in DecryptEnded
        /\ dpc' = "InvalidCiphertext" \/ (IoErrors /\ dpc' = "ReadIo")
    BY <1>2 DEF Return, DecryptEnded
  <2>2. QED  BY <1>1, <1>2, <2>1, EndReader DEF Return
<1> DEFINE bytes == NextBytes(ENC_HEADER_LEN)
           s == Chunk(bytes).plain[1]
           n == Chunk(bytes).plain[2]
<1>3. CASE Avail(ENC_HEADER_LEN)
           /\ (IF dek = NoDek /\ HeaderOpens(dmsg, bytes)
               THEN HeadersStep(Mix(dmsg, "header", bytes), s, n)
               ELSE HeadersStep(Mix(dmsg, "header", bytes), dek, recvCount))
           /\ UNCHANGED <<claimed, receiver, hdr, out, torn, dwritten>>
  <2>1. bytes \in Seq(Cell) /\ Len(bytes) = ENC_HEADER_LEN
    BY <1>3, NextBytesType, EncLengthsType
  <2> HIDE DEF bytes
  <2>2. UNCHANGED <<claimed, receiver, hdr, out, torn>>  BY <1>3
  <2>3. CASE dek = NoDek /\ HeaderOpens(dmsg, bytes)
    <3>1. /\ s \in Sessions /\ epc[s] # "idle" /\ Addressed(s)
          /\ n = Len(receivers[s]) /\ n \in Nat /\ i < n
      BY <1>1, <2>1, <2>3, HeaderOpensAddressed
    <3>2. HeadersStep(Mix(dmsg, "header", bytes), s, n)  BY <1>3, <2>3
    <3> HIDE DEF s, n
    <3>3. QED  BY <1>1, <2>1, <2>2, <3>1, <3>2, HeadersStepReader
  <2>4. CASE ~(dek = NoDek /\ HeaderOpens(dmsg, bytes))
    <3>1. HeadersStep(Mix(dmsg, "header", bytes), dek, recvCount)  BY <1>3, <2>4
    <3>2. /\ dek \in Sessions \union {NoDek} /\ recvCount \in Nat
          /\ dek # NoDek => /\ epc[dek] # "idle" /\ Addressed(dek)
                            /\ recvCount = Len(receivers[dek]) /\ i < recvCount
      BY <1>1 DEF TypeOK, DecryptTypeOK, ReaderOK, HeadersLockstep
    <3>3. QED  BY <1>1, <2>1, <2>2, <3>1, <3>2, HeadersStepReader
  <2>5. QED  BY <2>3, <2>4
<1>4. QED  BY <1>2, <1>3 DEF DecryptHeader

-----------------------------------------------------------------------------
(* The blocks.                                                             *)

\* What opens under decrypt's protocol, once that holds a DEK, is what the
\* session of the DEK sealed next.
LEMMA OpensInLockstep ==
  ASSUME TypeOK, LoopsOK, EncryptHistories, ReaderOK, dpc \in {"block-header", "block"},
         NEW label \in {"block-header", "block"}, NEW bytes \in Seq(Cell),
         BytesOpen(label, bytes)
  PROVE  LET e == <<"seal", label, Chunk(bytes).plain>>
         IN  /\ dek \in Sessions /\ epc[dek] # "idle"
             /\ Len(dmsg) + 1 <= Len(message[dek])
             /\ dmsg = SubSeq(message[dek], 1, Len(dmsg))
             /\ message[dek][Len(dmsg) + 1] = e
             /\ Append(dmsg, e) = SubSeq(message[dek], 1, Len(dmsg) + 1)
             /\ Append(dmsg, e) \in Seq(Op)
             /\ Extends(Append(dmsg, e), dmsg)
             /\ Len(Append(dmsg, e)) = Len(dmsg) + 1
             /\ Append(dmsg, e)[Len(dmsg) + 1] = e
             /\ History(message[dek], dek, Base(dek), blocks[dek])
             /\ Chunk(bytes) \in WriteUnit /\ Chunk(bytes).label = label
             /\ bytes[1].from = dek /\ Chunk(bytes).under = dmsg
<1> DEFINE u == Chunk(bytes)
           s == bytes[1].from
           c == bytes[1].chunk
           m == message[s]
           e == <<"seal", label, Chunk(bytes).plain>>
<1>1. Intact(bytes) /\ u.label = label /\ u.under = dmsg
  BY DEF BytesOpen, Opens
<1>2. /\ s \in Sessions /\ epc[s] # "idle" /\ SealedIn(u, c, s, m, receivers[s])
      /\ History(m, s, Base(s), blocks[s]) /\ u \in WriteUnit
  BY <1>1, ChunkSealed
<1>3. /\ Len(dmsg) + 1 <= Len(m) /\ dmsg = SubSeq(m, 1, Len(dmsg))
      /\ m[Len(dmsg) + 1] = e
  BY <1>1, <1>2 DEF SealedIn
<1>4. m \in Seq(Op) /\ dmsg \in Seq(Op) /\ Len(dmsg) \in Nat /\ Len(m) \in Nat
  BY <1>2 DEF TypeOK, EncryptTypeOK, DecryptTypeOK
<1> HIDE DEF u, s, c, m, e
<1>5. dek \in Sessions
  BY DEF ReaderOK, HeadersLockstep, TypeOK, DecryptTypeOK
<1>6. s = dek
  <2>1. Base(dek) \in Nat \ {0} /\ Len(out) \in Nat
    BY <1>5 DEF Base, TypeOK, EncryptTypeOK, DecryptTypeOK
  <2>2. Base(dek) <= Len(dmsg) /\ dmsg[Base(dek)] = <<"mix", "dek", dek>>
    BY <2>1 DEF ReaderOK, BlocksLockstep
  <2> DEFINE b == Base(dek)
  <2>3. b \in 1..Len(dmsg) /\ b \in 1..Len(m) /\ Len(dmsg) \in 0..Len(m)
    BY <1>3, <1>4, <2>1, <2>2
  <2> HIDE DEF b
  <2>4. SubSeq(m, 1, Len(dmsg))[b] = m[b]  BY <1>4, <2>3, PrefixElements
  <2>5. m[b] = <<"mix", "dek", dek>>  BY <1>3, <2>2, <2>4 DEF b
  <2>6. m[b][2] = "dek" /\ m[b][3] = dek  BY <2>5
  <2>7. QED  BY <1>2, <2>3, <2>6 DEF History
<1>7. e \in Op
  <2>1. Len(dmsg) + 1 \in 1..Len(m)  BY <1>3, <1>4
  <2>2. QED  BY <1>3, <1>4, <2>1
<1>8. Append(dmsg, m[Len(dmsg) + 1]) = SubSeq(m, 1, Len(dmsg) + 1)
  BY <1>3, <1>4, PrefixAppend
<1>9. /\ Append(dmsg, e) \in Seq(Op) /\ Len(Append(dmsg, e)) = Len(dmsg) + 1
      /\ Append(dmsg, e)[Len(dmsg) + 1] = e /\ Extends(Append(dmsg, e), dmsg)
  BY <1>4, <1>7, AppendExtends
<1>10. m = message[dek] /\ epc[dek] # "idle"
       /\ History(m, dek, Base(dek), blocks[dek])
  BY <1>2, <1>6 DEF m
<1>11. Append(dmsg, e) = SubSeq(m, 1, Len(dmsg) + 1)  BY <1>3, <1>8
<1>12. bytes[1].from = dek  BY <1>6 DEF s
<1>13. QED  BY <1>1, <1>2, <1>3, <1>5, <1>9, <1>10, <1>11, <1>12 DEF e, u

LEMMA DecryptBlockHeaderReader ==
  ASSUME TypeOK, LoopsOK, EncryptHistories, ReaderOK, DecryptBlockHeader
  PROVE  ReaderOK'
<1> DEFINE bytes == NextBytes(ENC_BLOCK_HEADER_LEN)
           e     == <<"seal", "block-header", Chunk(bytes).plain>>
<1>1. dpc = "block-header" /\ UNCHANGED encryptVars  BY DEF DecryptBlockHeader
<1>2. ASSUME NEW result \in DecryptEnded, Return(result)
      PROVE  ReaderOK'
  BY <1>1, <1>2, EndReader DEF Return
<1>3. CASE /\ Avail(ENC_BLOCK_HEADER_LEN)
           /\ BytesOpen("block-header", bytes)
           /\ hdr' = Chunk(bytes).plain
           /\ dmsg' = Sealed(dmsg, "block-header", hdr')
           /\ dpc' = "block"
           /\ UNCHANGED <<claimed, receiver, i, recvCount, dek, out, torn, dwritten>>
  <2>1. bytes \in Seq(Cell)  BY <1>3, NextBytesType, EncLengthsType
  <2>2. dmsg' = Append(dmsg, e)  BY <1>3 DEF Sealed
  <2>3. hdr' = Chunk(bytes).plain /\ dpc' = "block" /\ BytesOpen("block-header", bytes)
        /\ UNCHANGED <<claimed, receiver, recvCount, dek, out, torn>>
    BY <1>3
  <2>4. e = <<"seal", "block-header", hdr'>>  BY <2>3
  <2> HIDE DEF bytes
  <2>5. /\ dek \in Sessions /\ epc[dek] # "idle"
        /\ Len(dmsg) + 1 <= Len(message[dek])
        /\ Append(dmsg, e) = SubSeq(message[dek], 1, Len(dmsg) + 1)
        /\ Extends(Append(dmsg, e), dmsg)
        /\ Len(Append(dmsg, e)) = Len(dmsg) + 1
        /\ Append(dmsg, e)[Len(dmsg) + 1] = e
    BY <1>1, <2>1, <2>3, OpensInLockstep
  <2> HIDE DEF e
  <2>6. /\ Len(dmsg) \in Nat /\ Len(out) \in Nat /\ Base(dek) \in Nat \ {0}
        /\ Len(dmsg) >= 2 /\ Len(dmsg) = Base(dek) + 2 * Len(out)
        /\ dek # NoDek
        /\ dmsg[2] = <<"mix", "sender", claimed>>
        /\ dmsg[Base(dek)] = <<"mix", "dek", dek>>
    <3>1. Len(dmsg) \in Nat /\ Len(out) \in Nat /\ Base(dek) \in Nat \ {0}
      BY <2>5 DEF TypeOK, EncryptTypeOK, DecryptTypeOK, Base
    <3>2. dek # NoDek  BY <2>5, DecryptAssumption
    <3>3. Len(dmsg) >= 2 /\ dmsg[2] = <<"mix", "sender", claimed>>
      BY DEF ReaderOK, HeadersLockstep
    <3>4. /\ Len(dmsg) = Base(dek) + 2 * Len(out) + 0
          /\ dmsg[Base(dek)] = <<"mix", "dek", dek>>
      BY <1>1 DEF ReaderOK, BlocksLockstep
    <3>5. QED  BY <3>1, <3>2, <3>3, <3>4
  <2>7. Base(dek)' = Base(dek) /\ message' = message /\ dek' = dek /\ out' = out
    BY <1>1, <2>3 DEF Base, encryptVars
  <2>8. dmsg'[2] = dmsg[2] /\ dmsg'[Base(dek)] = dmsg[Base(dek)]
        /\ Len(dmsg') = Len(dmsg) + 1 /\ dmsg'[Len(dmsg')] = e
    <3>1. 2 \in 1..Len(dmsg) /\ Base(dek) \in 1..Len(dmsg)  BY <2>6
    <3>2. QED  BY <2>2, <2>5, <3>1 DEF Extends
  <2>9. HeadersLockstep'
    BY <1>1, <2>3, <2>6, <2>8 DEF ReaderOK, HeadersLockstep, Addressed, encryptVars
  <2>10. BlocksLockstep'
    <3>1. /\ Len(dmsg') = Base(dek)' + 2 * Len(out') + 1
          /\ dmsg'[Base(dek)'] = <<"mix", "dek", dek'>>
          /\ Len(dmsg') <= Len(message'[dek'])
      BY <2>5, <2>6, <2>7, <2>8
    <3>2. dmsg' = SubSeq(message'[dek'], 1, Len(dmsg'))  BY <2>2, <2>5, <2>7, <2>8
    <3>3. dmsg'[Len(dmsg')] = <<"seal", "block-header", hdr'>>  BY <2>4, <2>8
    <3>4. QED  BY <2>3, <3>1, <3>2, <3>3 DEF BlocksLockstep
  <2>11. ReleasedLockstep'
    BY <1>1, <2>3, <2>6 DEF ReaderOK, ReleasedLockstep, encryptVars
  <2>12. QED  BY <2>9, <2>10, <2>11 DEF ReaderOK
<1>4. QED
  <2>1. \/ Return("InvalidCiphertext") \/ Return("UnexpectedEof") \/ Return("ReadIo")
        \/ /\ Avail(ENC_BLOCK_HEADER_LEN)
           /\ BytesOpen("block-header", bytes)
           /\ hdr' = Chunk(bytes).plain
           /\ dmsg' = Sealed(dmsg, "block-header", hdr')
           /\ dpc' = "block"
           /\ UNCHANGED <<claimed, receiver, i, recvCount, dek, out, torn, dwritten>>
    BY DEF DecryptBlockHeader
  <2> HIDE DEF bytes
  <2>2. "InvalidCiphertext" \in DecryptEnded /\ "UnexpectedEof" \in DecryptEnded
        /\ "ReadIo" \in DecryptEnded
    BY DEF DecryptEnded
  <2>3. CASE Return("InvalidCiphertext")  BY <1>2, <2>2, <2>3
  <2>4. CASE Return("UnexpectedEof")  BY <1>2, <2>2, <2>4
  <2>5. CASE Return("ReadIo")  BY <1>2, <2>2, <2>5
  <2>6. QED  BY <1>3, <2>1, <2>3, <2>4, <2>5

\* A block that opens, and is data by the header before it, is the next one that
\* its session read.
LEMMA BlockInLockstep ==
  ASSUME TypeOK, LoopsOK, EncryptHistories, ReaderOK, dpc = "block", hdr[1] = "Data",
         NEW bytes \in Seq(Cell), BytesOpen("block", bytes)
  PROVE  /\ Len(out) + 1 \in 1..Len(blocks[dek])
         /\ Chunk(bytes).plain = blocks[dek][Len(out) + 1]
<1> DEFINE m  == message[dek]
           b  == Base(dek)
           bs == blocks[dek]
           n  == Len(dmsg)
           k  == Len(out)
           block == Chunk(bytes).plain
<1>1. /\ dek \in Sessions /\ n + 1 <= Len(m) /\ dmsg = SubSeq(m, 1, n)
      /\ m[n + 1] = <<"seal", "block", block>> /\ History(m, dek, b, bs)
  BY OpensInLockstep
<1>2. /\ m \in Seq(Op) /\ bs \in Seq(Seq(Byte)) /\ dmsg \in Seq(Op)
      /\ b \in Nat \ {0} /\ k \in Nat /\ n \in Nat /\ Len(m) \in Nat /\ Len(bs) \in Nat
  BY <1>1 DEF TypeOK, EncryptTypeOK, DecryptTypeOK, Base
<1>3. /\ n = b + 2 * k + 1 /\ dmsg[n] = <<"seal", "block-header", hdr>>
  BY DEF ReaderOK, BlocksLockstep
<1>4. k <= Len(bs)
  BY <1>1, DecryptAssumption DEF ReaderOK, ReleasedLockstep
<1> HIDE DEF m, b, bs, n, k, block
<1>5. m[n] = <<"seal", "block-header", hdr>>
  <2>1. n \in 0..Len(m) /\ n \in 1..n  BY <1>1, <1>2, <1>3
  <2>2. SubSeq(m, 1, n)[n] = m[n]  BY <1>2, <2>1, PrefixElements
  <2>3. QED  BY <1>1, <1>3, <2>2
<1>6. m[n][3][1] = "Data"  BY <1>5
<1>7. k # Len(bs)
  <2>1. SUFFICES ASSUME k = Len(bs) PROVE FALSE  OBVIOUS
  <2>2. b + 2 * Len(bs) + 1 = n /\ n <= Len(m)  BY <1>1, <1>2, <1>3, <2>1
  <2>3. m[n][3][1] = "Padding"  BY <1>1, <2>2 DEF History
  <2>4. QED  BY <1>6, <2>3
<1>8. k + 1 \in 1..Len(bs)  BY <1>2, <1>4, <1>7
<1>9. b + 2 * (k + 1) = n + 1  BY <1>2, <1>3
<1> DEFINE j == k + 1
<1>10. j \in 1..Len(bs) /\ b + 2 * j = n + 1  BY <1>8, <1>9
<1> HIDE DEF j
<1>11. m[n + 1][3] = bs[j]  BY <1>1, <1>10 DEF History
<1>12. block = bs[j]  BY <1>1, <1>11
<1>13. QED  BY <1>10, <1>12 DEF j, bs, k, block

LEMMA DecryptBlockReader ==
  ASSUME TypeOK, LoopsOK, EncryptHistories, ReaderOK, DecryptBlock
  PROVE  ReaderOK'
<1> DEFINE n     == hdr[2] + TAG_LEN
           bytes == NextBytes(n)
           block == Chunk(bytes).plain
           e     == <<"seal", "block", block>>
<1>1. dpc = "block" /\ UNCHANGED encryptVars  BY DEF DecryptBlock
<1>2. ASSUME NEW result \in DecryptEnded, Return(result)
      PROVE  ReaderOK'
  BY <1>1, <1>2, EndReader DEF Return
<1>3. CASE /\ Avail(n)
           /\ BytesOpen("block", bytes)
           /\ dmsg' = Sealed(dmsg, "block", block)
           /\ IF hdr[1] = "Data"
              THEN Release(block)
              ELSE /\ dpc' = IF hdr[1] = "Padding" THEN "sig" ELSE "InvalidBlockType"
                   /\ UNCHANGED <<out, torn, dwritten>>
           /\ UNCHANGED <<claimed, receiver, i, recvCount, dek, hdr>>
  <2>1. hdr \in {"Data", "Padding"} \X Nat /\ n \in Nat
    BY <1>1, LengthsAssumption DEF TypeOK, DecryptTypeOK
  <2>2. bytes \in Seq(Cell)
    <3> HIDE DEF n
    <3>1. QED  BY <1>3, <2>1, NextBytesType
  <2>3. /\ dmsg' = Append(dmsg, e) /\ BytesOpen("block", bytes)
        /\ UNCHANGED <<claimed, receiver, i, recvCount, dek, hdr>>
        /\ \/ hdr[1] = "Data" /\ Release(block)
           \/ hdr[1] # "Data" /\ dpc' = "sig" /\ UNCHANGED <<out, torn>>
    BY <1>3, <2>1 DEF Sealed
  <2> HIDE DEF n, bytes
  <2>4. /\ dek \in Sessions /\ epc[dek] # "idle"
        /\ Len(dmsg) + 1 <= Len(message[dek])
        /\ Append(dmsg, e) = SubSeq(message[dek], 1, Len(dmsg) + 1)
        /\ Extends(Append(dmsg, e), dmsg)
        /\ Len(Append(dmsg, e)) = Len(dmsg) + 1
        /\ Chunk(bytes) \in WriteUnit /\ Chunk(bytes).label = "block"
    BY <1>1, <2>2, <2>3, OpensInLockstep
  <2>5. block \in Seq(Byte \union {Noise})  BY <2>4, LabelType
  <2>6. hdr[1] = "Data" => /\ Len(out) + 1 \in 1..Len(blocks[dek])
                           /\ block = blocks[dek][Len(out) + 1]
    BY <1>1, <2>2, <2>3, BlockInLockstep
  <2> HIDE DEF e, block
  <2>7. /\ Len(dmsg) \in Nat /\ Len(out) \in Nat /\ Base(dek) \in Nat \ {0}
        /\ Len(dmsg) >= 2 /\ Len(dmsg) = Base(dek) + 2 * Len(out) + 1
        /\ dek # NoDek
        /\ dmsg[2] = <<"mix", "sender", claimed>>
        /\ dmsg[Base(dek)] = <<"mix", "dek", dek>>
    <3>1. Len(dmsg) \in Nat /\ Len(out) \in Nat /\ Base(dek) \in Nat \ {0}
      BY <2>4 DEF TypeOK, EncryptTypeOK, DecryptTypeOK, Base
    <3>2. dek # NoDek  BY <2>4, DecryptAssumption
    <3>3. Len(dmsg) >= 2 /\ dmsg[2] = <<"mix", "sender", claimed>>
      BY DEF ReaderOK, HeadersLockstep
    <3>4. /\ Len(dmsg) = Base(dek) + 2 * Len(out) + 1
          /\ dmsg[Base(dek)] = <<"mix", "dek", dek>>
      BY <1>1 DEF ReaderOK, BlocksLockstep
    <3>5. QED  BY <3>1, <3>2, <3>3, <3>4
  <2>8. Base(dek)' = Base(dek) /\ message' = message /\ dek' = dek /\ blocks' = blocks
        /\ recvCount' = recvCount /\ claimed' = claimed /\ receiver' = receiver
    BY <1>1, <2>3 DEF Base, encryptVars
  <2>9. dmsg'[2] = dmsg[2] /\ dmsg'[Base(dek)] = dmsg[Base(dek)]
        /\ Len(dmsg') = Len(dmsg) + 1
    <3>1. 2 \in 1..Len(dmsg) /\ Base(dek) \in 1..Len(dmsg)  BY <2>7
    <3>2. QED  BY <2>3, <2>4, <3>1 DEF Extends
  <2>10. HeadersLockstep' \/ dpc' = "headers"
    BY <1>1, <2>7, <2>8, <2>9 DEF ReaderOK, HeadersLockstep, Addressed, encryptVars
  <2>11. Len(dmsg') = Base(dek)' + 2 * Len(out) + 2
         /\ dmsg'[Base(dek)'] = <<"mix", "dek", dek'>>
         /\ Len(dmsg') <= Len(message'[dek'])
         /\ dmsg' = SubSeq(message'[dek'], 1, Len(dmsg'))
    <3>1. Len(dmsg') = Len(dmsg) + 1 /\ Len(dmsg) + 1 <= Len(message[dek])  BY <2>4, <2>9
    <3>2. QED  BY <2>3, <2>4, <2>7, <2>8, <2>9, <3>1
  <2>12. /\ out \in Seq(Seq(Byte \union {Noise})) /\ torn = << >>
         /\ Len(out) <= Len(blocks[dek]) /\ \A k \in 1..Len(out) : out[k] = blocks[dek][k]
    BY <1>1, <2>7 DEF ReaderOK, ReleasedLockstep, TypeOK, DecryptTypeOK
  <2>13. CASE hdr[1] # "Data" /\ dpc' = "sig" /\ UNCHANGED <<out, torn>>
    <3>1. BlocksLockstep'  BY <2>11, <2>13 DEF BlocksLockstep
    <3>2. ReleasedLockstep'
      BY <2>7, <2>8, <2>12, <2>13 DEF ReleasedLockstep
    <3>3. QED  BY <2>10, <2>13, <3>1, <3>2 DEF ReaderOK
  <2>14. CASE /\ hdr[1] = "Data" /\ out' = Append(out, block)
              /\ dpc' = "block-header" /\ UNCHANGED torn
    <3>1. /\ Len(out') = Len(out) + 1 /\ out'[Len(out) + 1] = block
          /\ \A k \in 1..Len(out) : out'[k] = out[k]
      BY <2>5, <2>12, <2>14, AppendExtends DEF Extends
    <3>2. BlocksLockstep'
      <4>1. Len(dmsg') = Base(dek)' + 2 * Len(out') + 0
        BY <2>7, <2>8, <2>11, <3>1
      <4>2. QED  BY <2>11, <2>14, <4>1 DEF BlocksLockstep
    <3>3. /\ Len(out') <= Len(blocks'[dek'])
          /\ \A k \in 1..Len(out') : out'[k] = blocks'[dek'][k]
      <4>1. Len(out') <= Len(blocks'[dek'])  BY <2>6, <2>7, <2>8, <2>14, <3>1
      <4>2. ASSUME NEW k \in 1..Len(out') PROVE out'[k] = blocks'[dek'][k]
        <5>1. CASE k \in 1..Len(out)  BY <2>8, <2>12, <3>1, <5>1
        <5>2. CASE k = Len(out) + 1  BY <2>6, <2>8, <2>14, <3>1, <5>2
        <5>3. QED  BY <2>7, <3>1, <5>1, <5>2
      <4>3. QED  BY <4>1, <4>2
    <3>4. ReleasedLockstep'
      BY <2>7, <2>8, <2>12, <2>14, <3>3 DEF ReleasedLockstep
    <3>5. QED  BY <2>10, <2>14, <3>2, <3>4 DEF ReaderOK
  <2>15. CASE /\ hdr[1] = "Data" /\ UNCHANGED out /\ dpc' = "WriteIo"
              /\ \E k \in 0..(Len(block) - 1) : torn' = SubSeq(block, 1, k)
    <3>1. PICK k \in 0..(Len(block) - 1) : torn' = SubSeq(block, 1, k)  BY <2>15
    <3>2. k \in 0..Len(block) /\ k <= Len(block) /\ Len(block) \in Nat  BY <2>5
    <3>3. /\ torn' \in Seq(Byte \union {Noise}) /\ Len(torn') = k
      BY <2>5, <3>1, <3>2, PrefixElements
    <3>4. IsPrefix(torn', block)
      <4>1. k \in 0..Len(torn')  BY <3>2, <3>3
      <4>2. SubSeq(torn', 1, k) = torn'
        <5>1. /\ SubSeq(torn', 1, k) \in Seq(Byte \union {Noise})
              /\ Len(SubSeq(torn', 1, k)) = k
              /\ \A q \in 1..k : SubSeq(torn', 1, k)[q] = torn'[q]
          BY <3>3, <4>1, PrefixElements
        <5>2. QED  BY <3>3, <5>1, SeqEqual
      <4>3. QED  BY <3>1, <3>2, <3>3, <4>2 DEF IsPrefix
    <3>5. Len(out') < Len(blocks'[dek'])  BY <2>6, <2>7, <2>8, <2>15
    <3>6. IsPrefix(torn', blocks'[dek'][Len(out') + 1])  BY <2>6, <2>8, <2>15, <3>4
    <3>7. ReleasedLockstep'
      BY <2>7, <2>8, <2>12, <2>15, <3>5, <3>6 DEF ReleasedLockstep
    <3>8. BlocksLockstep'  BY <2>15 DEF BlocksLockstep
    <3>9. QED  BY <2>10, <2>15, <3>7, <3>8 DEF ReaderOK
  <2>16. QED  BY <2>3, <2>13, <2>14, <2>15 DEF Release
<1>4. QED
  <2>1. \/ Return("InvalidCiphertext") \/ Return("UnexpectedEof") \/ Return("ReadIo")
        \/ /\ Avail(n)
           /\ BytesOpen("block", bytes)
           /\ dmsg' = Sealed(dmsg, "block", block)
           /\ IF hdr[1] = "Data"
              THEN Release(block)
              ELSE /\ dpc' = IF hdr[1] = "Padding" THEN "sig" ELSE "InvalidBlockType"
                   /\ UNCHANGED <<out, torn, dwritten>>
           /\ UNCHANGED <<claimed, receiver, i, recvCount, dek, hdr>>
    BY DEF DecryptBlock
  <2> HIDE DEF n, bytes, block
  <2>2. "InvalidCiphertext" \in DecryptEnded /\ "UnexpectedEof" \in DecryptEnded
        /\ "ReadIo" \in DecryptEnded
    BY DEF DecryptEnded
  <2>3. CASE Return("InvalidCiphertext")  BY <1>2, <2>2, <2>3
  <2>4. CASE Return("UnexpectedEof")  BY <1>2, <2>2, <2>4
  <2>5. CASE Return("ReadIo")  BY <1>2, <2>2, <2>5
  <2>6. QED  BY <1>3, <2>1, <2>3, <2>4, <2>5

LEMMA ReadSignatureReader ==
  ASSUME ReaderOK, ReadSignature
  PROVE  ReaderOK'
<1>1. /\ dpc = "sig" /\ UNCHANGED encryptVars
      /\ UNCHANGED <<claimed, receiver, dmsg, i, recvCount, dek, hdr, out, torn>>
      /\ dpc' \in {"Panic", "Ok", "InvalidCiphertext", "ReadIo"}
  BY DEF ReadSignature, Return
<1>2. dpc' \in DecryptEnded  BY <1>1 DEF DecryptEnded
<1>3. QED  BY <1>1, <1>2, EndReader

-----------------------------------------------------------------------------
LEMMA LockstepInit == Init => TypeOK /\ Lockstep
<1> SUFFICES ASSUME Init PROVE TypeOK /\ Lockstep  OBVIOUS
<1>1. TypeOK  BY InitType
<1>2. \A s \in Sessions : epc[s] = "idle" /\ sent[s] = << >> /\ blocks[s] = << >>
  BY DEF Init, EncryptInit, WireInit
<1>3. LoopsOK /\ EncryptHistories  BY <1>2 DEF LoopsOK, EncryptHistories
<1>4. /\ dpc = "headers" /\ dmsg = Start(claimed) /\ i = 0 /\ dek = NoDek
      /\ out = << >> /\ torn = << >>
  BY DEF Init, DecryptInit
<1>5. Len(dmsg) = 2 /\ dmsg[2] = <<"mix", "sender", claimed>>
  BY <1>4 DEF Start, New, Mix
<1>6. HeadersLockstep /\ BlocksLockstep /\ ReleasedLockstep
  BY <1>4, <1>5 DEF HeadersLockstep, BlocksLockstep, ReleasedLockstep
<1>7. QED  BY <1>1, <1>3, <1>6 DEF Lockstep

LEMMA HistoriesUnchanged ==
  ASSUME EncryptHistories, UNCHANGED encryptVars, sent' = sent
  PROVE  EncryptHistories'
<1>1. /\ epc' = epc /\ sender' = sender /\ message' = message
      /\ receivers' = receivers /\ blocks' = blocks /\ sent' = sent
  BY DEF encryptVars
<1>2. ASSUME NEW s \in Sessions, epc'[s] # "idle"
      PROVE  SessionOK(s)'
  <2>1. SessionOK(s)  BY <1>1, <1>2 DEF EncryptHistories, SessionOK
  <2>2. Base(s)' = Base(s)  BY <1>1 DEF Base
  <2>3. HistoryLength(s)'  BY <1>1, <2>1, <2>2 DEF SessionOK, HistoryLength
  <2>4. /\ History(message[s], s, Base(s)', blocks'[s])
        /\ \A c \in 1..Len(sent'[s]) :
             SealedIn(sent'[s][c], c, s, message[s], receivers'[s])
    BY <1>1, <2>1, <2>2 DEF SessionOK
  <2>5. QED  BY <1>1, <2>3, <2>4, SessionStep
<1>3. QED  BY <1>2 DEF EncryptHistories, SessionOK

LEMMA LockstepInductive ==
  ASSUME TypeOK, Lockstep, [Next]_vars
  PROVE  TypeOK' /\ Lockstep'
<1>1. LoopsOK /\ EncryptHistories /\ ReaderOK  BY DEF Lockstep, ReaderOK
<1>2. TypeOK' /\ LoopsOK'  BY <1>1, TypesInductive
<1>3. CASE UNCHANGED <<encryptVars, sent, decryptVars>>
  <2>1. EncryptHistories'  BY <1>1, <1>3, HistoriesUnchanged
  <2>2. ReaderOK'
    BY <1>1, <1>3 DEF encryptVars, decryptVars, ReaderOK, HeadersLockstep, BlocksLockstep,
                      ReleasedLockstep, Addressed, Base
  <2>3. QED  BY <1>2, <2>1, <2>2 DEF Lockstep, ReaderOK
<1>4. ASSUME NEW s \in Sessions, Writer(s)
      PROVE  Lockstep'
  BY <1>1, <1>2, <1>4, WriterHistories, WriterReader DEF Lockstep, ReaderOK
<1>5. CASE DecryptStep
  <2>1. UNCHANGED encryptVars /\ sent' = sent
    BY <1>5 DEF DecryptStep, DecryptHeader, DecryptBlockHeader, DecryptBlock,
                ReadSignature, wireVars
  <2>2. EncryptHistories'  BY <1>1, <2>1, HistoriesUnchanged
  <2>3. ReaderOK'
    BY <1>1, <1>5, DecryptHeaderReader, DecryptBlockHeaderReader, DecryptBlockReader,
       ReadSignatureReader DEF DecryptStep
  <2>4. QED  BY <1>2, <2>2, <2>3 DEF Lockstep, ReaderOK
<1>6. CASE Environment
  <2>1. UNCHANGED <<encryptVars, sent, decryptVars>>  BY <1>6 DEF Environment, Damage
  <2>2. QED  BY <1>3, <2>1
<1>7. CASE UNCHANGED vars
  <2>1. UNCHANGED <<encryptVars, sent, decryptVars>>  BY <1>7 DEF vars, wireVars
  <2>2. QED  BY <1>3, <2>1
<1>8. Lockstep'  BY <1>4, <1>5, <1>6, <1>7 DEF Next
<1>9. QED  BY <1>2, <1>8

\* Whatever befalls the stream, decrypt's protocol has been through the headers
\* it has read, and then through what the one encryption whose DEK it opened
\* has been through: the inductive invariant of message.rs.
THEOREM LockstepCorrect == Spec => []Lockstep
<1>1. TypeOK /\ Lockstep /\ [Next]_vars => TypeOK' /\ Lockstep'
  BY LockstepInductive
<1>2. QED  BY LockstepInit, <1>1, PTL DEF Spec

LEMMA LockstepReleases ==
  ASSUME TypeOK, Lockstep
  PROVE  ReleasedIsAuthentic
<1>1. CASE dek = NoDek
  BY <1>1 DEF Lockstep, ReleasedLockstep, ReleasedIsAuthentic
<1>2. CASE dek # NoDek
  <2>1. Addressed(dek)  BY <1>2 DEF Lockstep, HeadersLockstep
  <2>2. /\ Len(out) <= Len(blocks[dek]) /\ \A k \in 1..Len(out) : out[k] = blocks[dek][k]
        /\ torn # << >> => /\ Len(out) < Len(blocks[dek])
                           /\ IsPrefix(torn, blocks[dek][Len(out) + 1])
    BY <1>2 DEF Lockstep, ReleasedLockstep
  <2>3. /\ out \in Seq(Seq(Byte \union {Noise}))
        /\ blocks[dek] \in Seq(Seq(Byte \union {Noise}))
    <3>1. dek \in Sessions  BY <1>2 DEF TypeOK, DecryptTypeOK
    <3>2. blocks[dek] \in Seq(Seq(Byte))  BY <3>1 DEF TypeOK, EncryptTypeOK
    <3>3. QED  BY <3>2 DEF TypeOK, DecryptTypeOK
  <2> DEFINE n  == Len(out)
             bs == blocks[dek]
  <2>4. n \in 0..Len(out) /\ n \in 0..Len(bs) /\ n \in Nat  BY <2>2, <2>3
  <2> HIDE DEF n, bs
  <2>5. SubSeq(out, 1, n) = SubSeq(bs, 1, n)
    <3>1. /\ SubSeq(out, 1, n) \in Seq(Seq(Byte \union {Noise}))
          /\ Len(SubSeq(out, 1, n)) = n
          /\ \A q \in 1..n : SubSeq(out, 1, n)[q] = out[q]
      BY <2>3, <2>4, PrefixElements
    <3>2. /\ SubSeq(bs, 1, n) \in Seq(Seq(Byte \union {Noise}))
          /\ Len(SubSeq(bs, 1, n)) = n
          /\ \A q \in 1..n : SubSeq(bs, 1, n)[q] = bs[q]
      BY <2>3, <2>4, PrefixElements DEF bs
    <3>3. \A q \in 1..n : out[q] = bs[q]  BY <2>2 DEF n, bs
    <3>4. QED  BY <3>1, <3>2, <3>3, SeqEqual
  <2>6. IsPrefix(out, blocks[dek])  BY <2>2, <2>5 DEF IsPrefix, n, bs
  <2>7. QED  BY <1>2, <2>1, <2>2, <2>6 DEF ReleasedIsAuthentic
<1>3. QED  BY <1>1, <1>2

\* For any number of senders, receivers and messages, of any length, and any
\* damage to the stream: what decrypt has written to its writer is a beginning
\* of one message from the claimed sender to this receiver.
THEOREM ReleasedCorrect == Spec => []ReleasedIsAuthentic
<1>1. TypeOK /\ Lockstep => ReleasedIsAuthentic  BY LockstepReleases
<1>2. QED  BY TypeCorrect, LockstepCorrect, <1>1, PTL

\* A reader for whom nothing was encrypted, or who claims another sender than the
\* one who did, is refused when her call returns, whatever the stream holds.
THEOREM StrangersCorrect == Spec => []StrangersAreRefused
<1>1. TypeOK /\ Lockstep => StrangersAreRefused
  <2> SUFFICES ASSUME TypeOK, Lockstep, dpc \in DecryptEnded,
                      \A s \in Sessions : ~Addressed(s)
               PROVE  dpc = "InvalidCiphertext" \/ (IoErrors /\ dpc = "ReadIo")
    BY DEF StrangersAreRefused
  <2>1. dek = NoDek  BY DEF TypeOK, DecryptTypeOK, Lockstep, HeadersLockstep
  <2>2. dpc # "headers"  BY DEF DecryptEnded
  <2>3. QED  BY <2>1, <2>2 DEF Lockstep, HeadersLockstep
<1>2. QED  BY TypeCorrect, LockstepCorrect, <1>1, PTL
=============================================================================
