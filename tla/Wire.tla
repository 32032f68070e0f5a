-------------------------------- MODULE Wire --------------------------------
(***************************************************************************)
(* The byte stream between `encrypt' and `decrypt': the io::Write one      *)
(* writes to and the io::Read the other reads from (a file, or a pipe read *)
(* while it is being written).  Encryptions may append to one stream, as   *)
(* `veil encrypt -o - >> file' does.  The stream may be damaged: that is   *)
(* the environment, not code of the repository.                            *)
(*                                                                         *)
(* A byte is named by its origin: byte j of the c-th chunk that session s  *)
(* wrote.  sent[s] holds those chunks.                                     *)
(***************************************************************************)
EXTENDS Naturals, Sequences

CONSTANTS
  Sessions,   \* calls of `encrypt'; each has its own random DEK, named by it
  Noise,      \* a byte that is random, or damaged
  MaxEdits,   \* bound: how often the stream is damaged
  Reach       \* bound: how far past the reader

VARIABLES
  sent,       \* sent[s]: the chunks session s has passed to writer.write_all
  wire,       \* the bytes in the stream, oldest first
  edits       \* how often the stream was damaged

wireVars == <<sent, wire, edits>>

Cell == [from : Sessions, chunk : Nat, byte : Nat] \union {Noise}

WireInit ==
  /\ sent = [s \in Sessions |-> << >>]
  /\ wire = << >>
  /\ edits = 0

\* The n bytes of chunk c of session s.
Cells(s, c, n) == [j \in 1..n |-> [from |-> s, chunk |-> c, byte |-> j]]

\* Are these bytes exactly one chunk as it was written?
Intact(bytes) ==
  /\ bytes # << >>
  /\ bytes[1] # Noise
  /\ LET s == bytes[1].from
         c == bytes[1].chunk
     IN  c \in DOMAIN sent[s] /\ bytes = Cells(s, c, sent[s][c].n)

Chunk(bytes) == sent[bytes[1].from][bytes[1].chunk]

Random(n) == [j \in 1..n |-> Noise]

\* writer.write_all(chunk) by session s: all of it arrives, ...
WriteAll(s, chunk) ==
  /\ sent' = [sent EXCEPT ![s] = Append(@, chunk)]
  /\ wire' = wire \o Cells(s, Len(sent[s]) + 1, chunk.n)
  /\ UNCHANGED edits

\* ... or an I/O error interrupts it after the first k bytes.
WriteFails(s, chunk) ==
  /\ sent' = [sent EXCEPT ![s] = Append(@, chunk)]
  /\ \E k \in 0..(chunk.n - 1) :
        wire' = wire \o SubSeq(Cells(s, Len(sent[s]) + 1, chunk.n), 1, k)
  /\ UNCHANGED edits

(***************************************************************************)
(* Damage to the stream past position p, which the reader has reached.  It *)
(* strikes at most Reach bytes further on: what happens to later bytes may *)
(* as well happen when the reader gets near them.                          *)
(***************************************************************************)
Near(p) == {q \in (p + 1)..(p + Reach) : q <= Len(wire)}

Flipped(p) == {[wire EXCEPT ![q] = Noise] : q \in Near(p)}

\* One byte is lost, or the whole tail.
Shortened(p) ==
  {SubSeq(wire, 1, q - 1) \o SubSeq(wire, q + 1, Len(wire)) : q \in Near(p)}
  \union {SubSeq(wire, 1, q - 1) : q \in Near(p)}

\* The spans of the stream that hold one whole chunk.
SpanAt(q) == <<q, q - 1 + sent[wire[q].from][wire[q].chunk].n>>
ChunkBytes ==
  {q \in 1..Len(wire) : wire[q] # Noise /\ wire[q].chunk \in DOMAIN sent[wire[q].from]}
Spans ==
  {x \in {SpanAt(q) : q \in ChunkBytes} :
     x[2] <= Len(wire) /\ Intact(SubSeq(wire, x[1], x[2]))}

\* A chunk, already read or not, appears where the reader is.
Repeated(p) ==
  {SubSeq(wire, 1, p) \o SubSeq(wire, x[1], x[2]) \o SubSeq(wire, p + 1, Len(wire)) :
     x \in Spans}

\* The next chunk changes places with a later one.
SwapOf(x, y) ==
  SubSeq(wire, 1, x[1] - 1) \o SubSeq(wire, y[1], y[2])
    \o SubSeq(wire, x[2] + 1, y[1] - 1)
    \o SubSeq(wire, x[1], x[2]) \o SubSeq(wire, y[2] + 1, Len(wire))
Swapped(p) ==
  {SwapOf(z[1], z[2]) : z \in {y \in Spans \X Spans :
                                y[1][1] = p + 1 /\ y[1][2] < y[2][1]}}

Lengthened == {Append(wire, Noise)}

Damage(p) ==
  /\ edits < MaxEdits
  /\ wire' \in Flipped(p) \union Shortened(p) \union Repeated(p)
                 \union Swapped(p) \union Lengthened
  /\ edits' = edits + 1
  /\ UNCHANGED sent
=============================================================================
