------------------------------ MODULE PadmeWalk ------------------------------
(***************************************************************************)
(* The counter `read' of encrypt_message walks through ranges of plaintext *)
(* lengths, and padding_len is asked at each what it would add there.      *)
(***************************************************************************)
EXTENDS Padme

CONSTANTS
  Starts,     \* lengths a walk starts from
  Stretch,    \* bound: its number of steps
  BLOCK_LEN,  \* 64 * 1024
  LEN_LIMIT   \* 2^24

\* No length is half of what a u64 holds: the sums of padding_len do not overflow.
ASSUME WalkAssumption ==
  /\ Starts \subseteq Nat /\ Stretch \in Nat
  /\ \A n \in Starts : \E e \in 0..62 : (n + Stretch) \div Power(2)[e] <= 1

VARIABLES start, read

vars == <<start, read>>

Init == start \in Starts /\ read = start

OneMore == read < start + Stretch /\ read' = read + 1 /\ UNCHANGED start

Spec == Init /\ [][OneMore]_vars

-----------------------------------------------------------------------------
Padded(len) == len + padding_len(len)

\* The three length bytes of a block header hold the length of the padding.
PaddingFitsItsHeader == padding_len(read) < LEN_LIMIT

\* Padding costs less than an eighth of the message.
PaddingIsCheap == 8 * padding_len(read) < read \/ padding_len(read) = 0

\* What a padded length reveals is a floating-point number: a padded length is
\* itself not padded any further, so that it stands for one class of lengths...
PaddedIsAFixedPoint == padding_len(Padded(read)) = 0

\* ... which is an interval: a longer message is never padded to a shorter one,
\* even where the step of the rule changes at a power of two.
PaddedIsMonotone == [][Padded(read) <= Padded(read')]_vars

Blocks(len) == (len + BLOCK_LEN - 1) \div BLOCK_LEN

\* Up to 64 blocks (4 MiB) the lengths of a class also have the same number of
\* blocks, and so the same length of ciphertext.  (Beyond, where the step of the
\* rule is longer than a block, the headers and tags of the blocks tell
\* lengths of one class apart.)
ClassHidesBlocks ==
  [][(Padded(read) = Padded(read') /\ read' <= 64 * BLOCK_LEN)
       => Blocks(read) = Blocks(read')]_vars
=============================================================================
