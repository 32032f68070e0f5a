------------------------------- MODULE Balloon -------------------------------
(***************************************************************************)
(* expand_key of pbenc.rs, what one thread computes: a buffer of blocks is *)
(* filled with a chain of hashes and then mixed in place, hash by hash.    *)
(*                                                                         *)
(* A hash is a random function of its inputs and of a counter that no two  *)
(* hashes share (a u64: its wrap is out of reach).  So a block is named by *)
(* the number of the hash that wrote it, and what matters of a hash is     *)
(* which blocks it read: from[c] for the c-th.                             *)
(***************************************************************************)
EXTENDS Integers, Sequences

CONSTANTS
  Sizes,   \* pairs of a length of the buffer, 2^m, and a number of rounds, 2^t
  DELTA    \* pseudo-random blocks hashed into each block

ASSUME SizesAssumption ==
  /\ Sizes \subseteq (Nat \ {0}) \X (Nat \ {0})
  /\ DELTA \in Nat \ {0}

VARIABLES
  slots,   \* buf.len()
  rounds,  \* 1 << time_cost
  at,      \* which hash! is next
  t, m, i, \* the loops' counters
  idx,     \* the index derived last
  buf,     \* buf: for each block, the hash that wrote it
  from     \* what each hash read (history); Len(from) is ctr

vars == <<slots, rounds, at, t, m, i, idx, buf, from>>

\* Inputs that no hash computed; Zero is a block as it was allocated.
Passphrase == -2
Salt       == -1
Zero       == 0

Slots == 0..(slots - 1)

Init ==
  /\ \E size \in Sizes : slots = size[1] /\ rounds = size[2]
  /\ at = "fill"
  /\ t = 0 /\ m = 0 /\ i = 0 /\ idx = 0
  /\ buf = [k \in Slots |-> Zero]
  /\ from = << >>

\* hash!(h, ctr, &mut buf[m], inputs)
HashInto(inputs) ==
  /\ from' = Append(from, inputs)
  /\ buf' = [buf EXCEPT ![m] = Len(from')]

\* Mutations of Fill: the last block is left out; the chain is begun anew at each
\* block, from the salt.
FillShort ==
  /\ at = "fill"
  /\ HashInto(IF m = 0 THEN {Passphrase, Salt} ELSE {buf[m - 1]})
  /\ IF m + 2 < slots
     THEN m' = m + 1 /\ at' = at
     ELSE m' = 0 /\ at' = "last"
  /\ UNCHANGED <<slots, rounds, t, i, idx>>
FillUnchained ==
  /\ at = "fill"
  /\ HashInto(IF m = 0 THEN {Passphrase, Salt} ELSE {Salt})
  /\ IF m + 1 < slots
     THEN m' = m + 1 /\ at' = at
     ELSE m' = 0 /\ at' = "last"
  /\ UNCHANGED <<slots, rounds, t, i, idx>>

\* Step 1: expand the input into the buffer.
Fill ==
  /\ at = "fill"
  /\ HashInto(IF m = 0 THEN {Passphrase, Salt} ELSE {buf[m - 1]})
  /\ IF m + 1 < slots
     THEN m' = m + 1 /\ at' = at
     ELSE m' = 0 /\ at' = "last"
  /\ UNCHANGED <<slots, rounds, t, i, idx>>

\* prev: 0 wraps to the last block.
Previous == (m + slots - 1) % slots

\* Step 2a: hash the last and the current block.
HashLast ==
  /\ at = "last"
  /\ HashInto({buf[Previous], buf[m]})
  /\ i' = 0
  /\ at' = "index"
  /\ UNCHANGED <<slots, rounds, t, m, idx>>

\* A mutation of HashIndex: the current block is hashed too.
HashIndexOfBlock ==
  /\ at = "index"
  /\ from' = Append(from, {Salt, buf[m]})
  /\ idx' \in Slots
  /\ at' = "pick"
  /\ UNCHANGED <<slots, rounds, t, m, i, buf>>

\* Step 2b: derive an index from the salt and the loops' counters, ...
HashIndex ==
  /\ at = "index"
  /\ from' = Append(from, {Salt})
  /\ idx' \in Slots
  /\ at' = "pick"
  /\ UNCHANGED <<slots, rounds, t, m, i, buf>>

\* A mutation of NextHash: one round too many.
NextHashLate ==
  IF i + 1 < DELTA THEN i' = i + 1 /\ at' = "index" /\ UNCHANGED <<t, m>>
  ELSE /\ i' = 0
       /\ IF m + 1 < slots THEN m' = m + 1 /\ at' = "last" /\ UNCHANGED t
          ELSE /\ m' = 0
               /\ t' = t + 1
               /\ at' = IF t < rounds THEN "last" ELSE "done"

\* The loops over i, m and t, from the innermost.
NextHash ==
  IF i + 1 < DELTA THEN i' = i + 1 /\ at' = "index" /\ UNCHANGED <<t, m>>
  ELSE /\ i' = 0
       /\ IF m + 1 < slots THEN m' = m + 1 /\ at' = "last" /\ UNCHANGED t
          ELSE /\ m' = 0
               /\ t' = t + 1
               /\ at' = IF t + 1 < rounds THEN "last" ELSE "done"

\* ... and hash the block there.
HashPicked ==
  /\ at = "pick"
  /\ HashInto({buf[idx]})
  /\ NextHash
  /\ UNCHANGED <<slots, rounds, idx>>

Next == Fill \/ HashLast \/ HashIndex \/ HashPicked

Spec == Init /\ [][Next]_vars

-----------------------------------------------------------------------------
TypeOK ==
  /\ <<slots, rounds>> \in Sizes
  /\ at \in {"fill", "last", "index", "pick", "done"}
  /\ t \in 0..rounds /\ (at # "done" => t < rounds)
  /\ m \in Slots /\ i \in 0..(DELTA - 1) /\ idx \in Slots
  /\ from \in Seq(SUBSET Int)
  /\ buf \in [Slots -> 0..Len(from)]

\* No hash reads a block as it was allocated: the chain of step 1 fills all of the
\* buffer before step 2 reads it, the last block at once.
ReadsAreFilled == \A c \in 1..Len(from) : Zero \notin from[c]

\* What a hash goes back to.
Roots(hash) ==
  LET roots[c \in 1..hash] ==
        UNION {IF x > 0 THEN roots[x] ELSE {x} : x \in from[c]}
  IN  roots[hash]

\* Whatever indices come out, every block that was written depends on the
\* passphrase and the salt, and so does the key, which is the last of them.
BlocksAreRooted ==
  \A k \in Slots : buf[k] # Zero => Roots(buf[k]) = {Passphrase, Salt}

\* The thread does the work it was asked for: each block is written once, and
\* then once for each round and again for each of DELTA blocks; each of the
\* latter takes two hashes.
CostIsPaid ==
  at = "done" => Len(from) = slots + rounds * slots * (1 + 2 * DELTA)

\* Which blocks are accessed is no function of the passphrase (docs/design.md
\* gives the resilience to timing attacks as a reason for balloon hashing).
IndexIgnoresPassphrase ==
  [][at = "index" => Passphrase \notin
       UNION {IF x > 0 THEN Roots(x) ELSE {x} : x \in from'[Len(from')]}]_vars

\* docs/design.md on step 2: `Mix buffer contents', `Hash pseudo-random and
\* current blocks'.  A block is only written over by a hash that read it.
NothingIsDiscarded ==
  [][\A k \in Slots : (buf[k] # Zero /\ buf'[k] # buf[k])
                        => buf[k] \in from'[buf'[k]]]_vars
=============================================================================
