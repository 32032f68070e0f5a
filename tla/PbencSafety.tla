----------------------------- MODULE PbencSafety -----------------------------
(***************************************************************************)
(* For any costs, passphrases and salts, in both kinds of build, and with  *)
(* the threads ending in any order: the sub-keys are mixed in by number,   *)
(* and a secret key loads only as it was stored.                           *)
(***************************************************************************)
EXTENDS Pbenc, TLAPS

\* How many threads a call spawns that spawns them all.
Spawned(as) == Shifted(as[3][3], 8)

\* While its threads are joined, a call has spawned all of them, and there is one
\* left to join.
HandlesOK ==
  /\ pc = "join" => Len(thread) = Spawned(args) /\ joined < Len(thread)
  /\ pc = "seal" => joined = Spawned(args)

\* What store wrote without an error is sealed under the sub-keys of its arguments, and
\* an untouched ciphertext in the file is the one it wrote.
FileOK ==
  /\ stored.file \in Files
  /\ call = "store" => stored.args = args
  /\ (stored.file.kind = "whole" /\ stored.file.sealed # Garbage) =>
       HoldsSubkeys(stored.file.sealed.under, stored.args, Spawned(stored.args))
  /\ (file.kind = "whole" /\ file.sealed # Garbage) =>
       /\ stored.file.kind = "whole" /\ file.sealed = stored.file.sealed
  /\ (call = "load" /\ pc \in {"join", "seal"}) => file.kind = "whole"

LEMMA ShiftedBounds == ASSUME NEW n \in Nat PROVE Shifted(n, 8) \in 1..128
<1>1. n % 8 \in 0..7
  OBVIOUS
<1>2. /\ 2^0 \in 1..128 /\ 2^1 \in 1..128 /\ 2^2 \in 1..128 /\ 2^3 \in 1..128
      /\ 2^4 \in 1..128 /\ 2^5 \in 1..128 /\ 2^6 \in 1..128 /\ 2^7 \in 1..128
  OBVIOUS
<1>3. \/ n % 8 = 0 \/ n % 8 = 1 \/ n % 8 = 2 \/ n % 8 = 3
      \/ n % 8 = 4 \/ n % 8 = 5 \/ n % 8 = 6 \/ n % 8 = 7
  BY <1>1
<1>4. QED
  BY <1>2, <1>3, Zenon DEF Shifted

LEMMA CostsAreBytes ==
  ASSUME NEW cs \in Costs PROVE cs[1] \in Nat /\ cs[2] \in Nat /\ cs[3] \in Nat
<1>1. cs \in Byte \X Byte \X Byte
  BY CostsAssumption
<1>2. cs[1] \in Byte /\ cs[2] \in Byte /\ cs[3] \in Byte
  BY <1>1
<1>3. QED
  BY <1>2 DEF Byte

LEMMA SpawnedBounds ==
  ASSUME NEW as \in Passphrases \X Salts \X Costs 
  PROVE  Spawned(as) \in 1..128 /\ Spawned(as) \in Nat
<1>1. as[3] \in Costs
  OBVIOUS
<1>2. as[3][3] \in Nat
  BY <1>1, CostsAreBytes
<1>3. Spawned(as) \in 1..128
  BY <1>2, ShiftedBounds DEF Spawned
<1>4. \A n \in 1..128 : n \in Nat
  OBVIOUS
<1>5. QED
  BY <1>3, <1>4, Zenon

LEMMA AppendFacts ==
  ASSUME NEW S, NEW seq \in Seq(S), NEW e \in S
  PROVE  /\ Append(seq, e) \in Seq(S)
         /\ Len(Append(seq, e)) = Len(seq) + 1
         /\ \A q \in 1..Len(seq) : Append(seq, e)[q] = seq[q]
         /\ Append(seq, e)[Len(seq) + 1] = e
OBVIOUS

LEMMA ExpandedTyped ==
  ASSUME NEW as \in Passphrases \X Salts \X Costs, NEW k \in Nat
  PROVE  <<"mix", "expanded-key", Expanded(as[1], as[2], as[3], k)>> \in Op
<1>1. as[1] \in Passphrases /\ as[2] \in Salts /\ as[3] \in Costs
  OBVIOUS
<1>2. as[3][1] \in Nat /\ as[3][2] \in Nat
  BY <1>1, CostsAreBytes
<1>3. \A n \in Nat : n % 64 \in 0..63
  OBVIOUS
<1>4. as[3][1] % 64 \in 0..63 /\ as[3][2] % 64 \in 0..63
  BY <1>2, <1>3, Zenon
<1>5. \A x, y \in 0..63 :
        <<as[1], as[2], x, y, k>> \in Passphrases \X Salts \X (0..63) \X (0..63) \X Nat
  BY <1>1
<1>6. Expanded(as[1], as[2], as[3], k)
        \in Passphrases \X Salts \X (0..63) \X (0..63) \X Nat
  BY <1>4, <1>5, Zenon DEF Expanded
<1>7. \A key \in Passphrases \X Salts \X (0..63) \X (0..63) \X Nat :
        <<"mix", "expanded-key", key>> \in Op
  BY DEF Op
<1>8. QED
  BY <1>6, <1>7, Zenon

\* Mixing in the next expanded sub-key gives one more.
LEMMA MixSubkey ==
  ASSUME NEW as \in Passphrases \X Salts \X Costs, NEW k \in Nat,
         NEW protocol \in Seq(Op),
         HoldsSubkeys(protocol, as, k)
  PROVE  LET mixed == Mix(protocol, "expanded-key", Expanded(as[1], as[2], as[3], k + 1))
         IN  mixed \in Seq(Op) /\ HoldsSubkeys(mixed, as, k + 1)
<1> DEFINE op(j) == <<"mix", "expanded-key", Expanded(as[1], as[2], as[3], j)>>
           mixed == Append(protocol, op(k + 1))
<1>0. k + 1 \in Nat
  OBVIOUS
<1>1. op(k + 1) \in Op
  BY <1>0, ExpandedTyped, Zenon
<1>2. Len(protocol) = k + 1 /\ \A j \in 1..k : protocol[j + 1] = op(j)
  BY DEF HoldsSubkeys
<1> HIDE DEF op
<1>3. /\ mixed \in Seq(Op) /\ Len(mixed) = k + 1 + 1
      /\ \A j \in 1..(k + 1) : mixed[j + 1] = op(j)
  <2>1. /\ mixed \in Seq(Op)
        /\ Len(mixed) = Len(protocol) + 1
        /\ \A q \in 1..Len(protocol) : mixed[q] = protocol[q]
        /\ mixed[Len(protocol) + 1] = op(k + 1)
    BY <1>1, AppendFacts
  <2> HIDE DEF mixed
  <2>2. ASSUME NEW j \in 1..(k + 1) PROVE mixed[j + 1] = op(j)
    <3>1. CASE j = k + 1
      BY <3>1, <2>1, <1>2
    <3>2. CASE j \in 1..k
      BY <3>2, <2>1, <1>2
    <3>3. QED
      BY <3>1, <3>2
  <2>3. QED
    BY <2>1, <2>2, <1>2
<1>4. QED
  BY <1>3, Zenon DEF HoldsSubkeys, Mix, op

\* A call begins with no sub-key.
LEMMA NewHoldsNone ==
  ASSUME NEW as
  PROVE  New("veil.pbenc") \in Seq(Op) /\ HoldsSubkeys(New("veil.pbenc"), as, 0)
BY DEF New, Op, HoldsSubkeys

\* Spawning threads leaves as many as the code has handles for.
LEMMA SpawnOK ==
  ASSUME NEW as \in Passphrases \X Salts \X Costs, Spawn(as[3]),
         thread \in Seq({"running", "done", "panicked"})
  PROVE  /\ thread' \in Seq({"running", "done", "panicked"})
         /\ pc' \in {"join", "Panic", "unwind"}
         /\ pc' = "join" => Len(thread') = Spawned(as) /\ Spawned(as) \in 1..128
<1>1. Spawned(as) \in 1..128 /\ Spawned(as) \in Nat
  BY SpawnedBounds
<1>2. \A n \in Nat : /\ [k \in 1..n |-> "running"] \in Seq({"running", "done", "panicked"})
                     /\ Len([k \in 1..n |-> "running"]) = n
  OBVIOUS
<1>3. \A n \in Threads(as[3]) : n - 1 \in Nat
  BY <1>1 DEF Threads, Spawned
<1>0. Threads(as[3]) = 1..Spawned(as)
  BY DEF Threads, Spawned
<1>4. CASE thread' = [k \in Threads(as[3]) |-> "running"] /\ pc' = "join"
  <2>1. thread' = [k \in 1..Spawned(as) |-> "running"]
    BY <1>0, <1>4
  <2>2. thread' \in Seq({"running", "done", "panicked"}) /\ Len(thread') = Spawned(as)
    BY <2>1, <1>1, <1>2
  <2>3. QED
    BY <2>2, <1>1, <1>4
<1>5. CASE pc' = "Panic" /\ thread' = thread
  BY <1>5
<1>6. CASE pc' = "unwind" /\ \E n \in Threads(as[3]) : thread' = [k \in 1..(n - 1) |-> "running"]
  BY <1>2, <1>3, <1>6
<1>7. QED
  BY <1>4, <1>5, <1>6 DEF Spawn

Inv == TypeOK /\ SubkeysInOrder /\ HandlesOK /\ FileOK /\ LoadedIsStored

\* The arguments of a call have their types, and so do the parts of them.
LEMMA ArgsTyped ==
  ASSUME TypeOK
  PROVE  /\ passphrase \in Passphrases /\ salt \in Salts /\ costs \in Costs
         /\ args \in Passphrases \X Salts \X Costs
         /\ Spawned(args) = Shifted(costs[3], 8)
BY DEF TypeOK, passphrase, salt, costs, Spawned

LEMMA StoreKeeps == Inv /\ Store => Inv'
<1> SUFFICES ASSUME Inv, Store PROVE Inv'
  OBVIOUS
<1> USE DEF Inv
<1>1. /\ thread' \in Seq({"running", "done", "panicked"})
      /\ pc' \in {"join", "Panic", "unwind"}
      /\ pc' = "join" => Len(thread') = Spawned(args) /\ Spawned(args) \in 1..128
  BY ArgsTyped, SpawnOK DEF Store, TypeOK, costs
<1>2. /\ pbenc' \in Seq(Op) /\ HoldsSubkeys(pbenc', args, 0) /\ joined' = 0
  BY NewHoldsNone DEF Store, Fresh
<1>3. UNCHANGED <<checked, call, args, file, stored>> /\ call = "store"
  BY DEF Store
<1>4. TypeOK'
  BY <1>1, <1>2, <1>3 DEF TypeOK, Ended
<1>5. SubkeysInOrder'
  <2>1. Len(pbenc') = joined' + 1 /\ 1..joined' = {}
    BY <1>2 DEF HoldsSubkeys
  <2>2. HoldsSubkeys(pbenc, args, joined)'
    BY <2>1 DEF HoldsSubkeys
  <2>3. QED
    BY <2>2, <1>1 DEF SubkeysInOrder
<1>6. HandlesOK'
  <2>1. Spawned(args)' = Spawned(args)
    BY <1>3 DEF Spawned, Shifted
  <2>2. \A n \in 1..128 : 0 < n
    OBVIOUS
  <2>3. pc' = "join" => joined' < Len(thread')
    BY <1>1, <1>2, <2>2, Zenon
  <2>4. pc' # "seal"
    BY <1>1
  <2>5. QED
    BY <2>1, <2>3, <2>4, <1>1, Zenon DEF HandlesOK
<1>7. FileOK' /\ LoadedIsStored'
  BY <1>3 DEF FileOK, LoadedIsStored, Spawned
<1>8. QED
  BY <1>4, <1>5, <1>6, <1>7

LEMMA ThreadKeeps == ASSUME NEW k \in DOMAIN thread PROVE Inv /\ ThreadEnds(k) => Inv'
<1> SUFFICES ASSUME Inv, ThreadEnds(k) PROVE Inv'
  OBVIOUS
<1> USE DEF Inv
<1>1. thread' \in Seq({"running", "done", "panicked"}) /\ Len(thread') = Len(thread)
  BY DEF ThreadEnds, TypeOK
<1>2. UNCHANGED <<checked, call, pc, args, joined, pbenc, file, stored>>
  BY DEF ThreadEnds
<1>3. TypeOK'
  BY <1>1, <1>2 DEF TypeOK
<1>4. QED
  BY <1>1, <1>2, <1>3 DEF SubkeysInOrder, HandlesOK, FileOK, LoadedIsStored,
                          passphrase, salt, costs, Spawned

LEMMA JoinKeeps == Inv /\ Join => Inv'
<1> SUFFICES ASSUME Inv, Join PROVE Inv'
  OBVIOUS
<1> USE DEF Inv
<1>0. /\ UNCHANGED <<checked, call, args, thread, file, stored>>
      /\ pc = "join" /\ joined \in Nat /\ joined + 1 <= Len(thread)
      /\ Len(thread) = Spawned(args)
  BY DEF Join, TypeOK, HandlesOK
<1>1. FileOK'
  BY <1>0 DEF FileOK, Join
<1>2. LoadedIsStored'
  BY <1>0 DEF LoadedIsStored, Join
<1>3. CASE pc' = "unwind" /\ UNCHANGED <<pbenc, joined>>
  BY <1>0, <1>1, <1>2, <1>3 DEF TypeOK, SubkeysInOrder, HandlesOK
<1>4. CASE /\ pbenc' = Mix(pbenc, "expanded-key", Expanded(passphrase, salt, costs, joined + 1))
           /\ joined' = joined + 1
           /\ pc' = IF joined + 1 = Len(thread) THEN "seal" ELSE pc
  <2>1. HoldsSubkeys(pbenc, args, joined) /\ pbenc \in Seq(Op)
    BY <1>0 DEF SubkeysInOrder, TypeOK
  <2>2. pbenc' \in Seq(Op) /\ HoldsSubkeys(pbenc', args, joined + 1)
    BY <2>1, <1>0, <1>4, ArgsTyped, MixSubkey DEF passphrase, salt, costs
  <2>3. TypeOK'
    BY <2>2, <1>0, <1>4 DEF TypeOK
  <2>4. SubkeysInOrder'
    BY <2>2, <1>0, <1>4, ArgsTyped DEF SubkeysInOrder, costs
  <2>5. HandlesOK'
    BY <1>0, <1>4 DEF HandlesOK, Spawned
  <2>6. QED
    BY <2>3, <2>4, <2>5, <1>1, <1>2
<1>5. QED
  BY <1>3, <1>4 DEF Join

LEMMA UnwindKeeps == Inv /\ Unwind => Inv'
BY DEF Inv, Unwind, TypeOK, Ended, SubkeysInOrder, HandlesOK, FileOK, LoadedIsStored

LEMMA ChangeKeeps == Inv /\ Change => Inv'
<1> SUFFICES ASSUME Inv, Change PROVE Inv'
  OBVIOUS
<1> USE DEF Inv
<1>1. UNCHANGED <<checked, call, pc, args, thread, joined, pbenc, stored>> /\ call = "store"
  BY DEF Change
<1>2. file' \in Files /\ (file'.kind = "whole" => file'.sealed \in {file.sealed, Garbage})
  <2>1. CASE file' = Short
    BY <2>1 DEF Files, Short
  <2>2. ASSUME NEW cs \in Costs, NEW s \in Salts, NEW c \in {file.sealed, Garbage},
               file' = Whole(cs, s, c)
        PROVE  file' \in Files /\ file'.sealed \in {file.sealed, Garbage}
    <3>1. file.sealed \in Bytes
      BY DEF Change, TypeOK, Files, NoFile, Short
    <3>2. c \in Bytes
      BY <3>1 DEF Bytes
    <3>3. QED
      BY <2>2, <3>2 DEF Whole, Files
  <2>3. QED
    BY <2>1, <2>2 DEF Change
<1>3. file.kind = "whole"
  BY DEF Change
<1>4. QED
  BY <1>1, <1>2, <1>3 DEF TypeOK, SubkeysInOrder, HandlesOK, FileOK, LoadedIsStored,
                          passphrase, salt, costs, Spawned

LEMMA SealKeeps == Inv /\ Seal => Inv'
<1> SUFFICES ASSUME Inv, Seal PROVE Inv'
  OBVIOUS
<1> USE DEF Inv
<1>0. /\ UNCHANGED <<checked, call, args, thread, joined, pbenc>>
      /\ call = "store" /\ pc = "seal" /\ pc' \in {"Ok", "WriteIo"}
      /\ stored' = [stored EXCEPT !.file = file'] /\ stored.args = args
  BY DEF Seal, FileOK
<1>1. pbenc \in Seq(Op) /\ HoldsSubkeys(pbenc, args, Spawned(args))
  BY <1>0 DEF TypeOK, SubkeysInOrder, HandlesOK
<1>2. costs \in Costs /\ salt \in Salts
  BY ArgsTyped
<1>3. CASE file' = Whole(costs, salt, Ciphertext(pbenc, "secret", Seed, 1))
  <2>1. Ciphertext(pbenc, "secret", Seed, 1) \in Bytes
    BY <1>1 DEF Ciphertext, Bytes
  <2>2. file' \in Files
    BY <1>2, <1>3, <2>1 DEF Whole, Files
  <2>3. /\ file'.kind = "whole" /\ file'.sealed.under = pbenc
        /\ stored'.file = file' /\ stored'.args = args
    BY <1>0, <1>3 DEF Whole, Ciphertext, TypeOK
  <2>4. TypeOK'
    BY <1>0, <2>2 DEF TypeOK, Ended
  <2>5. HoldsSubkeys(stored'.file.sealed.under, stored'.args, Spawned(stored'.args))
    BY <2>3, <1>1
  <2>6. FileOK'
    BY <2>2, <2>3, <2>5, <1>0 DEF FileOK, Spawned
  <2>7. QED
    BY <1>0, <2>4, <2>6 DEF SubkeysInOrder, HandlesOK, LoadedIsStored
<1>4. CASE file' \in {Short, Whole(costs, salt, Garbage)}
  <2>1. file' \in Files /\ (file'.kind = "whole" => file'.sealed = Garbage)
    BY <1>2, <1>4 DEF Whole, Files, Short, Bytes
  <2>2. stored'.file = file' /\ stored'.args = args
    BY <1>0 DEF TypeOK
  <2>3. TypeOK'
    BY <1>0, <2>1 DEF TypeOK, Ended
  <2>4. FileOK'
    BY <2>1, <2>2, <1>0 DEF FileOK, Spawned
  <2>5. QED
    BY <1>0, <2>3, <2>4 DEF SubkeysInOrder, HandlesOK, LoadedIsStored
<1>5. QED
  BY <1>3, <1>4 DEF Seal

LEMMA LoadKeeps == Inv /\ Load => Inv'
<1> SUFFICES ASSUME Inv, Load PROVE Inv'
  OBVIOUS
<1> USE DEF Inv
<1>0. UNCHANGED <<checked, file, stored>> /\ call' = "load"
  BY DEF Load
<1>1. pbenc' \in Seq(Op) /\ Len(pbenc') = 1 /\ joined' = 0
  BY NewHoldsNone DEF Load, Fresh, HoldsSubkeys
<1>2. /\ args' \in Passphrases \X Salts \X Costs
      /\ thread' \in Seq({"running", "done", "panicked"})
      /\ pc' \in {"join", "Panic", "unwind", "InvalidCiphertext", "ReadIo"}
      /\ pc' = "join" => /\ file.kind = "whole"
                         /\ Len(thread') = Spawned(args') /\ Spawned(args') \in 1..128
  <2> PICK p \in Passphrases :
       \/ /\ file.kind = "whole"
          /\ args' = <<p, file.salt, file.costs>>
          /\ Spawn(file.costs)
       \/ /\ file.kind = "short"
          /\ args' = <<p, salt, costs>>
          /\ pc' = "InvalidCiphertext"
          /\ UNCHANGED thread
       \/ /\ args' = <<p, salt, costs>>
          /\ pc' = "ReadIo"
          /\ UNCHANGED thread
    BY DEF Load
  <2>1. CASE file.kind = "whole" /\ args' = <<p, file.salt, file.costs>> /\ Spawn(file.costs)
    <3>1. file.salt \in Salts /\ file.costs \in Costs
      BY <2>1 DEF TypeOK, Files, NoFile, Short
    <3>2. args' \in Passphrases \X Salts \X Costs /\ args'[3] = file.costs
      BY <2>1, <3>1
    <3>3. thread \in Seq({"running", "done", "panicked"})
      BY DEF TypeOK
    <3>4. Spawn(args'[3])
      BY <2>1, <3>2
    <3>5. QED
      BY <2>1, <3>2, <3>3, <3>4, SpawnOK
  <2>2. CASE args' = <<p, salt, costs>> /\ pc' \in {"InvalidCiphertext", "ReadIo"} /\ UNCHANGED thread
    BY <2>2, ArgsTyped DEF TypeOK
  <2>3. QED
    BY <2>1, <2>2
<1>3. TypeOK'
  BY <1>0, <1>1, <1>2 DEF TypeOK, Ended
<1>4. SubkeysInOrder'
  <2>1. HoldsSubkeys(pbenc, args, joined)'
    BY <1>1 DEF HoldsSubkeys
  <2>2. QED
    BY <2>1, <1>2 DEF SubkeysInOrder
<1>5. HandlesOK'
  <2>1. Spawned(args)' = Spawned(args')
    BY DEF Spawned, Shifted
  <2>2. \A n \in 1..128 : 0 < n
    OBVIOUS
  <2>3. pc' = "join" => joined' < Len(thread')
    BY <1>1, <1>2, <2>2, Zenon
  <2>4. pc' # "seal"
    BY <1>2
  <2>5. QED
    BY <2>1, <2>3, <2>4, <1>2, Zenon DEF HandlesOK
<1>6. FileOK'
  BY <1>0, <1>2 DEF FileOK, Spawned
<1>7. LoadedIsStored'
  BY <1>2 DEF LoadedIsStored
<1>8. QED
  BY <1>3, <1>4, <1>5, <1>6, <1>7

\* Two protocols that are one hold the sub-keys of the same secrets and costs.
LEMMA SubkeysAgree ==
  ASSUME NEW protocol,
         NEW as \in Passphrases \X Salts \X Costs,
         NEW bs \in Passphrases \X Salts \X Costs,
         HoldsSubkeys(protocol, as, Spawned(as)),
         HoldsSubkeys(protocol, bs, Spawned(bs))
  PROVE  /\ Spawned(as) = Spawned(bs)
         /\ as[1] = bs[1] /\ as[2] = bs[2]
         /\ as[3][1] % 64 = bs[3][1] % 64 /\ as[3][2] % 64 = bs[3][2] % 64
<1>1. /\ Spawned(as) \in 1..128 /\ Spawned(as) \in Nat
      /\ Spawned(bs) \in 1..128 /\ Spawned(bs) \in Nat
  BY SpawnedBounds
<1>2. Len(protocol) = Spawned(as) + 1 /\ Len(protocol) = Spawned(bs) + 1
  BY DEF HoldsSubkeys
<1>3. \A x, y \in Nat : x + 1 = y + 1 => x = y
  OBVIOUS
<1>4. Spawned(as) = Spawned(bs)
  BY <1>1, <1>2, <1>3, Zenon
<1>5. \A n \in 1..128 : 1 \in 1..n
  OBVIOUS
<1>6. 1 \in 1..Spawned(as) /\ 1 \in 1..Spawned(bs)
  BY <1>1, <1>5, Zenon
<1>7. /\ protocol[1 + 1] = <<"mix", "expanded-key", Expanded(as[1], as[2], as[3], 1)>>
      /\ protocol[1 + 1] = <<"mix", "expanded-key", Expanded(bs[1], bs[2], bs[3], 1)>>
  BY <1>6, Zenon DEF HoldsSubkeys
<1>8. \A x, y : <<"mix", "expanded-key", x>> = <<"mix", "expanded-key", y>> => x = y
  OBVIOUS
<1>9. Expanded(as[1], as[2], as[3], 1) = Expanded(bs[1], bs[2], bs[3], 1)
  BY <1>7, <1>8, Zenon
<1>10. \A p1, s1, t1, m1, p2, s2, t2, m2 :
        <<p1, s1, t1, m1, 1>> = <<p2, s2, t2, m2, 1>> =>
          p1 = p2 /\ s1 = s2 /\ t1 = t2 /\ m1 = m2
  OBVIOUS
<1>11. QED
  BY <1>4, <1>9, <1>10, Zenon DEF Expanded

LEMMA OpenKeeps == Inv /\ Open => Inv'
<1> SUFFICES ASSUME Inv, Open PROVE Inv'
  OBVIOUS
<1> USE DEF Inv
<1>0. /\ UNCHANGED <<checked, call, args, thread, joined, pbenc, file, stored>>
      /\ call = "load" /\ pc = "seal" /\ pc' \in {"Ok", "InvalidCiphertext"}
  BY DEF Open
<1>1. TypeOK' /\ SubkeysInOrder' /\ HandlesOK' /\ FileOK'
  BY <1>0 DEF TypeOK, Ended, SubkeysInOrder, HandlesOK, FileOK, Spawned
<1>2. CASE ~Opened
  BY <1>1, <1>2, <1>0 DEF Open, LoadedIsStored
<1>3. CASE Opened
  <2>1. file.kind = "whole" /\ file.sealed # Garbage /\ file.sealed.under = pbenc
    BY <1>3, <1>0 DEF Opened, Opens, FileOK
  <2>2. /\ stored.file.kind = "whole" /\ file.sealed = stored.file.sealed
        /\ HoldsSubkeys(pbenc, stored.args, Spawned(stored.args))
    BY <2>1 DEF FileOK
  <2>3. HoldsSubkeys(pbenc, args, Spawned(args))
    BY <1>0 DEF SubkeysInOrder, HandlesOK
  <2>4. args \in Passphrases \X Salts \X Costs /\ stored.args \in Passphrases \X Salts \X Costs
    BY DEF TypeOK
  <2>5. /\ Spawned(args) = Spawned(stored.args)
        /\ args[1] = stored.args[1] /\ args[2] = stored.args[2]
        /\ args[3][1] % 64 = stored.args[3][1] % 64
        /\ args[3][2] % 64 = stored.args[3][2] % 64
    BY <2>2, <2>3, <2>4, SubkeysAgree
  <2>6. file.sealed.plain = Seed
    BY <2>1 DEF TypeOK, Files, NoFile, Short, Bytes
  <2>7. Threads(args[3]) = Threads(stored.args[3])
    BY <2>5 DEF Threads, Spawned
  <2>8. \A k : Expanded(args[1], args[2], args[3], k)
                 = Expanded(args[1], args[2], stored.args[3], k)
    BY <2>5, Zenon DEF Expanded
  <2>9. LoadedIsStored'
    BY <1>0, <2>2, <2>5, <2>6, <2>7, <2>8, Zenon DEF LoadedIsStored, passphrase, salt, costs
  <2>10. QED
    BY <1>1, <2>9
<1>4. QED
  BY <1>2, <1>3

\* Every step of the two calls keeps the invariant.
LEMMA NextKeeps == Inv /\ [Next]_vars => Inv'
<1> SUFFICES ASSUME Inv, [Next]_vars PROVE Inv'
  OBVIOUS
<1>1. CASE UNCHANGED vars
  BY <1>1 DEF vars, Inv, TypeOK, SubkeysInOrder, HandlesOK, FileOK, LoadedIsStored,
              passphrase, salt, costs, Spawned
<1>2. CASE \E k \in DOMAIN thread : ThreadEnds(k)
  BY <1>2, ThreadKeeps
<1>3. QED
  BY <1>1, <1>2, StoreKeeps, JoinKeeps, UnwindKeeps, SealKeeps, LoadKeeps, OpenKeeps,
     ChangeKeeps DEF Next

LEMMA InitHolds == Init => Inv
<1> SUFFICES ASSUME Init PROVE Inv
  OBVIOUS
<1>1. TypeOK
  BY DEF Init, TypeOK, Files
<1>2. QED
  BY <1>1 DEF Init, Inv, SubkeysInOrder, HandlesOK, FileOK, LoadedIsStored, NoFile, Files

\* In every behaviour, whatever the order in which the threads end, the sub-keys of
\* pbenc's init are mixed in by number, and all of them before anything is sealed
\* or opened.
THEOREM SubkeysCorrect == Spec => []SubkeysInOrder
<1>1. Inv => SubkeysInOrder
  BY DEF Inv
<1>2. QED
  BY <1>1, InitHolds, NextKeeps, PTL DEF Spec

\* For every choice of costs, and in both kinds of build: when SecretKey::load
\* returns a key, it is the one that was stored, under the same passphrase and
\* salt, with the same number of threads, rounds and blocks.
THEOREM LoadedCorrect == Spec => []LoadedIsStored
<1>1. Inv => LoadedIsStored
  BY DEF Inv
<1>2. QED
  BY <1>1, InitHolds, NextKeeps, PTL DEF Spec
\* The types of pbenc.rs's variables: every protocol is built of sub-keys alone, a file is
\* none, short or whole, and no more handles are joined than there are.
THEOREM TypesCorrect == Spec => []TypeOK
<1>1. Inv => TypeOK
  BY DEF Inv
<1>2. QED
  BY <1>1, InitHolds, NextKeeps, PTL DEF Spec

-----------------------------------------------------------------------------
\* Do the costs of the call make its threads panic, or init before it has any?
Certain == ThreadPanics(costs)
Refused == Overflows(costs[3], 8)

First == <<"new", "domain", "veil.pbenc">>

\* How the threads end is decided by the costs; a call that goes wrong has costs that
\* make it, or lacks a thread.
WorkOK ==
  /\ pc \in {"join", "seal"} => ~Refused /\ pbenc[1] = First
  /\ pc \in {"join", "unwind"} =>
       \A k \in DOMAIN thread : /\ thread[k] = "panicked" => Certain
                                /\ thread[k] = "done" => ~Certain
  /\ (pc \in {"join", "seal"} /\ joined > 0) => ~Certain
  /\ pc \in {"unwind", "Panic"} => Len(thread) < Spawned(args) \/ Certain \/ Refused
  /\ call = "load" =>
       /\ pc \notin {"start", "WriteIo"}
       /\ (file.kind = "whole" /\ pc # "ReadIo") => args[2] = file.salt /\ args[3] = file.costs

\* What store wrote without an error says with which costs it was, and they do no harm.
StoredOK ==
  (stored.file.kind = "whole" /\ stored.file.sealed # Garbage) =>
    /\ stored.file.costs = stored.args[3] /\ stored.file.salt = stored.args[2]
    /\ ~Overflows(stored.args[3][3], 8) /\ ~ThreadPanics(stored.args[3])
    /\ stored.file.sealed.label = "secret" /\ stored.file.sealed.under[1] = First

LEMMA CostsDecide ==
  ASSUME UNCHANGED <<checked, args>>
  PROVE  (Certain' <=> Certain) /\ (Refused' <=> Refused) /\ Spawned(args)' = Spawned(args)
BY DEF Certain, Refused, ThreadPanics, Overflows, costs, Spawned, Shifted

LEMMA StoredKept ==
  ASSUME UNCHANGED <<checked, stored>>, StoredOK PROVE StoredOK'
BY DEF StoredOK, ThreadPanics, Overflows

\* Two protocols with the sub-keys of one call are one.
LEMMA ProtocolsAgree ==
  ASSUME NEW p \in Seq(Op), NEW q \in Seq(Op), NEW as, NEW n \in Nat,
         HoldsSubkeys(p, as, n), HoldsSubkeys(q, as, n), p[1] = q[1]
  PROVE  p = q
<1> DEFINE op(k) == <<"mix", "expanded-key", Expanded(as[1], as[2], as[3], k)>>
<1>1. /\ Len(p) = n + 1 /\ Len(q) = n + 1
      /\ \A k \in 1..n : p[k + 1] = op(k) /\ q[k + 1] = op(k)
  BY DEF HoldsSubkeys
<1> HIDE DEF op
<1>2. ASSUME NEW j \in 1..(n + 1) PROVE p[j] = q[j]
  <2>1. CASE j = 1  BY <2>1
  <2>2. CASE j # 1
    <3>1. j - 1 \in 1..n /\ (j - 1) + 1 = j  BY <2>2
    <3>2. QED  BY <1>1, <3>1
  <2>3. QED  BY <2>1, <2>2
<1>3. QED  BY <1>1, <1>2

\* Threads that were just spawned have not ended.
LEMMA SpawnWork ==
  ASSUME NEW cs, Spawn(cs), thread \in Seq({"running", "done", "panicked"}),
         Threads(cs) = 1..Shifted(cs[3], 8), Shifted(cs[3], 8) \in Nat
  PROVE  /\ pc' \in {"join", "unwind"} => \A k \in DOMAIN thread' : thread'[k] = "running"
         /\ pc' = "join" => ~Overflows(cs[3], 8)
         /\ pc' = "Panic" => Overflows(cs[3], 8)
         /\ pc' = "unwind" => Len(thread') < Shifted(cs[3], 8)
<1>1. CASE pc' = "unwind"
  <2>1. PICK n \in 1..Shifted(cs[3], 8) : thread' = [k \in 1..(n - 1) |-> "running"]
    BY <1>1 DEF Spawn
  <2>2. Len(thread') = n - 1 /\ n - 1 < Shifted(cs[3], 8)  BY <2>1
  <2>3. QED  BY <1>1, <2>1, <2>2
<1>2. CASE pc' # "unwind"  BY <1>2 DEF Spawn
<1>3. QED  BY <1>1, <1>2

LEMMA StoreWorks ==
  ASSUME TypeOK, WorkOK, StoredOK, Store
  PROVE  WorkOK' /\ StoredOK'
<1>1. /\ Spawn(costs) /\ Fresh /\ UNCHANGED <<checked, call, args, file, stored>>
      /\ call = "store" /\ thread \in Seq({"running", "done", "panicked"})
  BY DEF Store, TypeOK
<1>2. Threads(costs) = 1..Shifted(costs[3], 8) /\ Shifted(costs[3], 8) \in Nat
      /\ Spawned(args) = Shifted(costs[3], 8)
  BY ArgsTyped, SpawnedBounds DEF Threads
<1>3. /\ pc' \in {"join", "unwind"} => \A k \in DOMAIN thread' : thread'[k] = "running"
      /\ pc' = "join" => ~Overflows(costs[3], 8)
      /\ pc' = "Panic" => Overflows(costs[3], 8)
      /\ pc' = "unwind" => Len(thread') < Shifted(costs[3], 8)
  BY <1>1, <1>2, SpawnWork
<1>4. pc' \in {"join", "Panic", "unwind"} /\ joined' = 0 /\ pbenc'[1] = First
  BY <1>1 DEF Spawn, Fresh, New, First
<1>5. (Certain' <=> Certain) /\ (Refused' <=> Refused) /\ Spawned(args)' = Spawned(args)
  BY <1>1, CostsDecide
<1>6. WorkOK'  BY <1>1, <1>2, <1>3, <1>4, <1>5 DEF WorkOK, Refused
<1>7. QED  BY <1>1, <1>6, StoredKept

LEMMA ThreadWorks ==
  ASSUME TypeOK, WorkOK, StoredOK, NEW k \in DOMAIN thread, ThreadEnds(k)
  PROVE  WorkOK' /\ StoredOK'
<1>1. /\ UNCHANGED <<checked, call, pc, args, joined, pbenc, file, stored>>
      /\ thread' = [thread EXCEPT ![k] = IF Certain THEN "panicked" ELSE "done"]
      /\ thread \in Seq({"running", "done", "panicked"})
  BY DEF ThreadEnds, TypeOK, Certain
<1>2. /\ DOMAIN thread' = DOMAIN thread /\ Len(thread') = Len(thread)
      /\ thread'[k] = (IF Certain THEN "panicked" ELSE "done")
      /\ \A j \in DOMAIN thread \ {k} : thread'[j] = thread[j]
  BY <1>1
<1>3. (Certain' <=> Certain) /\ (Refused' <=> Refused) /\ Spawned(args)' = Spawned(args)
  BY <1>1, CostsDecide
<1>4. WorkOK'
  <2>1. pc \in {"join", "unwind"} =>
          \A j \in DOMAIN thread' : /\ thread'[j] = "panicked" => Certain
                                    /\ thread'[j] = "done" => ~Certain
    BY <1>2 DEF WorkOK
  <2>2. QED  BY <1>1, <1>2, <1>3, <2>1 DEF WorkOK
<1>5. QED  BY <1>1, <1>4, StoredKept

LEMMA JoinWorks ==
  ASSUME TypeOK, HandlesOK, SubkeysInOrder, WorkOK, StoredOK, Join
  PROVE  WorkOK' /\ StoredOK'
<1>1. /\ UNCHANGED <<checked, call, args, thread, file, stored>> /\ pc = "join"
      /\ joined \in Nat /\ joined + 1 \in DOMAIN thread
      /\ thread \in Seq({"running", "done", "panicked"})
  BY DEF Join, TypeOK, HandlesOK
<1>2. (Certain' <=> Certain) /\ (Refused' <=> Refused) /\ Spawned(args)' = Spawned(args)
  BY <1>1, CostsDecide
<1>3. CASE thread[joined + 1] = "panicked" /\ pc' = "unwind" /\ UNCHANGED <<pbenc, joined>>
  <2>1. Certain  BY <1>1, <1>3 DEF WorkOK
  <2>2. QED  BY <1>1, <1>2, <1>3, <2>1, StoredKept DEF WorkOK
<1>4. CASE /\ thread[joined + 1] = "done" /\ joined' = joined + 1
           /\ pbenc' = Mix(pbenc, "expanded-key", Expanded(passphrase, salt, costs, joined + 1))
           /\ pc' \in {"join", "seal"}
  <2>1. ~Certain  BY <1>1, <1>4 DEF WorkOK
  <2>2. pbenc'[1] = pbenc[1]
    <3>1. pbenc \in Seq(Op) /\ Len(pbenc) = joined + 1
      BY <1>1 DEF TypeOK, SubkeysInOrder, HoldsSubkeys
    <3>2. 1 \in 1..Len(pbenc)  BY <1>1, <3>1
    <3>3. QED  BY <1>4, <3>1, <3>2 DEF Mix
  <2>3. QED  BY <1>1, <1>2, <1>4, <2>1, <2>2, StoredKept DEF WorkOK
<1>5. QED  BY <1>1, <1>3, <1>4 DEF Join

LEMMA UnwindWorks ==
  ASSUME WorkOK, StoredOK, Unwind PROVE WorkOK' /\ StoredOK'
<1>1. /\ UNCHANGED <<checked, call, args, thread, joined, pbenc, file, stored>>
      /\ pc = "unwind" /\ pc' = "Panic"
  BY DEF Unwind
<1>2. QED  BY <1>1, CostsDecide, StoredKept DEF WorkOK

LEMMA ChangeWorks ==
  ASSUME WorkOK, StoredOK, Change PROVE WorkOK' /\ StoredOK'
<1>1. /\ UNCHANGED <<checked, call, pc, args, thread, joined, pbenc, stored>>
      /\ call = "store"
  BY DEF Change
<1>2. QED  BY <1>1, CostsDecide, StoredKept DEF WorkOK

LEMMA SealWorks ==
  ASSUME TypeOK, HandlesOK, FileOK, WorkOK, StoredOK, Seal
  PROVE  WorkOK' /\ StoredOK'
<1>1. /\ UNCHANGED <<checked, call, args, thread, joined, pbenc>>
      /\ call = "store" /\ pc = "seal" /\ pc' \in {"Ok", "WriteIo"}
      /\ stored' = [stored EXCEPT !.file = file'] /\ stored.args = args
  BY DEF Seal, FileOK
<1>2. stored'.file = file' /\ stored'.args = args  BY <1>1 DEF TypeOK
<1>3. WorkOK'  BY <1>1 DEF WorkOK
<1>4. ~Certain /\ ~Refused /\ pbenc[1] = First
  <2>1. joined \in 1..128  BY <1>1, ArgsTyped, SpawnedBounds DEF HandlesOK
  <2>2. QED  BY <1>1, <2>1 DEF WorkOK
<1>5. CASE file' = Whole(costs, salt, Ciphertext(pbenc, "secret", Seed, 1))
  <2>1. /\ file'.costs = args[3] /\ file'.salt = args[2]
        /\ file'.sealed.label = "secret" /\ file'.sealed.under = pbenc
    BY <1>5 DEF Whole, Ciphertext, costs, salt
  <2>2. ~Overflows(args[3][3], 8)' /\ ~ThreadPanics(args[3])'
    BY <1>1, <1>4 DEF Certain, Refused, ThreadPanics, Overflows, costs
  <2>3. QED  BY <1>1, <1>2, <1>3, <1>4, <2>1, <2>2 DEF StoredOK, ThreadPanics, Overflows
<1>6. CASE file' \in {Short, Whole(costs, salt, Garbage)}
  <2>1. file'.kind = "whole" => file'.sealed = Garbage  BY <1>6 DEF Short, Whole
  <2>2. QED  BY <1>2, <1>3, <2>1 DEF StoredOK
<1>7. QED  BY <1>5, <1>6 DEF Seal

LEMMA LoadWorks ==
  ASSUME TypeOK, WorkOK, StoredOK, Load
  PROVE  WorkOK' /\ StoredOK' /\ StoredLoads'
<1>1. /\ UNCHANGED <<checked, file, stored>> /\ call' = "load" /\ Fresh
      /\ thread \in Seq({"running", "done", "panicked"})
  BY DEF Load, TypeOK
<1>2. StoredOK'  BY <1>1, StoredKept
<1>3. joined' = 0 /\ pbenc'[1] = First  BY <1>1 DEF Fresh, New, First
<1>4. PICK p \in Passphrases :
       \/ /\ file.kind = "whole"
          /\ args' = <<p, file.salt, file.costs>>
          /\ Spawn(file.costs)
       \/ /\ file.kind = "short"
          /\ args' = <<p, salt, costs>>
          /\ pc' = "InvalidCiphertext"
          /\ UNCHANGED thread
       \/ /\ args' = <<p, salt, costs>>
          /\ pc' = "ReadIo"
          /\ UNCHANGED thread
  BY DEF Load
<1>5. CASE file.kind = "whole" /\ args' = <<p, file.salt, file.costs>> /\ Spawn(file.costs)
  <2>1. file.costs \in Costs  BY <1>5 DEF TypeOK, Files, NoFile, Short
  <2>2. /\ Threads(file.costs) = 1..Shifted(file.costs[3], 8)
        /\ Shifted(file.costs[3], 8) \in Nat
    <3>1. file.costs[3] \in Nat  BY <2>1, CostsAreBytes
    <3>2. Shifted(file.costs[3], 8) \in 1..128  BY <3>1, ShiftedBounds
    <3>3. QED  BY <3>2 DEF Threads
  <2>3. /\ pc' \in {"join", "unwind"} => \A k \in DOMAIN thread' : thread'[k] = "running"
        /\ pc' = "join" => ~Overflows(file.costs[3], 8)
        /\ pc' = "Panic" => Overflows(file.costs[3], 8)
        /\ pc' = "unwind" => Len(thread') < Shifted(file.costs[3], 8)
    BY <1>1, <1>5, <2>2, SpawnWork
  <2>4. pc' \in {"join", "Panic", "unwind"}  BY <1>5 DEF Spawn
  <2>5. /\ costs' = file.costs /\ args'[2] = file.salt /\ args'[3] = file.costs
    BY <1>5 DEF costs
  <2>6. /\ Refused' <=> Overflows(file.costs[3], 8)
        /\ Spawned(args)' = Shifted(file.costs[3], 8)
    BY <1>1, <2>5 DEF Refused, Overflows, Spawned, Shifted
  <2>7. WorkOK'  BY <1>1, <1>3, <2>3, <2>4, <2>5, <2>6 DEF WorkOK
  <2>8. StoredLoads'
    <3>1. SUFFICES ASSUME file = stored.file, file.kind = "whole", file.sealed # Garbage,
                          pc' = "Panic"
                   PROVE  FALSE
      BY <1>1, <2>4 DEF StoredLoads, Ended
    <3>2. Overflows(file.costs[3], 8)  BY <2>3, <3>1
    <3>3. QED  BY <3>1, <3>2 DEF StoredOK
  <2>9. QED  BY <1>2, <2>7, <2>8
<1>6. CASE /\ pc' \in {"InvalidCiphertext", "ReadIo"}
           /\ pc' = "InvalidCiphertext" => file.kind = "short"
  <2>1. WorkOK'  BY <1>1, <1>6 DEF WorkOK
  <2>2. StoredLoads'  BY <1>1, <1>6 DEF StoredLoads
  <2>3. QED  BY <1>2, <2>1, <2>2
<1>7. QED  BY <1>4, <1>5, <1>6

LEMMA OpenWorks ==
  ASSUME TypeOK, SubkeysInOrder, HandlesOK, FileOK, WorkOK, StoredOK, Open
  PROVE  WorkOK' /\ StoredOK' /\ StoredLoads'
<1>1. /\ UNCHANGED <<checked, call, args, thread, joined, pbenc, file, stored>>
      /\ call = "load" /\ pc = "seal" /\ pc' \in {"Ok", "InvalidCiphertext"}
  BY DEF Open
<1>2. WorkOK'  BY <1>1 DEF WorkOK
<1>3. StoredOK'  BY <1>1, StoredKept
<1>4. ASSUME file = stored.file, file.kind = "whole", file.sealed # Garbage,
             passphrase = stored.args[1]
      PROVE  Opened
  <2>1. /\ args[2] = stored.args[2] /\ args[3] = stored.args[3]
        /\ file.sealed.label = "secret" /\ file.sealed.under[1] = First /\ pbenc[1] = First
    BY <1>1, <1>4 DEF WorkOK, StoredOK
  <2>2. args = stored.args
    <3>1. /\ args \in Passphrases \X Salts \X Costs
          /\ stored.args \in Passphrases \X Salts \X Costs
      BY DEF TypeOK
    <3>2. args[1] = stored.args[1]  BY <1>4 DEF passphrase
    <3>3. QED  BY <2>1, <3>1, <3>2
  <2>3. Spawned(args) \in Nat  BY ArgsTyped, SpawnedBounds
  <2>4. /\ HoldsSubkeys(pbenc, args, Spawned(args)) /\ pbenc \in Seq(Op)
    BY <1>1 DEF SubkeysInOrder, HandlesOK, TypeOK
  <2>5. HoldsSubkeys(file.sealed.under, args, Spawned(args))
    BY <1>4, <2>2 DEF FileOK
  <2>6. file.sealed.under \in Seq(Op)
    BY <1>4 DEF TypeOK, Files, NoFile, Short, Bytes
  <2>7. file.sealed.under = pbenc
    BY <2>1, <2>3, <2>4, <2>5, <2>6, ProtocolsAgree
  <2>8. QED  BY <1>4, <2>1, <2>7 DEF Opened, Opens
<1>5. StoredLoads'
  <2>1. SUFFICES ASSUME file = stored.file, file.kind = "whole", file.sealed # Garbage,
                        passphrase = stored.args[1]
                 PROVE  pc' = "Ok"
    BY <1>1 DEF StoredLoads, passphrase
  <2>2. QED  BY <1>4, <2>1 DEF Open
<1>6. QED  BY <1>2, <1>3, <1>5

LEMMA WorksInductive ==
  ASSUME Inv, WorkOK, StoredOK, StoredLoads, [Next]_vars
  PROVE  WorkOK' /\ StoredOK' /\ StoredLoads'
<1> USE DEF Inv
<1>1. CASE Load  BY <1>1, LoadWorks
<1>2. CASE Open  BY <1>2, OpenWorks
<1>3. CASE Store \/ Change \/ Seal
  <2>1. WorkOK' /\ StoredOK'  BY <1>3, StoreWorks, ChangeWorks, SealWorks
  <2>2. call' = "store"  BY <1>3 DEF Store, Change, Seal
  <2>3. QED  BY <2>1, <2>2 DEF StoredLoads
<1>4. CASE Join \/ \E k \in DOMAIN thread : ThreadEnds(k)
  <2>1. WorkOK' /\ StoredOK'  BY <1>4, JoinWorks, ThreadWorks
  <2>2. pc' \notin Ended  BY <1>4 DEF Join, ThreadEnds, Ended
  <2>3. QED  BY <2>1, <2>2 DEF StoredLoads
<1>5. CASE Unwind
  <2>1. WorkOK' /\ StoredOK'  BY <1>5, UnwindWorks
  <2>2. /\ UNCHANGED <<checked, call, args, thread, joined, pbenc, file, stored>>
        /\ pc = "unwind" /\ pc' = "Panic"
    BY <1>5 DEF Unwind
  <2>3. StoredLoads'
    <3>1. SUFFICES ASSUME call = "load", file = stored.file, file.kind = "whole",
                          file.sealed # Garbage
                   PROVE  Len(thread) < Shifted(costs[3], 8)
      BY <2>2 DEF StoredLoads, costs, Shifted
    <3>2. costs = stored.args[3]  BY <2>2, <3>1 DEF WorkOK, StoredOK, costs
    <3>3. ~Certain /\ ~Refused  BY <3>1, <3>2 DEF StoredOK, Certain, Refused
    <3>4. Len(thread) < Spawned(args)  BY <2>2, <3>3 DEF WorkOK
    <3>5. QED  BY <3>4, ArgsTyped
  <2>4. QED  BY <2>1, <2>3
<1>6. CASE UNCHANGED vars
  <2>1. UNCHANGED <<checked, call, pc, args, thread, joined, pbenc, file, stored>>
    BY <1>6 DEF vars
  <2>2. WorkOK'  BY <2>1, CostsDecide DEF WorkOK
  <2>3. StoredLoads'  BY <2>1 DEF StoredLoads, passphrase, costs, Shifted
  <2>4. QED  BY <2>1, <2>2, <2>3, StoredKept
<1>7. QED  BY <1>1, <1>2, <1>3, <1>4, <1>5, <1>6 DEF Next

\* For every choice of costs and in both kinds of build: a file that store wrote without an
\* error and nobody changed loads under its passphrase, whatever the order in which the
\* threads end; but for a read error, only a thread that the system refuses prevents it.
\* Costs with which threads panic never got as far as a file.
THEOREM StoredCorrect == Spec => []StoredLoads
<1>1. Init => WorkOK /\ StoredOK /\ StoredLoads
  BY DEF Init, WorkOK, StoredOK, StoredLoads, NoFile, Ended
<1>2. Inv /\ WorkOK /\ StoredOK /\ StoredLoads /\ [Next]_vars
        => WorkOK' /\ StoredOK' /\ StoredLoads'
  BY WorksInductive
<1>3. QED  BY <1>1, <1>2, InitHolds, NextKeeps, PTL DEF Spec
=============================================================================
