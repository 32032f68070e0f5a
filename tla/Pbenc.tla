-------------------------------- MODULE Pbenc --------------------------------
(***************************************************************************)
(* pbenc.rs with SecretKey::store and SecretKey::load in front: a secret   *)
(* key is encrypted under a passphrase and written to a file, the file may *)
(* be changed, and then it is loaded.  Each of the two calls spawns        *)
(* threads that expand a sub-key each (module Balloon), and joins them one *)
(* by one.                                                                 *)
(***************************************************************************)
EXTENDS Lockstitch

CONSTANTS
  Passphrases,
  Salts,
  Seed,             \* the secret key
  Costs,            \* <<time_cost, memory_cost, parallelism>>: arguments of store,
                    \* and the first three bytes of a file
  Builds,           \* TRUE: built with overflow checks; FALSE: as release builds are
  MAX_MEMORY,       \* 53: a vector of 2^53 KiB is refused
  ThreadsMayFail,   \* may the operating system refuse a thread?
  Garbage           \* bytes that are not an untouched ciphertext

Byte == 0..255

ASSUME CostsAssumption ==
  /\ Costs \subseteq Byte \X Byte \X Byte
  /\ Builds \subseteq BOOLEAN
  /\ ThreadsMayFail \in BOOLEAN
  /\ MAX_MEMORY \in 1..63

VARIABLES
  checked,  \* was the program built with overflow checks?
  call,     \* "store" or "load": which is running, or ran last
  pc,       \* where it is, or how it ended
  args,     \* the passphrase, the salt and the costs of the call
  thread,   \* thread[k]: where the k-th spawned thread is
  joined,   \* how many of them are joined
  pbenc,    \* the protocol
  file,     \* the bytes of the file
  stored    \* the arguments of store, and the file it wrote (history)

vars == <<checked, call, pc, args, thread, joined, pbenc, file, stored>>

Ended == {"Ok", "WriteIo", "ReadIo", "InvalidCiphertext", "Panic"}

\* What is at a path: nothing, a file too short to have all its fields, or one
\* with its three costs, its salt and a sealed secret.
NoFile == [kind |-> "none"]
Short  == [kind |-> "short"]
Whole(costs, salt, sealed) ==
  [kind |-> "whole", costs |-> costs, salt |-> salt, sealed |-> sealed]

\* 1 << n in an integer of so many bits, where no check stops it.
Shifted(n, width) == 2^(n % width)

Overflows(n, width) == checked /\ n >= width

\* Is the panic of a thread certain?  It allocates 2^memory_cost KiB, and goes
\* through 2^time_cost rounds.
ThreadPanics(costs) ==
  \/ Overflows(costs[2], 64) \/ Overflows(costs[1], 64)
  \/ costs[2] % 64 >= MAX_MEMORY

Threads(costs) == 1..Shifted(costs[3], 8)

\* What expand_key returns is a function of the passphrase, the salt, the number
\* of rounds, the length of the buffer and the number of the thread.  (The
\* exponents stand for their powers, which differ where they do.)
Expanded(passphrase, salt, costs, k) ==
  <<passphrase, salt, costs[1] % 64, costs[2] % 64, k>>

Init ==
  /\ checked \in Builds
  /\ call = "store"
  /\ pc = "start"
  /\ args \in Passphrases \X Salts \X Costs
  /\ thread = << >>
  /\ joined = 0
  /\ pbenc = << >>
  /\ file = NoFile
  /\ stored = [args |-> args, file |-> NoFile]

passphrase == args[1]
salt       == args[2]
costs      == args[3]

\* A mutation of Fresh: the handles are counted on.
FreshProtocol == joined' = joined /\ pbenc' = New("veil.pbenc")

\* init begins with no handle joined and a new protocol.
Fresh == joined' = 0 /\ pbenc' = New("veil.pbenc")

\* init: spawn the threads.  A shift that overflows panics at once; a thread that
\* cannot be spawned, after the ones before it have run.
Spawn(cs) ==
  \/ /\ ~Overflows(cs[3], 8)
     /\ thread' = [k \in Threads(cs) |-> "running"]
     /\ pc' = "join"
  \/ /\ Overflows(cs[3], 8)
     /\ pc' = "Panic"
     /\ UNCHANGED thread
  \/ /\ ~Overflows(cs[3], 8)
     /\ ThreadsMayFail
     /\ \E n \in Threads(cs) : thread' = [k \in 1..(n - 1) |-> "running"]
     /\ pc' = "unwind"

\* pbenc::encrypt writes the costs and a random salt, and calls init.
Store ==
  /\ call = "store" /\ pc = "start"
  /\ Spawn(costs)
  /\ Fresh
  /\ UNCHANGED <<checked, call, args, file, stored>>

\* A thread ends, in whatever order they are run.
ThreadEnds(k) ==
  /\ pc \in {"join", "unwind"}
  /\ thread[k] = "running"
  /\ thread' = [thread EXCEPT ![k] = IF ThreadPanics(costs) THEN "panicked" ELSE "done"]
  /\ UNCHANGED <<checked, call, pc, args, joined, pbenc, file, stored>>

\* A mutation of Join: sub-keys are mixed in as the threads end.
JoinAny ==
  \E k \in DOMAIN thread :
    /\ pc = "join"
    /\ thread[k] = "done"
    /\ <<"mix", "expanded-key", Expanded(passphrase, salt, costs, k)>> \notin
         {pbenc[q] : q \in 1..Len(pbenc)}
    /\ pbenc' = Mix(pbenc, "expanded-key", Expanded(passphrase, salt, costs, k))
    /\ joined' = joined + 1
    /\ pc' = IF joined + 1 = Len(thread) THEN "seal" ELSE pc
    /\ UNCHANGED <<checked, call, args, thread, file, stored>>

\* key.join() of the next handle, in the order of spawning.
Join ==
  LET k == joined + 1
  IN  /\ pc = "join"
      /\ \/ /\ thread[k] = "done"
            /\ pbenc' = Mix(pbenc, "expanded-key", Expanded(passphrase, salt, costs, k))
            /\ joined' = k
            /\ pc' = IF k = Len(thread) THEN "seal" ELSE pc
         \/ /\ thread[k] = "panicked"
            /\ pc' = "unwind"
            /\ UNCHANGED <<pbenc, joined>>
      /\ UNCHANGED <<checked, call, args, thread, file, stored>>

\* A mutation of Unwind: it waits for results.
UnwindWhenDone ==
  /\ pc = "unwind"
  /\ \A k \in DOMAIN thread : thread[k] = "done"
  /\ pc' = "Panic"
  /\ UNCHANGED <<checked, call, args, thread, joined, pbenc, file, stored>>

\* thread::scope lets a panic through when all its threads have ended.
Unwind ==
  /\ pc = "unwind"
  /\ \A k \in DOMAIN thread : thread[k] # "running"
  /\ pc' = "Panic"
  /\ UNCHANGED <<checked, call, args, thread, joined, pbenc, file, stored>>

\* seal("secret", ..), and write_all of the whole; or of a part of it.
Seal ==
  /\ call = "store" /\ pc = "seal"
  /\ \/ /\ file' = Whole(costs, salt, Ciphertext(pbenc, "secret", Seed, 1))
        /\ pc' = "Ok"
     \/ /\ file' \in {Short, Whole(costs, salt, Garbage)}
        /\ pc' = "WriteIo"
  /\ stored' = [stored EXCEPT !.file = file']
  /\ UNCHANGED <<checked, call, args, thread, joined, pbenc>>

\* Between the calls the file may be changed, or cut off.
Change ==
  /\ call = "store" /\ pc \in Ended
  /\ file.kind = "whole"
  /\ \/ file' = Short
     \/ \E cs \in Costs, s \in Salts, c \in {file.sealed, Garbage} :
          file' = Whole(cs, s, c)
  /\ UNCHANGED <<checked, call, pc, args, thread, joined, pbenc, stored>>

\* SecretKey::load reads the file, and pbenc::decrypt splits it; a short one is
\* refused before any work is done.
Load ==
  /\ call = "store" /\ pc \in Ended
  /\ file.kind # "none"
  /\ call' = "load"
  /\ \E p \in Passphrases :
       \/ /\ file.kind = "whole"
          /\ args' = <<p, file.salt, file.costs>>
          /\ Spawn(file.costs)
       \/ /\ file.kind = "short"
          /\ args' = <<p, salt, costs>>
          /\ pc' = "InvalidCiphertext"
          /\ UNCHANGED thread
       \/ /\ args' = <<p, salt, costs>>
          /\ pc' = "ReadIo"
          /\ UNCHANGED thread
  /\ Fresh
  /\ UNCHANGED <<checked, file, stored>>

\* A mutation of Opened: the tag is not looked at.
OpenedUnchecked == file.sealed # Garbage

\* Does open("secret", ..) return the seed?
Opened == file.sealed # Garbage /\ Opens(pbenc, "secret", file.sealed)

Open ==
  /\ call = "load" /\ pc = "seal"
  /\ pc' = IF Opened THEN "Ok" ELSE "InvalidCiphertext"
  /\ UNCHANGED <<checked, call, args, thread, joined, pbenc, file, stored>>

Next ==
  \/ Store \/ Join \/ Unwind \/ Seal \/ Load \/ Open
  \/ \E k \in DOMAIN thread : ThreadEnds(k)
  \/ Change

Spec == Init /\ [][Next]_vars

\* The operating system runs the threads that were spawned, and the one that
\* waits for them.
FairSpec ==
  /\ Spec
  /\ WF_vars(Join \/ Unwind \/ Seal \/ Open)
  /\ \A k \in 1..128 : WF_vars(k \in DOMAIN thread /\ ThreadEnds(k))

-----------------------------------------------------------------------------
Op == ({"new"} \X {"domain"} \X {"veil.pbenc"})
  \union ({"mix"} \X {"expanded-key"} \X
            (Passphrases \X Salts \X (0..63) \X (0..63) \X Nat))

Bytes == {Garbage} \union [under : Seq(Op), label : {"secret"}, plain : {Seed}, n : {1}]

Files == {NoFile, Short}
  \union [kind : {"whole"}, costs : Costs, salt : Salts, sealed : Bytes]

TypeOK ==
  /\ checked \in Builds
  /\ call \in {"store", "load"}
  /\ pc \in Ended \union {"start", "join", "unwind", "seal"}
  /\ args \in Passphrases \X Salts \X Costs
  /\ thread \in Seq({"running", "done", "panicked"})
  /\ joined \in 0..Len(thread)
  /\ pbenc \in Seq(Op)
  /\ file \in Files
  /\ stored \in [args : Passphrases \X Salts \X Costs, file : Files]

\* A protocol holds the first n sub-keys of a call with arguments as, in order.
HoldsSubkeys(protocol, as, n) ==
  /\ Len(protocol) = n + 1
  /\ \A k \in 1..n :
       protocol[k + 1] = <<"mix", "expanded-key", Expanded(as[1], as[2], as[3], k)>>

\* The protocol holds the sub-keys that are joined, in the order of the threads'
\* numbers, whatever the order in which they ended; all of them when the secret
\* is sealed or opened.
SubkeysInOrder ==
  /\ pc \in {"join", "seal"} => HoldsSubkeys(pbenc, args, joined)
  /\ pc = "seal" => joined = Shifted(costs[3], 8)

\* A secret key that loads was stored, whole, under this passphrase and salt and
\* with the same amounts of work, and it is the one that was stored.
LoadedIsStored ==
  (call = "load" /\ pc = "Ok") =>
    /\ file.sealed = stored.file.sealed /\ file.sealed.plain = Seed
    /\ passphrase = stored.args[1]
    /\ salt = stored.args[2]
    /\ Threads(costs) = Threads(stored.args[3])
    /\ \A k \in Threads(costs) :
         Expanded(passphrase, salt, costs, k) = Expanded(passphrase, salt, stored.args[3], k)

\* What was stored loads again in the same build, with whatever costs it was stored,
\* unless a thread is refused.
StoredLoads ==
  (/\ call = "load" /\ pc \in Ended
   /\ file = stored.file /\ file.kind = "whole" /\ file.sealed # Garbage
   /\ passphrase = stored.args[1])
    => \/ pc \in {"Ok", "ReadIo"}
       \/ pc = "Panic" /\ Len(thread) < Shifted(costs[3], 8)

\* A call that has spawned its threads ends.
EveryCallEnds == pc \in {"join", "unwind", "seal"} ~> pc \in Ended

\* veil.rs documents of SecretKey::load: `If the passphrase is incorrect and/or
\* the ciphertext has been modified, a DecryptError::InvalidCiphertext error
\* will be returned'.
ModifiedIsInvalid ==
  (/\ call = "load" /\ pc \in Ended \ {"ReadIo"} /\ ~ThreadsMayFail
   /\ file # stored.file \/ passphrase # stored.args[1])
    => pc = "InvalidCiphertext"
=============================================================================
