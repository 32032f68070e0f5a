------------------------------- MODULE CliSafety -------------------------------
(***************************************************************************)
(* What commands that run side by side over the same files leave there,    *)
(* and what the ones that succeed have seen, for any number of them.       *)
(***************************************************************************)
EXTENDS Cli, SequenceTheorems, WellFoundedInduction, TLAPS

-----------------------------------------------------------------------------
(* The memory of a process.                                                *)

Fields == {"run", "inv", "pos", "key", "peers", "other", "got", "held", "was", "touched"}

\* Its next memory r2, after r, says of itself what every step keeps.
Kept(r, r2) ==
  /\ DOMAIN r2 = Fields
  /\ r2.run = r.run /\ r2.inv = r.inv

LastCall(inv) == Len(Plan[inv.cmd])

Called(r, call) == r.pos <= LastCall(r.inv) /\ Plan[r.inv.cmd][r.pos] = call

\* A call is still to come, or has returned.
Ahead(r, call)  == \E j \in r.pos..LastCall(r.inv) : Plan[r.inv.cmd][j] = call
Behind(r, call) == \E j \in 1..(r.pos - 1) : Plan[r.inv.cmd][j] = call

Steady(r, r2) == r2.pos = r.pos /\ r2.touched = r.touched
Moves(r, r2)  == r2.pos = r.pos + 1 /\ (r2.touched <=> (r.touched \/ Called(r, "create")))

MemoryOK(r, n) ==
  /\ DOMAIN r = Fields
  /\ r.run \in 1..n /\ r.inv \in Invocations
  /\ r.pos \in 1..(LastCall(r.inv) + 1)
  /\ r.touched \in BOOLEAN
  /\ \E set : r.peers \in Seq(set)
  /\ Len(r.peers) <= Len(r.inv.peers)
  /\ Ahead(r, "peers") => Len(r.peers) < Len(r.inv.peers)
  /\ \E set : r.got \in Seq(set)
  /\ r.held = << >> \/ \E x : r.held = <<x>>
  /\ r.touched <=> Behind(r, "create")

\* No two commands that run have one output.
Apart ==
  \A p, q \in Procs :
    (p # q /\ Running(p) /\ Running(q) /\ proc[p].inv.output # NoPath)
      => proc[p].inv.output # proc[q].inv.output

MemoriesOK ==
  /\ TypeOK
  /\ DOMAIN proc = Procs
  /\ \A p \in Procs : Running(p) => MemoryOK(proc[p], runs)
  /\ Apart

-----------------------------------------------------------------------------
(* The calls of each command.                                              *)

LEMMA Plans ==
  /\ Plan["secret-key"] = <<"passphrase", "create", "write">>
  /\ Plan["public-key"] = <<"key", "create", "write">>
  /\ Plan["encrypt"] = <<"key", "open", "create", "peers", "headers", "blocks", "end">>
  /\ Plan["decrypt"] = <<"open", "create", "key", "peers", "header", "message">>
  /\ Plan["sign"] = <<"open", "create", "key", "read", "write">>
  /\ Plan["verify"] = <<"open", "peers", "other", "read", "compare">>
  /\ Plan["digest"] = <<"open", "read", "create", "write">>
  /\ Plan["check"] = <<"other", "open", "read", "compare">>
  /\ Plan["complete"] = <<"create", "write">>
BY DEF Plan, Cmds, EncryptPlan, DigestPlan

LEMMA PlanLengths ==
  ASSUME NEW cmd \in Cmds PROVE Len(Plan[cmd]) \in Nat /\ Len(Plan[cmd]) >= 2
<1>1. /\ Len(Plan["secret-key"]) = 3 /\ Len(Plan["public-key"]) = 3
      /\ Len(Plan["encrypt"]) = 7 /\ Len(Plan["decrypt"]) = 6 /\ Len(Plan["sign"]) = 5
      /\ Len(Plan["verify"]) = 5 /\ Len(Plan["digest"]) = 4 /\ Len(Plan["check"]) = 4
      /\ Len(Plan["complete"]) = 2
  BY Plans
<1> DEFINE n == Len(Plan[cmd])
<1>2. n \in {2, 3, 4, 5, 6, 7}  BY <1>1, Zenon DEF Cmds
<1> HIDE DEF n
<1>3. n \in Nat /\ n >= 2  BY <1>2
<1>4. QED  BY <1>3 DEF n

\* No command makes a call twice.
LEMMA PlanOnce ==
  ASSUME NEW cmd \in Cmds, NEW j \in 1..Len(Plan[cmd]), NEW k \in 1..Len(Plan[cmd]),
         Plan[cmd][j] = Plan[cmd][k]
  PROVE  j = k
<1>1. CASE cmd = "secret-key"  BY <1>1, Plans
<1>2. CASE cmd = "public-key"  BY <1>2, Plans
<1>3. CASE cmd = "encrypt"  BY <1>3, Plans
<1>4. CASE cmd = "decrypt"  BY <1>4, Plans
<1>5. CASE cmd = "sign"  BY <1>5, Plans
<1>6. CASE cmd = "verify"  BY <1>6, Plans
<1>7. CASE cmd = "digest"  BY <1>7, Plans
<1>8. CASE cmd = "check"  BY <1>8, Plans
<1>9. CASE cmd = "complete"  BY <1>9, Plans
<1>10. QED  BY <1>1, <1>2, <1>3, <1>4, <1>5, <1>6, <1>7, <1>8, <1>9 DEF Cmds

\* Which commands make a call, and where.
LEMMA Places ==
  ASSUME NEW cmd \in Cmds, NEW k \in 1..Len(Plan[cmd])
  PROVE  /\ Plan[cmd][k] = "other" => (cmd = "verify" /\ k = 3) \/ (cmd = "check" /\ k = 1)
         /\ Plan[cmd][k] = "compare" => (cmd = "verify" /\ k = 5) \/ (cmd = "check" /\ k = 4)
         /\ Plan[cmd][k] = "headers" => cmd = "encrypt" /\ k = 5
         /\ Plan[cmd][k] = "blocks" => cmd = "encrypt" /\ k = 6
         /\ Plan[cmd][k] = "end" => cmd = "encrypt" /\ k = 7
         /\ Plan[cmd][k] = "header" => cmd = "decrypt" /\ k = 5
         /\ Plan[cmd][k] = "message" => cmd = "decrypt" /\ k = 6
         /\ Plan[cmd][k] = "write" =>
              \/ cmd \in {"secret-key", "public-key"} /\ k = 3
              \/ cmd = "sign" /\ k = 5
              \/ cmd = "digest" /\ k = 4
              \/ cmd = "complete" /\ k = 2
         /\ Plan[cmd][k] = "read" =>
              \/ cmd \in {"sign", "verify"} /\ k = 4
              \/ cmd = "digest" /\ k = 2
              \/ cmd = "check" /\ k = 3
         /\ cmd = "encrypt" => \/ Plan[cmd][k] = "key" /\ k = 1
                               \/ Plan[cmd][k] = "open" /\ k = 2
                               \/ Plan[cmd][k] = "create" /\ k = 3
                               \/ Plan[cmd][k] = "peers" /\ k = 4
                               \/ Plan[cmd][k] \in {"headers", "blocks", "end"}
         /\ cmd = "decrypt" => \/ Plan[cmd][k] = "open" /\ k = 1
                               \/ Plan[cmd][k] = "create" /\ k = 2
                               \/ Plan[cmd][k] = "key" /\ k = 3
                               \/ Plan[cmd][k] = "peers" /\ k = 4
                               \/ Plan[cmd][k] \in {"header", "message"}
<1>1. CASE cmd = "secret-key"  BY <1>1, Plans
<1>2. CASE cmd = "public-key"  BY <1>2, Plans
<1>3. CASE cmd = "encrypt"  BY <1>3, Plans
<1>4. CASE cmd = "decrypt"  BY <1>4, Plans
<1>5. CASE cmd = "sign"  BY <1>5, Plans
<1>6. CASE cmd = "verify"  BY <1>6, Plans
<1>7. CASE cmd = "digest"  BY <1>7, Plans
<1>8. CASE cmd = "check"  BY <1>8, Plans
<1>9. CASE cmd = "complete"  BY <1>9, Plans
<1>10. QED  BY <1>1, <1>2, <1>3, <1>4, <1>5, <1>6, <1>7, <1>8, <1>9 DEF Cmds

\* The commands that need a key begin with it, but for two.
LEMMA KeysFirst ==
  ASSUME NEW cmd \in Cmds, NEW k \in 1..Len(Plan[cmd]), k # 1,
         Plan[cmd][k] \in {"passphrase", "key"}
  PROVE  cmd \in {"decrypt", "sign"}
<1>1. CASE cmd \in {"secret-key", "public-key"}  BY <1>1, Plans
<1>2. CASE cmd = "encrypt"  BY <1>2, Plans
<1>3. CASE cmd \in {"verify", "digest"}  BY <1>3, Plans
<1>4. CASE cmd \in {"check", "complete"}  BY <1>4, Plans
<1>5. QED  BY <1>1, <1>2, <1>3, <1>4 DEF Cmds

-----------------------------------------------------------------------------
(* How a process goes on or ends.                                          *)

LEMMA Fresh ==
  ASSUME NEW run \in Nat \ {0}, NEW inv
  PROVE  /\ DOMAIN Begun(run, inv) = Fields
         /\ Begun(run, inv) # Gone
BY DEF Begun, Gone, Fields

LEMMA MemoryRuns ==
  ASSUME NEW r, NEW n \in Nat, MemoryOK(r, n)
  PROVE  r # Gone
BY DEF MemoryOK, Gone

LEMMA AdvancedFields ==
  ASSUME NEW r, DOMAIN r = Fields
  PROVE  /\ DOMAIN Advanced(r) = Fields
         /\ Advanced(r).pos = r.pos + 1
         /\ \A f \in Fields \ {"pos"} : Advanced(r)[f] = r[f]
BY DEF Advanced, Fields

\* A process that goes on past its call.
LEMMA MovesOK ==
  ASSUME NEW n \in Nat, NEW r, NEW r2, MemoryOK(r, n), Kept(r, r2), Moves(r, r2),
         r.pos <= LastCall(r.inv), r2.touched \in BOOLEAN,
         r2.held = << >> \/ \E x : r2.held = <<x>>,
         \E set : r2.got \in Seq(set), \E set : r2.peers \in Seq(set),
         Len(r2.peers) <= Len(r.inv.peers),
         Called(r, "peers") \/ r2.peers = r.peers
  PROVE  MemoryOK(r2, n)
<1>1. /\ r2.inv = r.inv /\ r2.run = r.run /\ DOMAIN r2 = Fields
      /\ r2.pos = r.pos + 1 /\ r.pos \in 1..(LastCall(r.inv) + 1)
      /\ r.inv \in Invocations /\ r.inv.cmd \in Cmds
  BY InvocationAssumption DEF Kept, Moves, MemoryOK
<1>2. LastCall(r.inv) \in Nat  BY <1>1, PlanLengths DEF LastCall
<1>3. r2.pos \in 1..(LastCall(r.inv) + 1)  BY <1>1, <1>2
<1>4. r2.touched <=> Behind(r2, "create")
  <2>1. Behind(r2, "create") <=> Behind(r, "create") \/ Called(r, "create")
    <3>1. \A j \in 1..(r2.pos - 1) : j = r.pos \/ j \in 1..(r.pos - 1)  BY <1>1, <1>2
    <3>2. \A j \in 1..(r.pos - 1) : j \in 1..(r2.pos - 1)  BY <1>1, <1>2
    <3>3. r.pos \in 1..(r2.pos - 1)  BY <1>1, <1>2
    <3>4. QED  BY <1>1, <3>1, <3>2, <3>3 DEF Behind, Called
  <2>2. QED  BY <2>1 DEF MemoryOK, Moves
<1>5. Ahead(r2, "peers") => Len(r2.peers) < Len(r2.inv.peers)
  <2>1. SUFFICES ASSUME NEW j \in r2.pos..LastCall(r2.inv), Plan[r2.inv.cmd][j] = "peers"
                 PROVE  Len(r2.peers) < Len(r2.inv.peers)
    BY DEF Ahead
  <2>2. j \in r.pos..LastCall(r.inv) /\ j # r.pos  BY <1>1, <1>2, <2>1
  <2>3. ~Called(r, "peers")
    <3>1. /\ j \in 1..Len(Plan[r.inv.cmd]) /\ r.pos \in 1..Len(Plan[r.inv.cmd])
      BY <1>1, <1>2, <2>2 DEF LastCall
    <3>2. QED  BY <1>1, <2>1, <2>2, <3>1, PlanOnce DEF Called
  <2>4. Ahead(r, "peers")  BY <1>1, <2>1, <2>2 DEF Ahead
  <2>5. QED  BY <1>1, <2>3, <2>4 DEF MemoryOK
<1>6. QED  BY <1>1, <1>3, <1>4, <1>5 DEF MemoryOK

\* A process that goes on with the same call.
LEMMA SteadyOK ==
  ASSUME NEW n \in Nat, NEW r, NEW r2, MemoryOK(r, n), Kept(r, r2), Steady(r, r2),
         r2.held = << >> \/ \E x : r2.held = <<x>>,
         \E set : r2.got \in Seq(set), \E set : r2.peers \in Seq(set),
         Len(r2.peers) <= Len(r.inv.peers),
         r2.peers = r.peers \/ Len(r2.peers) < Len(r.inv.peers)
  PROVE  MemoryOK(r2, n)
BY DEF MemoryOK, Kept, Steady, Ahead, Behind

-----------------------------------------------------------------------------
(* What a step of a process does.                                          *)

\* The only file it may change is its output.
FileKept(p) ==
  /\ DOMAIN file' = DOMAIN file
  /\ \A path \in Paths : path # proc[p].inv.output => file'[path] = file[path]

Continues(p) ==
  \E r2 : /\ proc' = [proc EXCEPT ![p] = r2]
          /\ MemoryOK(r2, runs) /\ Kept(proc[p], r2)
          /\ ended' = None /\ runs' = runs

Exits == CliErrors \union {"ok", "killed", "panic"}

\* It ends, with one of these.
EndsIn(p, exits) ==
  \E exit \in exits, blamed \in Paths \union {NoPath} : \E left : Ends(p, exit, blamed, left)

LEMMA EndsKeepsFiles ==
  ASSUME NEW p, NEW exit, NEW blamed, NEW left, Ends(p, exit, blamed, left)
  PROVE  FileKept(p)
BY DEF Ends, FileKept

LEMMA FailsEnds ==
  ASSUME NEW p, NEW exits, NEW exit \in exits, NEW blamed \in Paths \union {NoPath},
         FailsAt(p, exit, blamed)
  PROVE  FileKept(p) /\ EndsIn(p, exits)
BY EndsKeepsFiles DEF FailsAt, EndsIn

LEMMA WriteFailsEnds ==
  ASSUME NEW p, NEW piece, NEW exits, NEW exit \in exits, NEW blamed \in Paths \union {NoPath},
         WriteFails(p, piece, exit, blamed)
  PROVE  FileKept(p) /\ EndsIn(p, exits)
BY EndsKeepsFiles DEF WriteFails, EndsIn

Goes(p) == FileKept(p) /\ (EndsIn(p, Exits) \/ Continues(p))

LEMMA AtCall ==
  ASSUME MemoriesOK, NEW p \in Procs, NEW call, At(p, call)
  PROVE  /\ MemoryOK(proc[p], runs) /\ runs \in Nat /\ DOMAIN proc = Procs
         /\ Called(proc[p], call) /\ proc[p].pos \in Nat \ {0}
         /\ proc[p].inv \in Invocations /\ proc[p].inv.cmd \in Cmds
         /\ {proc[p].inv.input, proc[p].inv.key, proc[p].inv.other} \subseteq Paths
         /\ proc[p].inv.peers \in Seq(Paths)
         /\ proc[p].inv.output \in Paths \union {NoPath}
<1>1. MemoryOK(proc[p], runs) /\ runs \in Nat /\ DOMAIN proc = Procs
  BY CliAssumption DEF At, MemoriesOK, TypeOK
<1>2. proc[p].inv \in Invocations /\ proc[p].pos \in 1..(LastCall(proc[p].inv) + 1)
  BY <1>1 DEF MemoryOK
<1>3. proc[p].inv.cmd \in Cmds  BY <1>2, InvocationAssumption
<1>4. LastCall(proc[p].inv) \in Nat  BY <1>3, PlanLengths DEF LastCall
<1>5. Called(proc[p], call)  BY <1>2, <1>4 DEF At, Done, Called, LastCall
<1>6. QED  BY <1>1, <1>2, <1>3, <1>4, <1>5, CliAssumption, InvocationAssumption

\* A process goes on past a call that opens no public key.
LEMMA Onward ==
  ASSUME MemoriesOK, NEW p \in Procs, NEW call \in {"passphrase", "key", "open", "create",
           "other", "read", "write", "compare", "headers", "blocks", "end", "header", "message"},
         At(p, call), NEW r2, Kept(proc[p], r2), r2.pos = proc[p].pos + 1,
         r2.peers = proc[p].peers,
         \/ call # "create" /\ r2.touched = proc[p].touched
         \/ call = "create" /\ r2.touched = TRUE,
         r2.held = proc[p].held \/ r2.held = << >> \/ \E x : r2.held = <<x>>,
         r2.got = proc[p].got \/ \E set : r2.got \in Seq(set)
  PROVE  MemoryOK(r2, runs)
<1> DEFINE r == proc[p]
<1>1. /\ MemoryOK(r, runs) /\ runs \in Nat /\ Called(r, call)
  BY AtCall
<1>2. r.pos <= LastCall(r.inv)  BY <1>1 DEF Called
<1>3. r2.touched \in BOOLEAN /\ (r2.touched <=> (r.touched \/ Called(r, "create")))
  BY <1>1 DEF MemoryOK, Called
<1>4. Moves(r, r2)  BY <1>3 DEF Moves
<1>5. /\ r2.held = << >> \/ \E x : r2.held = <<x>>
      /\ \E set : r2.got \in Seq(set)
      /\ \E set : r2.peers \in Seq(set)
      /\ Len(r2.peers) <= Len(r.inv.peers)
  BY <1>1 DEF MemoryOK
<1>6. Kept(r, r2) /\ r2.peers = r.peers  OBVIOUS
<1>7. QED  BY <1>1, <1>2, <1>3, <1>4, <1>5, <1>6, MovesOK, Zenon

\* A process that stays at its call.
LEMMA Again ==
  ASSUME MemoriesOK, NEW p \in Procs, NEW call, At(p, call), NEW r2, Kept(proc[p], r2),
         r2.pos = proc[p].pos, r2.peers = proc[p].peers, r2.touched = proc[p].touched,
         r2.held = proc[p].held \/ r2.held = << >> \/ \E x : r2.held = <<x>>,
         r2.got = proc[p].got \/ \E set : r2.got \in Seq(set)
  PROVE  MemoryOK(r2, runs)
<1> DEFINE r == proc[p]
<1>1. MemoryOK(r, runs) /\ runs \in Nat  BY AtCall
<1>2. /\ r2.held = << >> \/ \E x : r2.held = <<x>>
      /\ \E set : r2.got \in Seq(set)
      /\ \E set : r2.peers \in Seq(set)
      /\ Len(r2.peers) <= Len(r.inv.peers)
  BY <1>1 DEF MemoryOK
<1>3. Steady(r, r2)  BY DEF Steady
<1>4. QED  BY <1>1, <1>2, <1>3, SteadyOK

LEMMA GoesOnGoes ==
  ASSUME NEW p, NEW r2, GoesOn(p, r2), MemoryOK(r2, runs), Kept(proc[p], r2)
  PROVE  Goes(p)
BY DEF GoesOn, Goes, FileKept, Continues

\* What it has read, with one piece more.
LEMMA GotFields ==
  ASSUME NEW p, NEW n, MemoryOK(proc[p], n)
  PROVE  /\ DOMAIN Got(p) = Fields
         /\ \A f \in Fields \ {"got"} : Got(p)[f] = proc[p][f]
         /\ Got(p).got = Append(proc[p].got, NextPiece(p))
         /\ \E set : Got(p).got \in Seq(set)
<1>1. PICK set : proc[p].got \in Seq(set)  BY DEF MemoryOK
<1>2. Append(proc[p].got, NextPiece(p)) \in Seq(set \union {NextPiece(p)})
  BY <1>1, AppendProperties
<1>3. QED  BY <1>2 DEF Got, MemoryOK, Fields

-----------------------------------------------------------------------------
(* Each step, call by call.                                                *)

\* A piece more was read, with or without the end of the call.
LEMMA GotGoes ==
  ASSUME MemoriesOK, NEW p \in Procs, NEW call, At(p, call)
  PROVE  MemoryOK(Got(p), runs) /\ Kept(proc[p], Got(p))
<1>1. MemoryOK(proc[p], runs)  BY AtCall
<1>2. /\ DOMAIN Got(p) = Fields /\ \E set : Got(p).got \in Seq(set)
      /\ \A f \in Fields \ {"got"} : Got(p)[f] = proc[p][f]
  BY <1>1, GotFields
<1>3. /\ Kept(proc[p], Got(p)) /\ Got(p).pos = proc[p].pos /\ Got(p).peers = proc[p].peers
      /\ Got(p).touched = proc[p].touched /\ Got(p).held = proc[p].held
  BY <1>2 DEF Kept, Fields
<1>4. QED  BY <1>2, <1>3, Again

LEMMA AdvancedOK ==
  ASSUME MemoriesOK, NEW p \in Procs, NEW call \in {"passphrase", "key", "open",
           "other", "read", "write", "compare", "headers", "blocks", "end", "header", "message"},
         At(p, call), NEW r, r = proc[p] \/ r = Got(p)
  PROVE  MemoryOK(Advanced(r), runs) /\ Kept(proc[p], Advanced(r))
<1>1. MemoryOK(proc[p], runs)  BY AtCall
<1>2. /\ DOMAIN r = Fields /\ \E set : r.got \in Seq(set)
      /\ \A f \in Fields \ {"got"} : r[f] = proc[p][f]
  BY <1>1, GotFields DEF MemoryOK
<1> DEFINE r2 == Advanced(r)
<1>3. /\ DOMAIN r2 = Fields /\ r2.pos = r.pos + 1
      /\ \A f \in Fields \ {"pos"} : r2[f] = r[f]
  BY <1>2, AdvancedFields
<1> HIDE DEF r2
<1>4. /\ Kept(proc[p], r2) /\ r2.pos = proc[p].pos + 1 /\ r2.peers = proc[p].peers
      /\ r2.touched = proc[p].touched /\ r2.held = proc[p].held /\ r2.got = r.got
  BY <1>2, <1>3 DEF Kept, Fields
<1>5. MemoryOK(r2, runs)  BY <1>2, <1>4, Onward
<1>6. QED  BY <1>4, <1>5 DEF r2

LEMMA AdvancesGoes ==
  ASSUME MemoriesOK, NEW p \in Procs, NEW call \in {"passphrase", "key", "open",
           "other", "read", "write", "compare", "headers", "blocks", "end", "header", "message"},
         At(p, call), NEW r, r = proc[p] \/ r = Got(p), GoesOn(p, Advanced(r))
  PROVE  Goes(p)
BY AdvancedOK, GoesOnGoes

LEMMA FailsGoes ==
  ASSUME NEW p, NEW exit \in Exits, NEW blamed \in Paths \union {NoPath}, FailsAt(p, exit, blamed)
  PROVE  Goes(p)
BY FailsEnds DEF Goes

LEMMA ReadIoGoes ==
  ASSUME NEW p, NEW path \in Paths, ReadIo(p, path)
  PROVE  Goes(p)
BY FailsGoes DEF ReadIo, Exits, CliErrors, Faults

LEMMA ReadPassphraseGoes ==
  ASSUME MemoriesOK, NEW p \in Procs, ReadPassphrase(p)
  PROVE  Goes(p)
BY AdvancesGoes, FailsGoes DEF ReadPassphrase, Fails, Exits, CliErrors, Faults

LEMMA DecryptKeyGoes ==
  ASSUME MemoriesOK, NEW p \in Procs, DecryptKey(p)
  PROVE  Goes(p)
<1> DEFINE r2 == [Advanced(proc[p]) EXCEPT !.key = file[proc[p].inv.key][1].of[1]]
<1>1. At(p, "key")  BY DEF DecryptKey
<1>2. DOMAIN proc[p] = Fields /\ proc[p].inv.key \in Paths  BY <1>1, AtCall DEF MemoryOK
<1>3. CASE Fails(p, "Passphrase") \/ Fails(p, "BadPassphrase")
  BY <1>3, FailsGoes DEF Fails, Exits, CliErrors, Faults
<1>4. CASE ReadIo(p, proc[p].inv.key)  BY <1>2, <1>4, ReadIoGoes
<1>5. CASE GoesOn(p, r2)
  <2>1. /\ DOMAIN r2 = Fields /\ r2.pos = proc[p].pos + 1
        /\ \A f \in Fields \ {"pos", "key"} : r2[f] = proc[p][f]
    BY <1>2, AdvancedFields DEF Fields
  <2> HIDE DEF r2
  <2>2. /\ Kept(proc[p], r2) /\ r2.peers = proc[p].peers /\ r2.touched = proc[p].touched
        /\ r2.held = proc[p].held /\ r2.got = proc[p].got
    BY <2>1 DEF Kept, Fields
  <2>3. MemoryOK(r2, runs)  BY <1>1, <2>1, <2>2, Onward
  <2>4. QED  BY <1>5, <2>2, <2>3, GoesOnGoes
<1>6. QED  BY <1>3, <1>4, <1>5 DEF DecryptKey

LEMMA OpenInputGoes ==
  ASSUME MemoriesOK, NEW p \in Procs, OpenInput(p)
  PROVE  Goes(p)
<1> DEFINE r2 == [Advanced(proc[p]) EXCEPT
                    !.was = IF proc[p].inv.input = proc[p].inv.output
                            THEN file[proc[p].inv.input] ELSE << >>]
<1>1. At(p, "open")  BY DEF OpenInput
<1>2. DOMAIN proc[p] = Fields /\ proc[p].inv.input \in Paths  BY <1>1, AtCall DEF MemoryOK
<1>3. CASE Fails(p, "StdinTty")
  BY <1>3, FailsGoes DEF Fails, Exits, CliErrors, Faults
<1>4. CASE ReadIo(p, proc[p].inv.input)  BY <1>2, <1>4, ReadIoGoes
<1>5. CASE GoesOn(p, r2)
  <2>1. /\ DOMAIN r2 = Fields /\ r2.pos = proc[p].pos + 1
        /\ \A f \in Fields \ {"pos", "was"} : r2[f] = proc[p][f]
    BY <1>2, AdvancedFields DEF Fields
  <2> HIDE DEF r2
  <2>2. /\ Kept(proc[p], r2) /\ r2.peers = proc[p].peers /\ r2.touched = proc[p].touched
        /\ r2.held = proc[p].held /\ r2.got = proc[p].got
    BY <2>1 DEF Kept, Fields
  <2>3. MemoryOK(r2, runs)  BY <1>1, <2>1, <2>2, Onward
  <2>4. QED  BY <1>5, <2>2, <2>3, GoesOnGoes
<1>6. QED  BY <1>3, <1>4, <1>5 DEF OpenInput

LEMMA OpenOutputGoes ==
  ASSUME MemoriesOK, NEW p \in Procs, OpenOutput(p)
  PROVE  Goes(p)
<1> DEFINE r2 == [Advanced(proc[p]) EXCEPT !.touched = TRUE]
<1>1. At(p, "create")  BY DEF OpenOutput
<1>2. /\ DOMAIN proc[p] = Fields /\ DOMAIN proc = Procs
      /\ proc[p].inv.output \in Paths \union {NoPath}
  BY <1>1, AtCall DEF MemoryOK
<1>3. CASE Fails(p, "StdoutTty") \/ FailsAt(p, "WriteIo", proc[p].inv.output)
  BY <1>2, <1>3, FailsGoes DEF Fails, Exits, CliErrors, Faults
<1>5. CASE /\ proc' = [proc EXCEPT ![p] = [Advanced(@) EXCEPT !.touched = TRUE]]
           /\ file' = IF proc[p].inv.output = Pipe THEN file
                      ELSE [file EXCEPT ![proc[p].inv.output] = << >>]
           /\ ended' = None /\ UNCHANGED <<runs, made>>
  <2>1. /\ DOMAIN r2 = Fields /\ r2.pos = proc[p].pos + 1 /\ r2.touched = TRUE
        /\ \A f \in Fields \ {"pos", "touched"} : r2[f] = proc[p][f]
    BY <1>2, AdvancedFields DEF Fields
  <2>2. proc' = [proc EXCEPT ![p] = r2]  BY <1>5
  <2> HIDE DEF r2
  <2>3. /\ Kept(proc[p], r2) /\ r2.peers = proc[p].peers
        /\ r2.held = proc[p].held /\ r2.got = proc[p].got
    BY <2>1 DEF Kept, Fields
  <2>4. MemoryOK(r2, runs)  BY <1>1, <2>1, <2>3, Onward
  <2>5. FileKept(p)  BY <1>5 DEF FileKept
  <2>6. QED  BY <1>5, <2>2, <2>3, <2>4, <2>5 DEF Goes, Continues
<1>6. QED  BY <1>3, <1>5 DEF OpenOutput

LEMMA OpenPublicKeyGoes ==
  ASSUME MemoriesOK, NEW p \in Procs, OpenPublicKey(p)
  PROVE  Goes(p)
<1> DEFINE r == proc[p]
           path == r.inv.peers[Len(r.peers) + 1]
           more == [r EXCEPT !.peers = Append(@, K!Decoded(file[path][1].of))]
           last == Len(r.peers) + 1 = Len(r.inv.peers)
           r2 == IF last THEN Advanced(more) ELSE more
<1>1. At(p, "peers")  BY DEF OpenPublicKey
<1>2. /\ DOMAIN r = Fields /\ MemoryOK(r, runs) /\ runs \in Nat /\ Called(r, "peers")
      /\ r.pos \in Nat \ {0} /\ r.inv.cmd \in Cmds /\ r.inv.peers \in Seq(Paths)
  BY <1>1, AtCall DEF MemoryOK
<1>3. PICK set : r.peers \in Seq(set)  BY <1>2 DEF MemoryOK
<1>4. LastCall(r.inv) \in Nat  BY <1>2, PlanLengths DEF LastCall
<1>5. Len(r.peers) \in Nat /\ Len(r.inv.peers) \in Nat /\ Len(r.peers) < Len(r.inv.peers)
  <2>1. Ahead(r, "peers")
    <3>1. r.pos \in r.pos..LastCall(r.inv)  BY <1>2, <1>4 DEF Called
    <3>2. QED  BY <1>2, <3>1 DEF Ahead, Called
  <2>2. QED  BY <1>2, <1>3, <2>1 DEF MemoryOK
<1>6. path \in Paths
  <2>1. Len(r.peers) + 1 \in 1..Len(r.inv.peers)  BY <1>5
  <2>2. QED  BY <1>2, <2>1, ElementOfSeq
<1>7. CASE ReadIo(p, path)  BY <1>6, <1>7, ReadIoGoes
<1>8. CASE FailsAt(p, "InvalidPublicKey", path)
  BY <1>6, <1>8, FailsGoes DEF Exits, CliErrors
<1>9. CASE GoesOn(p, r2)
  <2> DEFINE key == K!Decoded(file[path][1].of)
  <2>1. /\ DOMAIN more = Fields /\ more.peers = Append(r.peers, key)
        /\ \A f \in Fields \ {"peers"} : more[f] = r[f]
    BY <1>2 DEF Fields
  <2>2. more.peers \in Seq(set \union {key}) /\ Len(more.peers) = Len(r.peers) + 1
    <3>1. r.peers \in Seq(set \union {key})  BY <1>3
    <3> HIDE DEF key, more
    <3>2. QED  BY <2>1, <3>1, AppendProperties
  <2>3. /\ DOMAIN r2 = Fields /\ r2.peers = more.peers
        /\ \A f \in Fields \ {"peers", "pos"} : r2[f] = r[f]
        /\ r2.pos = IF last THEN r.pos + 1 ELSE r.pos
    <3> HIDE DEF more
    <3>1. CASE last
      <4>1. r2 = Advanced(more)  BY <3>1
      <4>2. QED  BY <2>1, <3>1, <4>1, AdvancedFields DEF Fields
    <3>2. CASE ~last
      <4>1. r2 = more  BY <3>2
      <4>2. QED  BY <2>1, <3>2, <4>1 DEF Fields
    <3>3. QED  BY <3>1, <3>2
  <2> HIDE DEF r2, more, key
  <2>4. /\ Kept(r, r2) /\ r2.touched = r.touched /\ r2.held = r.held /\ r2.got = r.got
    BY <2>3 DEF Kept, Fields
  <2>5. /\ r2.held = << >> \/ \E x : r2.held = <<x>>
        /\ \E other : r2.got \in Seq(other)
        /\ \E other : r2.peers \in Seq(other)
        /\ r2.touched \in BOOLEAN /\ Len(r2.peers) <= Len(r.inv.peers)
    BY <1>2, <1>5, <2>2, <2>3, <2>4 DEF MemoryOK
  <2>6. MemoryOK(r2, runs)
    <3>1. CASE last
      <4>1. Moves(r, r2)  BY <1>2, <2>3, <2>4, <3>1 DEF Moves, Called
      <4>2. r.pos <= LastCall(r.inv)  BY <1>2 DEF Called
      <4>3. QED  BY <1>2, <2>4, <2>5, <4>1, <4>2, MovesOK
    <3>2. CASE ~last
      <4>1. Steady(r, r2)  BY <2>3, <2>4, <3>2 DEF Steady
      <4>2. Len(r2.peers) < Len(r.inv.peers)  BY <1>5, <2>2, <2>3, <3>2
      <4>3. QED  BY <1>2, <2>4, <2>5, <4>1, <4>2, SteadyOK
    <3>3. QED  BY <3>1, <3>2
  <2>7. QED  BY <1>9, <2>4, <2>6, GoesOnGoes
<1>10. QED  BY <1>7, <1>8, <1>9 DEF OpenPublicKey

LEMMA OpenOtherGoes ==
  ASSUME MemoriesOK, NEW p \in Procs, OpenOther(p)
  PROVE  Goes(p)
<1> DEFINE r2 == [Advanced(proc[p]) EXCEPT !.other = file[proc[p].inv.other]]
<1>1. At(p, "other")  BY DEF OpenOther
<1>2. DOMAIN proc[p] = Fields /\ proc[p].inv.other \in Paths  BY <1>1, AtCall DEF MemoryOK
<1>3. CASE FailsAt(p, "Invalid", proc[p].inv.other)
  BY <1>2, <1>3, FailsGoes DEF Exits, CliErrors
<1>4. CASE ReadIo(p, proc[p].inv.other)  BY <1>2, <1>4, ReadIoGoes
<1>5. CASE GoesOn(p, r2)
  <2>1. /\ DOMAIN r2 = Fields /\ r2.pos = proc[p].pos + 1
        /\ \A f \in Fields \ {"pos", "other"} : r2[f] = proc[p][f]
    BY <1>2, AdvancedFields DEF Fields
  <2> HIDE DEF r2
  <2>2. /\ Kept(proc[p], r2) /\ r2.peers = proc[p].peers /\ r2.touched = proc[p].touched
        /\ r2.held = proc[p].held /\ r2.got = proc[p].got
    BY <2>1 DEF Kept, Fields
  <2>3. MemoryOK(r2, runs)  BY <1>1, <2>1, <2>2, Onward
  <2>4. QED  BY <1>5, <2>2, <2>3, GoesOnGoes
<1>6. QED  BY <1>3, <1>4, <1>5 DEF OpenOther

\* What a process remembers of a write, before which it was r.
Wrote(r, piece) == [r EXCEPT !.held = IF r.inv.output = Pipe THEN <<piece>> ELSE << >>]

LEMMA WroteOK ==
  ASSUME NEW r, NEW piece, NEW n, MemoryOK(r, n)
  PROVE  /\ MemoryOK(Wrote(r, piece), n) /\ Kept(r, Wrote(r, piece))
         /\ \A f \in Fields \ {"held"} : Wrote(r, piece)[f] = r[f]
         /\ Wrote(r, piece).held = IF r.inv.output = Pipe THEN <<piece>> ELSE << >>
<1> DEFINE r2 == Wrote(r, piece)
<1>1. /\ DOMAIN r2 = Fields /\ r2.held = IF r.inv.output = Pipe THEN <<piece>> ELSE << >>
      /\ \A f \in Fields \ {"held"} : r2[f] = r[f]
  BY DEF Wrote, MemoryOK, Fields
<1> HIDE DEF r2
<1>2. /\ Kept(r, r2) /\ r2.pos = r.pos /\ r2.touched = r.touched /\ r2.peers = r.peers
      /\ r2.got = r.got
  BY <1>1 DEF Kept, Fields
<1>3. r2.held = << >> \/ \E x : r2.held = <<x>>  BY <1>1
<1>4. MemoryOK(r2, n)  BY <1>2, <1>3 DEF MemoryOK, Kept, Ahead, Behind
<1>5. QED  BY <1>1, <1>2, <1>4 DEF r2

LEMMA WritesGoes ==
  ASSUME NEW p, NEW piece, NEW r, Writes(p, piece, r), MemoryOK(r, runs), Kept(proc[p], r)
  PROVE  Goes(p)
<1>1. MemoryOK(Wrote(r, piece), runs) /\ Kept(r, Wrote(r, piece))  BY WroteOK
<1>2. Kept(proc[p], Wrote(r, piece))  BY <1>1 DEF Kept
<1>3. proc' = [proc EXCEPT ![p] = Wrote(r, piece)] /\ ended' = None /\ runs' = runs
  BY DEF Writes, Wrote
<1>4. FileKept(p)  BY DEF Writes, FileKept, Kept
<1>5. QED  BY <1>1, <1>2, <1>3, <1>4 DEF Goes, Continues

\* A write that fails; what is blamed for it.
LEMMA WriteIoGoes ==
  ASSUME MemoriesOK, NEW p \in Procs, NEW call, At(p, call), NEW piece, WriteIo(p, piece)
  PROVE  Goes(p)
<1>1. WriteBlames(proc[p]) \in Paths \union {NoPath}  BY AtCall DEF WriteBlames
<1>2. QED  BY <1>1, WriteFailsEnds DEF WriteIo, Goes, Exits, CliErrors, Faults

LEMMA ReadGoes ==
  ASSUME MemoriesOK, NEW p \in Procs, Read(p)
  PROVE  Goes(p)
<1>1. At(p, "read")  BY DEF Read
<1>2. CASE InputFails(p)
  BY <1>1, <1>2, AtCall, FailsGoes DEF InputFails, Exits, CliErrors, Faults
<1>3. CASE GoesOn(p, Got(p))  BY <1>1, <1>3, GotGoes, GoesOnGoes
<1>4. CASE GoesOn(p, Advanced(proc[p]))  BY <1>1, <1>4, AdvancesGoes
<1>5. QED  BY <1>2, <1>3, <1>4 DEF Read

LEMMA WriteResultGoes ==
  ASSUME MemoriesOK, NEW p \in Procs, WriteResult(p)
  PROVE  Goes(p)
<1>1. At(p, "write")  BY DEF WriteResult
<1>2. CASE WriteIo(p, Result(proc[p]))  BY <1>1, <1>2, WriteIoGoes
<1>3. CASE \/ WriteFails(p, Result(proc[p]), "TermIo", NoPath)
           \/ WriteFails(p, Result(proc[p]), "panic", NoPath)
  BY <1>3, WriteFailsEnds DEF Goes, Exits, CliErrors, Faults
<1>4. CASE Writes(p, Result(proc[p]), Advanced(proc[p]))
  BY <1>1, <1>4, AdvancedOK, WritesGoes
<1>5. QED  BY <1>2, <1>3, <1>4 DEF WriteResult

LEMMA CompareGoes ==
  ASSUME MemoriesOK, NEW p \in Procs, Compare(p)
  PROVE  Goes(p)
<1>1. At(p, "compare")  BY DEF Compare
<1>2. CASE Fails(p, "BadSignature") \/ Fails(p, "DigestMismatch")
  BY <1>2, FailsGoes DEF Fails, Exits, CliErrors
<1>3. CASE GoesOn(p, Advanced(proc[p]))  BY <1>1, <1>3, AdvancesGoes
<1>4. QED  BY <1>2, <1>3 DEF Compare

LEMMA WriteHeadersGoes ==
  ASSUME MemoriesOK, NEW p \in Procs, WriteHeaders(p)
  PROVE  Goes(p)
<1> DEFINE headers == Sealed(proc[p], "headers", << >>, 0)
<1>1. At(p, "headers")  BY DEF WriteHeaders
<1>2. CASE WriteIo(p, headers)  BY <1>1, <1>2, WriteIoGoes
<1>3. CASE Writes(p, headers, Advanced(proc[p]))  BY <1>1, <1>3, AdvancedOK, WritesGoes
<1>4. QED  BY <1>2, <1>3 DEF WriteHeaders

LEMMA EncryptBlockGoes ==
  ASSUME MemoriesOK, NEW p \in Procs, EncryptBlock(p)
  PROVE  Goes(p)
<1> DEFINE block == Sealed(proc[p], "block", <<NextPiece(p)>>, Len(proc[p].got) + 1)
<1>1. At(p, "blocks")  BY DEF EncryptBlock
<1>2. CASE InputFails(p)
  BY <1>1, <1>2, AtCall, FailsGoes DEF InputFails, Exits, CliErrors, Faults
<1>3. CASE WriteIo(p, block)  BY <1>1, <1>3, WriteIoGoes
<1>4. CASE Writes(p, block, Advanced(Got(p)))  BY <1>1, <1>4, AdvancedOK, WritesGoes
<1>5. CASE Writes(p, block, Got(p))  BY <1>1, <1>5, GotGoes, WritesGoes
<1>6. CASE GoesOn(p, Advanced(proc[p]))  BY <1>1, <1>6, AdvancesGoes
<1>7. QED  BY <1>2, <1>3, <1>4, <1>5, <1>6 DEF EncryptBlock

LEMMA EncryptEndGoes ==
  ASSUME MemoriesOK, NEW p \in Procs, EncryptEnd(p)
  PROVE  Goes(p)
<1> DEFINE end == Sealed(proc[p], "end", << >>, Len(proc[p].got) + 1)
<1>1. At(p, "end")  BY DEF EncryptEnd
<1>2. CASE WriteIo(p, end)  BY <1>1, <1>2, WriteIoGoes
<1>3. CASE Writes(p, end, Advanced(proc[p]))  BY <1>1, <1>3, AdvancedOK, WritesGoes
<1>4. QED  BY <1>2, <1>3 DEF EncryptEnd

LEMMA DecryptHeaderGoes ==
  ASSUME MemoriesOK, NEW p \in Procs, DecryptHeader(p)
  PROVE  Goes(p)
<1>1. At(p, "header")  BY DEF DecryptHeader
<1>2. CASE InputFails(p)
  BY <1>1, <1>2, AtCall, FailsGoes DEF InputFails, Exits, CliErrors, Faults
<1>3. CASE Fails(p, "InvalidCiphertext")  BY <1>3, FailsGoes DEF Fails, Exits, CliErrors
<1>4. CASE GoesOn(p, Advanced(Got(p)))  BY <1>1, <1>4, AdvancesGoes
<1>5. QED  BY <1>2, <1>3, <1>4 DEF DecryptHeader

LEMMA DecryptBlockGoes ==
  ASSUME MemoriesOK, NEW p \in Procs, DecryptBlock(p)
  PROVE  Goes(p)
<1> DEFINE text == NextPiece(p).of[1]
<1>1. At(p, "message")  BY DEF DecryptBlock
<1>2. CASE InputFails(p)
  BY <1>1, <1>2, AtCall, FailsGoes DEF InputFails, Exits, CliErrors, Faults
<1>3. CASE WriteIo(p, text)  BY <1>1, <1>3, WriteIoGoes
<1>4. CASE Writes(p, text, Got(p))  BY <1>1, <1>4, GotGoes, WritesGoes
<1>5. CASE GoesOn(p, Got(p))  BY <1>1, <1>5, GotGoes, GoesOnGoes
<1>6. CASE Fails(p, "InvalidCiphertext") \/ Fails(p, "panic")
  BY <1>6, FailsGoes DEF Fails, Exits, CliErrors
<1>7. CASE FailsAt(p, "UnexpectedEof", proc[p].inv.input)
  BY <1>1, <1>7, AtCall, FailsGoes DEF Exits, CliErrors
<1>8. CASE GoesOn(p, Advanced(proc[p]))  BY <1>1, <1>8, AdvancesGoes
<1>9. QED  BY <1>2, <1>3, <1>4, <1>5, <1>6, <1>7, <1>8 DEF DecryptBlock

\* A process that takes a step ends or goes on, and changes no file but its output.
LEMMA StepGoes ==
  ASSUME MemoriesOK, NEW p \in Procs, Step(p) \/ Kill(p)
  PROVE  Goes(p)
<1>1. CASE Exit(p)  BY <1>1, FailsGoes DEF Exit, Fails, Exits
<1>2. CASE Kill(p)  BY <1>2, EndsKeepsFiles DEF Kill, Goes, EndsIn, Exits
<1>3. QED
  BY <1>1, <1>2, ReadPassphraseGoes, DecryptKeyGoes, OpenInputGoes, OpenOutputGoes,
     OpenPublicKeyGoes, OpenOtherGoes, ReadGoes, WriteResultGoes, CompareGoes,
     WriteHeadersGoes, EncryptBlockGoes, EncryptEndGoes, DecryptHeaderGoes, DecryptBlockGoes
     DEF Step

-----------------------------------------------------------------------------
(* The types.                                                              *)

LEMMA MemoryLasts ==
  ASSUME NEW r, NEW n \in Nat, MemoryOK(r, n)
  PROVE  MemoryOK(r, n + 1)
<1>1. r.run \in 1..(n + 1)  BY DEF MemoryOK
<1>2. QED  BY <1>1 DEF MemoryOK

LEMMA BegunOK ==
  ASSUME NEW n \in Nat, NEW inv \in Invocations
  PROVE  MemoryOK(Begun(n + 1, inv), n + 1)
<1> DEFINE r == Begun(n + 1, inv)
<1>1. /\ DOMAIN r = Fields /\ r.run = n + 1 /\ r.inv = inv /\ r.pos = 1
      /\ r.peers = << >> /\ r.got = << >> /\ r.held = << >> /\ r.touched = FALSE
  BY DEF Begun, Fields
<1> HIDE DEF r
<1>2. LastCall(inv) \in Nat  BY PlanLengths, InvocationAssumption DEF LastCall
<1>3. r.run \in 1..(n + 1) /\ r.pos \in 1..(LastCall(inv) + 1)  BY <1>1, <1>2
<1>4. ~Behind(r, "create")  BY <1>1 DEF Behind
<1>5. inv.peers \in Seq(Paths) /\ Len(inv.peers) \in Nat  BY InvocationAssumption
<1>6. << >> \in Seq({}) /\ Len(<< >>) = 0  OBVIOUS
<1>7. Ahead(r, "peers") => 0 < Len(inv.peers)
  <2>1. Ahead(r, "peers") => Calls(inv, "peers")  BY <1>1 DEF Ahead, Calls, LastCall
  <2>2. inv.peers # << >> => Len(inv.peers) # 0  BY <1>5, EmptySeq
  <2>3. QED  BY <1>5, <2>1, <2>2, InvocationAssumption
<1>8. /\ Len(r.peers) <= Len(r.inv.peers)
      /\ \E set : r.peers \in Seq(set)
      /\ \E set : r.got \in Seq(set)
  BY <1>1, <1>5, <1>6
<1>9. MemoryOK(r, n + 1)  BY <1>1, <1>3, <1>4, <1>6, <1>7, <1>8 DEF MemoryOK
<1>10. QED  BY <1>9 DEF r

LEMMA MemoriesInit == Init => MemoriesOK
<1> SUFFICES ASSUME Init PROVE MemoriesOK  OBVIOUS
<1>1. \A p \in Procs : ~Running(p)  BY DEF Init, Running
<1>2. TypeOK
  BY <1>1, CliAssumption DEF TypeOK, Init, None, Ending
<1>3. QED  BY <1>1, <1>2 DEF MemoriesOK, Init, Apart

\* What follows for the types.
LEMMA MemoryTyped ==
  ASSUME NEW r, NEW n, MemoryOK(r, n)
  PROVE  /\ r.inv \in Invocations /\ r.run \in 1..n
         /\ Len(r.peers) <= Len(r.inv.peers) /\ Len(r.held) <= 1
<1>1. Len(r.held) <= 1
  <2>1. \A x : Len(<<x>>) <= 1  OBVIOUS
  <2>2. Len(<< >>) <= 1  OBVIOUS
  <2>3. r.held = << >> \/ \E x : r.held = <<x>>  BY DEF MemoryOK
  <2>4. QED  BY <2>1, <2>2, <2>3, Zenon
<1>2. QED  BY <1>1, Zenon DEF MemoryOK

LEMMA StartKeepsTypes ==
  ASSUME MemoriesOK, NEW p \in Procs, Start(p)
  PROVE  MemoriesOK'
<1>1. PICK inv \in Invocations :
        /\ \A q \in Procs : (Running(q) /\ inv.output # NoPath) => proc[q].inv.output # inv.output
        /\ proc' = [proc EXCEPT ![p] = Begun(runs + 1, inv)]
        /\ file' = IF inv.output = Pipe THEN [file EXCEPT ![Pipe] = << >>] ELSE file
  BY DEF Start
<1>2. /\ DOMAIN proc = Procs /\ DOMAIN file = Paths
      /\ runs \in Nat /\ MaxRuns \in Nat /\ runs < MaxRuns /\ runs' = runs + 1 /\ ended' = None
  BY CliAssumption DEF MemoriesOK, TypeOK, Start
<1>3. /\ DOMAIN proc' = Procs /\ DOMAIN file' = Paths /\ runs' \in 0..MaxRuns
      /\ proc'[p] = Begun(runs + 1, inv)
      /\ \A q \in Procs \ {p} : proc'[q] = proc[q]
  BY <1>1, <1>2
<1>4. \A q \in Procs : Running(q)' => MemoryOK(proc'[q], runs')
  BY <1>2, <1>3, BegunOK, MemoryLasts DEF MemoriesOK, Running
<1>5. TypeOK'
  <2>1. ended'.exit = "none" /\ ended'.blamed = NoPath  BY <1>2 DEF None, Ending
  <2>2. \A q \in Procs : Running(q)' =>
          /\ proc'[q].inv \in Invocations /\ proc'[q].run \in 1..runs'
          /\ Len(proc'[q].peers) <= Len(proc'[q].inv.peers) /\ Len(proc'[q].held) <= 1
    BY <1>4, MemoryTyped
  <2>3. QED  BY <1>3, <2>1, <2>2 DEF TypeOK
<1>6. Apart'
  <2>1. proc'[p].inv = inv  BY <1>3 DEF Begun
  <2>2. QED  BY <1>1, <1>3, <2>1 DEF MemoriesOK, Apart, Running
<1>7. QED  BY <1>3, <1>4, <1>5, <1>6 DEF MemoriesOK

LEMMA StepKeepsTypes ==
  ASSUME MemoriesOK, NEW p \in Procs, Step(p) \/ Kill(p), Running(p)
  PROVE  MemoriesOK'
<1>1. Goes(p)  BY StepGoes
<1>2. /\ DOMAIN proc = Procs /\ DOMAIN file' = Paths /\ runs \in 0..MaxRuns
  BY <1>1 DEF MemoriesOK, TypeOK, Goes, FileKept
<1>3. PICK r2 : /\ proc' = [proc EXCEPT ![p] = r2] /\ runs' = runs
                /\ r2 = Gone \/ (MemoryOK(r2, runs) /\ Kept(proc[p], r2))
                /\ ended'.exit \in CliErrors \union {"none", "ok", "killed", "panic"}
                /\ ended'.blamed \in Paths \union {NoPath}
  <2>1. CASE EndsIn(p, Exits)
    <3>1. PICK exit \in Exits, blamed \in Paths \union {NoPath} : \E left : Ends(p, exit, blamed, left)
      BY <2>1 DEF EndsIn
    <3>2. /\ proc' = [proc EXCEPT ![p] = Gone] /\ runs' = runs
          /\ ended'.exit = exit /\ ended'.blamed = blamed
      BY <3>1 DEF Ends, Ending
    <3>3. QED  BY <3>2 DEF Exits
  <2>2. CASE Continues(p)
    <3>1. ended'.exit = "none" /\ ended'.blamed = NoPath  BY <2>2 DEF Continues, None, Ending
    <3>2. QED  BY <2>2, <3>1 DEF Continues
  <2>3. QED  BY <1>1, <2>1, <2>2 DEF Goes
<1>4. /\ DOMAIN proc' = Procs /\ proc'[p] = r2 /\ \A q \in Procs \ {p} : proc'[q] = proc[q]
  BY <1>2, <1>3
<1>5. \A q \in Procs : Running(q)' => MemoryOK(proc'[q], runs')
  BY <1>3, <1>4 DEF MemoriesOK, Running
<1>6. TypeOK'
  <2>1. \A q \in Procs : Running(q)' =>
          /\ proc'[q].inv \in Invocations /\ proc'[q].run \in 1..runs'
          /\ Len(proc'[q].peers) <= Len(proc'[q].inv.peers) /\ Len(proc'[q].held) <= 1
    BY <1>5, MemoryTyped
  <2>2. QED  BY <1>2, <1>3, <2>1 DEF TypeOK
<1>7. Apart'
  BY <1>3, <1>4 DEF MemoriesOK, Apart, Running, Kept
<1>8. QED  BY <1>4, <1>5, <1>6, <1>7 DEF MemoriesOK

\* Only a process that runs takes steps.
LEMMA StepRuns ==
  ASSUME NEW p, Step(p) \/ Kill(p)
  PROVE  Running(p)
BY DEF Step, Kill, Exit, ReadPassphrase, DecryptKey, OpenInput, OpenOutput, OpenPublicKey,
       OpenOther, Read, WriteResult, Compare, WriteHeaders, EncryptBlock, EncryptEnd,
       DecryptHeader, DecryptBlock, At

LEMMA MemoriesInductive ==
  ASSUME MemoriesOK, [Next]_vars
  PROVE  MemoriesOK'
<1>1. CASE \E p \in Procs : Start(p)  BY <1>1, StartKeepsTypes
<1>2. CASE \E p \in Procs : Step(p) \/ Kill(p)  BY <1>2, StepRuns, StepKeepsTypes
<1>3. CASE UNCHANGED vars
  BY <1>3 DEF vars, MemoriesOK, TypeOK, Apart, Running
<1>4. QED  BY <1>1, <1>2, <1>3 DEF Next

LEMMA MemoriesHold == Spec => []MemoriesOK
<1>1. MemoriesOK /\ [Next]_vars => MemoriesOK'  BY MemoriesInductive
<1>2. QED  BY <1>1, MemoriesInit, PTL DEF Spec

\* Every command has its type in every behaviour, and holds back at most one piece of
\* its output (the calls of each `run' in cli.rs).
THEOREM CommandsTyped == Spec => []TypeOK
<1>1. MemoriesOK => TypeOK  BY DEF MemoriesOK
<1>2. QED  BY <1>1, MemoriesHold, PTL

-----------------------------------------------------------------------------
(* Which error ends a call, and whose path is in it.                       *)

KeyErrors == {"Passphrase", "BadPassphrase"}

\* What is true of the end of process p, if its step is one.
Proper(p) ==
  LET inv == proc[p].inv
      blamed == ended'.blamed
  IN  /\ ended'.exit \in KeyErrors => At(p, "passphrase") \/ At(p, "key")
      /\ ended'.exit = "NotFound" => file[blamed] = Absent
      /\ ended'.exit = "InvalidPublicKey" => ~Parses(file[blamed], "public")
      /\ ended'.exit = "Invalid" =>
           ~Parses(file[blamed], IF inv.cmd = "verify" THEN "signature" ELSE "digest")
      /\ ended'.exit = "WriteIo" =>
           blamed = IF inv.cmd = "decrypt" /\ proc[p].touched THEN inv.input ELSE inv.output

Plain == (Exits \union {"none"}) \
           (KeyErrors \union {"NotFound", "InvalidPublicKey", "Invalid", "WriteIo"})

LEMMA PlainProper ==
  ASSUME NEW p, ended'.exit \in Plain
  PROVE  Proper(p)
BY DEF Proper, Plain, KeyErrors

LEMMA FailsWith ==
  ASSUME NEW p, NEW exit, NEW blamed, FailsAt(p, exit, blamed)
  PROVE  ended'.exit = exit /\ ended'.blamed = blamed
BY DEF FailsAt, Ends, Ending

LEMMA WriteFailsWith ==
  ASSUME NEW p, NEW piece, NEW exit, NEW blamed, WriteFails(p, piece, exit, blamed)
  PROVE  ended'.exit = exit /\ ended'.blamed = blamed
BY DEF WriteFails, Ends, Ending

LEMMA FailsProper ==
  ASSUME NEW p, NEW exit \in Plain, NEW blamed, FailsAt(p, exit, blamed)
  PROVE  Proper(p)
BY FailsWith, PlainProper

LEMMA WriteFailsProper ==
  ASSUME NEW p, NEW piece, NEW exit \in Plain, NEW blamed, WriteFails(p, piece, exit, blamed)
  PROVE  Proper(p)
BY WriteFailsWith, PlainProper

LEMMA GoingOnProper ==
  ASSUME NEW p, ended' = None
  PROVE  Proper(p)
<1>1. ended'.exit = "none"  BY DEF None, Ending
<1>2. QED  BY <1>1, PlainProper DEF Plain, KeyErrors

LEMMA ReadIoProper ==
  ASSUME NEW p, NEW path, ReadIo(p, path)
  PROVE  Proper(p)
<1>1. CASE file[path] = Absent
  <2>1. ended'.exit = "NotFound" /\ ended'.blamed = path  BY <1>1, FailsWith DEF ReadIo
  <2>2. QED  BY <1>1, <2>1 DEF Proper, KeyErrors
<1>2. CASE file[path] # Absent
  <2>1. ended'.exit = "ReadIo"  BY <1>2, FailsWith DEF ReadIo
  <2>2. QED  BY <2>1 DEF Proper, KeyErrors
<1>3. QED  BY <1>1, <1>2

\* decrypt writes after it has created its output, and no other command names its
\* input for a failed write.
LEMMA DecryptWritesLast ==
  /\ Plan["decrypt"][1] # "create" /\ Plan["decrypt"][2] = "create"
  /\ \A k \in 1..Len(Plan["decrypt"]) :
       Plan["decrypt"][k] \in {"write", "headers", "blocks", "end", "message"} => k = 6
BY Plans

LEMMA WriteIoProper ==
  ASSUME MemoriesOK, NEW p \in Procs,
         NEW call \in {"write", "headers", "blocks", "end", "message"}, At(p, call),
         NEW piece, WriteIo(p, piece)
  PROVE  Proper(p)
<1> DEFINE r == proc[p]
<1>1. MemoryOK(r, runs) /\ Called(r, call) /\ r.pos \in Nat \ {0} /\ r.inv.cmd \in Cmds
  BY AtCall
<1>2. r.inv.cmd = "decrypt" => r.touched
  <2>1. SUFFICES ASSUME r.inv.cmd = "decrypt" PROVE Behind(r, "create")
    BY <1>1 DEF MemoryOK
  <2>2. r.pos \in 1..Len(Plan["decrypt"]) /\ Plan["decrypt"][r.pos] = call
    BY <1>1, <2>1, PlanLengths DEF Called, LastCall
  <2>3. 2 \in 1..(r.pos - 1)  BY <2>2, DecryptWritesLast
  <2>4. QED  BY <2>1, <2>3, DecryptWritesLast DEF Behind
<1>3. ended'.exit = "WriteIo" /\ ended'.blamed = WriteBlames(r)
  BY WriteFailsWith DEF WriteIo
<1>4. QED  BY <1>2, <1>3 DEF Proper, KeyErrors, WriteBlames

LEMMA OpenOutputProper ==
  ASSUME MemoriesOK, NEW p \in Procs, OpenOutput(p)
  PROVE  Proper(p)
<1> DEFINE r == proc[p]
<1>1. At(p, "create")  BY DEF OpenOutput
<1>2. MemoryOK(r, runs) /\ Called(r, "create") /\ r.pos \in Nat \ {0} /\ r.inv.cmd \in Cmds
  BY <1>1, AtCall
<1>3. r.inv.cmd = "decrypt" => ~r.touched
  <2>1. SUFFICES ASSUME r.inv.cmd = "decrypt" PROVE ~Behind(r, "create")
    BY <1>2 DEF MemoryOK
  <2>2. SUFFICES ASSUME NEW j \in 1..(r.pos - 1), Plan["decrypt"][j] = "create" PROVE FALSE
    BY <2>1 DEF Behind
  <2>3. j \in 1..Len(Plan["decrypt"]) /\ r.pos \in 1..Len(Plan["decrypt"]) /\ j # r.pos
    BY <1>2, <2>1, PlanLengths DEF Called, LastCall
  <2>4. "decrypt" \in Cmds /\ Plan["decrypt"][r.pos] = "create"  BY <1>2, <2>1 DEF Called
  <2>5. QED  BY <2>2, <2>3, <2>4, PlanOnce
<1>4. CASE Fails(p, "StdoutTty")
  BY <1>4, FailsProper DEF Fails, Plain, Exits, CliErrors, Faults, KeyErrors
<1>5. CASE FailsAt(p, "WriteIo", r.inv.output)
  <2>1. ended'.exit = "WriteIo" /\ ended'.blamed = r.inv.output  BY <1>5, FailsWith
  <2>2. QED  BY <1>3, <2>1 DEF Proper, KeyErrors
<1>6. QED  BY <1>4, <1>5, GoingOnProper DEF OpenOutput

LEMMA OpenPublicKeyProper ==
  ASSUME NEW p, OpenPublicKey(p)
  PROVE  Proper(p)
<1> DEFINE r == proc[p]
           path == r.inv.peers[Len(r.peers) + 1]
<1>1. CASE ~Parses(file[path], "public") /\ FailsAt(p, "InvalidPublicKey", path)
  <2>1. ended'.exit = "InvalidPublicKey" /\ ended'.blamed = path  BY <1>1, FailsWith
  <2>2. QED  BY <1>1, <2>1 DEF Proper, KeyErrors
<1>2. CASE ReadIo(p, path)  BY <1>2, ReadIoProper
<1>3. QED  BY <1>1, <1>2, GoingOnProper DEF OpenPublicKey, GoesOn

LEMMA OpenOtherProper ==
  ASSUME NEW p, OpenOther(p)
  PROVE  Proper(p)
<1> DEFINE path == proc[p].inv.other
           kind == IF proc[p].inv.cmd = "verify" THEN "signature" ELSE "digest"
<1>1. CASE ~Parses(file[path], kind) /\ FailsAt(p, "Invalid", path)
  <2>1. ended'.exit = "Invalid" /\ ended'.blamed = path  BY <1>1, FailsWith
  <2>2. QED  BY <1>1, <2>1 DEF Proper, KeyErrors
<1>2. CASE ReadIo(p, path)  BY <1>2, ReadIoProper
<1>3. QED  BY <1>1, <1>2, GoingOnProper DEF OpenOther, GoesOn

LEMMA KeyProper ==
  ASSUME NEW p, ReadPassphrase(p) \/ DecryptKey(p)
  PROVE  Proper(p)
<1>1. At(p, "passphrase") \/ At(p, "key")  BY DEF ReadPassphrase, DecryptKey
<1>2. CASE Fails(p, "Passphrase") \/ Fails(p, "BadPassphrase")
  <2>1. ended'.exit \in KeyErrors  BY <1>2, FailsWith DEF Fails, KeyErrors
  <2>2. QED  BY <1>1, <2>1 DEF Proper, KeyErrors
<1>3. QED
  BY <1>2, GoingOnProper, ReadIoProper DEF ReadPassphrase, DecryptKey, GoesOn

\* Every other step.
LEMMA OtherProper ==
  ASSUME MemoriesOK, NEW p \in Procs,
         \/ OpenInput(p) \/ Read(p) \/ WriteResult(p) \/ Compare(p) \/ WriteHeaders(p)
         \/ EncryptBlock(p) \/ EncryptEnd(p) \/ DecryptHeader(p) \/ DecryptBlock(p)
         \/ Exit(p) \/ Kill(p)
  PROVE  Proper(p)
<1>1. {"StdinTty", "ReadIo", "TermIo", "panic", "BadSignature", "DigestMismatch",
       "InvalidCiphertext", "UnexpectedEof", "ok", "killed"} \subseteq Plain
  BY DEF Plain, Exits, CliErrors, Faults, KeyErrors
<1>2. CASE OpenInput(p)
  BY <1>1, <1>2, FailsProper, ReadIoProper, GoingOnProper DEF OpenInput, Fails, GoesOn
<1>3. CASE Read(p)
  BY <1>1, <1>3, FailsProper, GoingOnProper DEF Read, InputFails, GoesOn
<1>4. CASE WriteResult(p)
  BY <1>1, <1>4, WriteFailsProper, WriteIoProper, GoingOnProper DEF WriteResult, Writes
<1>5. CASE Compare(p)
  BY <1>1, <1>5, FailsProper, GoingOnProper DEF Compare, Fails, GoesOn
<1>6. CASE WriteHeaders(p)
  BY <1>6, WriteIoProper, GoingOnProper DEF WriteHeaders, Writes
<1>7. CASE EncryptBlock(p)
  BY <1>1, <1>7, FailsProper, WriteIoProper, GoingOnProper
     DEF EncryptBlock, InputFails, Writes, GoesOn
<1>8. CASE EncryptEnd(p)
  BY <1>8, WriteIoProper, GoingOnProper DEF EncryptEnd, Writes
<1>9. CASE DecryptHeader(p)
  BY <1>1, <1>9, FailsProper, GoingOnProper DEF DecryptHeader, InputFails, Fails, GoesOn
<1>10. CASE DecryptBlock(p)
  BY <1>1, <1>10, FailsProper, WriteIoProper, GoingOnProper
     DEF DecryptBlock, InputFails, Fails, Writes, GoesOn
<1>11. CASE Exit(p)  BY <1>1, <1>11, FailsProper DEF Exit, Fails
<1>12. CASE Kill(p)
  <2>1. ended'.exit = "killed"  BY <1>12 DEF Kill, Ends, Ending
  <2>2. QED  BY <1>1, <2>1, PlainProper
<1>13. QED
  BY <1>2, <1>3, <1>4, <1>5, <1>6, <1>7, <1>8, <1>9, <1>10, <1>11, <1>12

\* The end of a process is a step of its own.
LEMMA EndIsStep ==
  ASSUME MemoriesOK, [Next]_vars, NEW p \in Procs, Running(p), ~Running(p)'
  PROVE  (Step(p) \/ Kill(p)) /\ EndsIn(p, Exits)
<1>1. DOMAIN proc = Procs /\ runs \in Nat  BY CliAssumption DEF MemoriesOK, TypeOK
<1>2. ASSUME NEW q \in Procs, Start(q) PROVE FALSE
  <2>1. PICK inv \in Invocations : proc' = [proc EXCEPT ![q] = Begun(runs + 1, inv)]
    BY <1>2 DEF Start
  <2>2. Begun(runs + 1, inv) # Gone  BY <1>1, Fresh
  <2>3. QED  BY <1>1, <2>1, <2>2 DEF Running
<1>3. ASSUME NEW q \in Procs, Step(q) \/ Kill(q) PROVE q = p
  <2>1. \E r2 : proc' = [proc EXCEPT ![q] = r2]
    BY <1>3, StepGoes DEF Goes, EndsIn, Ends, Continues
  <2>2. QED  BY <1>1, <2>1 DEF Running
<1>4. ~UNCHANGED vars  BY DEF vars, Running
<1>5. Step(p) \/ Kill(p)  BY <1>2, <1>3, <1>4 DEF Next
<1>6. ~Continues(p)
  BY <1>1, MemoryRuns DEF Continues, Running
<1>7. QED  BY <1>5, <1>6, StepGoes DEF Goes

LEMMA EndsProperly ==
  ASSUME MemoriesOK, [Next]_vars, NEW p \in Procs, Running(p), ~Running(p)'
  PROVE  Proper(p)
BY EndIsStep, OpenOutputProper, OpenPublicKeyProper, OpenOtherProper, KeyProper, OtherProper
   DEF Step

\* The path in an error is at fault, except where decrypt names its input for a failed
\* write: in every step in which a command ends (CliError and the map_err of each
\* `run' in cli.rs).
THEOREM BlameCorrect == Spec => ErrorsNameTheirFile
<1> DEFINE Named ==
      \A p \in Procs :
        LET inv == proc[p].inv
            blamed == ended'.blamed
        IN  /\ EndsWith(p, {"NotFound"}) => file[blamed] = Absent
            /\ EndsWith(p, {"InvalidPublicKey"}) => ~Parses(file[blamed], "public")
            /\ EndsWith(p, {"Invalid"}) =>
                 ~Parses(file[blamed], IF inv.cmd = "verify" THEN "signature" ELSE "digest")
            /\ EndsWith(p, {"WriteIo"}) =>
                 blamed = IF inv.cmd = "decrypt" /\ proc[p].touched THEN inv.input
                          ELSE inv.output
<1>1. MemoriesOK /\ [Next]_vars => [Named]_vars
  <2>1. SUFFICES ASSUME MemoriesOK, [Next]_vars, NEW p \in Procs, Running(p), ~Running(p)'
                 PROVE  Proper(p)
    BY DEF EndsWith, Proper
  <2>2. QED  BY <2>1, EndsProperly
<1>2. QED  BY <1>1, MemoriesHold, PTL DEF Spec, ErrorsNameTheirFile

\* No command touches its output before it has its key, but for decrypt and sign: a
\* wrong passphrase costs nobody what was there (the order of the calls in cli.rs).
THEOREM BadKeyCorrect == Spec => OutputOutlivesBadKey
<1> DEFINE Outlives ==
      \A p \in Procs :
        (EndsWith(p, {"Passphrase", "BadPassphrase"}) /\ proc[p].touched)
          => proc[p].inv.cmd \in {"decrypt", "sign"}
<1>1. ASSUME MemoriesOK, [Next]_vars, NEW p \in Procs, proc[p].touched,
             EndsWith(p, {"Passphrase", "BadPassphrase"})
      PROVE  proc[p].inv.cmd \in {"decrypt", "sign"}
  <2> DEFINE r == proc[p]
  <2>1. PICK call \in {"passphrase", "key"} : At(p, call)
    BY <1>1, EndsProperly DEF EndsWith, Proper, KeyErrors
  <2>2. MemoryOK(r, runs) /\ Called(r, call) /\ r.pos \in Nat \ {0} /\ r.inv.cmd \in Cmds
    BY <1>1, <2>1, AtCall
  <2>3. r.pos # 1  BY <1>1, <2>2 DEF MemoryOK, Behind
  <2>4. r.pos \in 1..Len(Plan[r.inv.cmd]) /\ Plan[r.inv.cmd][r.pos] = call
    BY <2>2, PlanLengths DEF Called, LastCall
  <2>5. QED  BY <2>2, <2>3, <2>4, KeysFirst
<1>2. MemoriesOK /\ [Next]_vars => [Outlives]_vars  BY <1>1
<1>3. QED  BY <1>2, MemoriesHold, PTL DEF Spec, OutputOutlivesBadKey

-----------------------------------------------------------------------------
(* Where every piece comes from.                                           *)

PieceFields == {"kind", "of", "run", "to", "at", "whole"}

\* A piece of the set P after n runs: signatures and digests are of what was made, and
\* pieces of a message of the one that its run has in the log.
PieceOK(x, P, log, n, mm) ==
  /\ DOMAIN x = PieceFields
  /\ x.run \in Int /\ x.run <= n
  /\ x.kind = "block" => x.of[1] \in P
  /\ (x.kind \in {"signature", "digest"} /\ x.whole) => \E m \in mm : m[1] = x.kind /\ m[4] = x.of[1]
  /\ OfMessage(x) =>
       /\ PieceOf(x, log[x.run])
       /\ log[x.run][1] = "message" /\ log[x.run][3] \in Seq(P)
       /\ x.kind = "end" => log[x.run] \in mm

Sound(P, log, n, mm) ==
  /\ DOMAIN log = Int
  /\ \A x \in P : PieceOK(x, P, log, n, mm)

Holding(r, P) == r.got \in Seq(P) /\ r.other \in Seq(P) /\ r.held \in Seq(P)

\* Files and processes have pieces of P only.
Contents(P) ==
  /\ \A path \in Paths : file[path] \in Seq(P)
  /\ \A p \in Procs : Running(p) => Holding(proc[p], P)

\* What the log has of a run of encrypt, from its headers on.
Writing(r, P, log) ==
  r.inv.cmd = "encrypt" =>
    /\ r.pos <= 5 => r.got = << >> /\ \A x \in P : OfMessage(x) => x.run # r.run
    /\ r.pos > 5 => log[r.run] = <<"message", Route(r), r.got>>
    /\ r.pos <= 7 => \A x \in P : (OfMessage(x) /\ x.run = r.run) => x.kind # "end"

Writings(P, log) == \A p \in Procs : Running(p) => Writing(proc[p], P, log)

KnownBy(P, log) == Sound(P, log, runs, made) /\ Contents(P) /\ Writings(P, log)

MadeOK(mm) ==
  \A m \in mm :
    /\ m[1] = "signature" => m[4] = S!sign(K!Decoded(m[2]), m[3])
    /\ m[1] = "digest" => m[2] \in Seq(Seq(Nat)) /\ m[4] = D!NewDigest(m[2], m[3])

RunsApart ==
  \A p, q \in Procs : (p # q /\ Running(p) /\ Running(q)) => proc[p].run # proc[q].run

Known == MadeOK(made) /\ RunsApart /\ \E P, log : KnownBy(P, log)

LEMMA SeqGrows ==
  ASSUME NEW P, NEW Q, P \subseteq Q, NEW st \in Seq(P)
  PROVE  st \in Seq(Q)
OBVIOUS

LEMMA ContentsGrow ==
  ASSUME NEW P, NEW Q, P \subseteq Q, Contents(P)
  PROVE  Contents(Q)
BY SeqGrows DEF Contents, Holding

LEMMA PieceLasts ==
  ASSUME NEW x, NEW P, NEW Q, P \subseteq Q, NEW log, NEW n \in Nat, NEW n2 \in Nat, n <= n2,
         NEW mm, NEW m2, mm \subseteq m2, PieceOK(x, P, log, n, mm)
  PROVE  PieceOK(x, Q, log, n2, m2)
<1>1. x.run \in Int /\ x.run <= n2  BY DEF PieceOK
<1>2. OfMessage(x) => log[x.run][3] \in Seq(Q)  BY SeqGrows DEF PieceOK
<1>3. QED  BY <1>1, <1>2 DEF PieceOK

\* A piece that is none of a message, more.
LEMMA SoundGrows ==
  ASSUME NEW P, NEW log, NEW n \in Nat, NEW mm, NEW m2, mm \subseteq m2, Sound(P, log, n, mm),
         NEW z, DOMAIN z = PieceFields, z.run \in Int, z.run <= n, ~OfMessage(z),
         z.kind = "block" => z.of[1] \in P,
         (z.kind \in {"signature", "digest"} /\ z.whole) => \E m \in m2 : m[1] = z.kind /\ m[4] = z.of[1]
  PROVE  Sound(P \union {z}, log, n, m2)
<1> DEFINE Q == P \union {z}
<1>1. ASSUME NEW x \in P PROVE PieceOK(x, Q, log, n, m2)
  <2>1. PieceOK(x, P, log, n, mm)  BY DEF Sound
  <2>2. QED  BY <2>1, PieceLasts
<1>2. PieceOK(z, Q, log, n, m2)  BY DEF PieceOK
<1>3. QED  BY <1>1, <1>2 DEF Sound

LEMMA WritingGrows ==
  ASSUME NEW P, NEW log, NEW r, Writing(r, P, log), NEW z, ~OfMessage(z)
  PROVE  Writing(r, P \union {z}, log)
BY DEF Writing

\* A process ends, and pieces of P reach its output.
LEMMA EndsKnown ==
  ASSUME MemoriesOK, MadeOK(made), RunsApart, NEW P, NEW log, KnownBy(P, log), NEW p \in Procs,
         NEW exit, NEW blamed, NEW left \in Seq(P), Ends(p, exit, blamed, left)
  PROVE  Known'
<1>1. /\ DOMAIN proc = Procs /\ DOMAIN file = Paths /\ UNCHANGED <<runs, made>>
      /\ proc' = [proc EXCEPT ![p] = Gone]
      /\ file' = IF left = << >> THEN file ELSE [file EXCEPT ![proc[p].inv.output] = @ \o left]
  BY DEF MemoriesOK, TypeOK, Ends
<1>2. \A q \in Procs : Running(q)' => q # p /\ Running(q) /\ proc'[q] = proc[q]
  BY <1>1 DEF Running
<1>3. \A path \in Paths : file'[path] \in Seq(P)
  <2>1. \A path \in Paths : file[path] \in Seq(P) /\ file[path] \o left \in Seq(P)
    BY ConcatProperties DEF KnownBy, Contents
  <2>2. QED  BY <1>1, <2>1
<1>4. Contents(P)'  BY <1>2, <1>3 DEF KnownBy, Contents
<1>5. Writings(P, log)'  BY <1>2 DEF KnownBy, Writings
<1>6. RunsApart'  BY <1>2 DEF RunsApart
<1>7. QED  BY <1>1, <1>4, <1>5, <1>6 DEF Known, KnownBy

LEMMA FailsKnown ==
  ASSUME MemoriesOK, Known, NEW p \in Procs, Running(p), NEW exit, NEW blamed,
         FailsAt(p, exit, blamed)
  PROVE  Known'
<1>1. PICK P, log : KnownBy(P, log)  BY DEF Known
<1>2. PICK left \in {<< >>, proc[p].held} : Ends(p, exit, blamed, left)  BY DEF FailsAt
<1>3. left \in Seq(P)
  <2>1. proc[p].held \in Seq(P)  BY <1>1 DEF KnownBy, Contents, Holding
  <2>2. << >> \in Seq(P)  OBVIOUS
  <2>3. QED  BY <1>2, <2>1, <2>2
<1>4. QED  BY <1>1, <1>2, <1>3, EndsKnown DEF Known

\* A write that fails leaves a part of its piece.
LEMMA WriteFailsKnown ==
  ASSUME MemoriesOK, Known, NEW p \in Procs, Running(p), NEW exit, NEW blamed, NEW piece,
         NEW P, NEW log, KnownBy(P, log),
         DOMAIN piece = PieceFields, piece.run \in Int, piece.run <= runs,
         piece.kind = "block" => piece.of[1] \in P,
         WriteFails(p, piece, exit, blamed)
  PROVE  Known'
<1> DEFINE z == Torn(piece)
           Q == P \union {z}
<1>1. PICK left \in {<< >>, proc[p].held, Append(proc[p].held, z)} : Ends(p, exit, blamed, left)
  BY DEF WriteFails
<1>2. /\ DOMAIN z = PieceFields /\ z.run = piece.run /\ z.kind = piece.kind
      /\ z.of = piece.of /\ z.whole = FALSE
  BY DEF Torn, PieceFields
<1> HIDE DEF z
<1>3. ~OfMessage(z)  BY <1>2 DEF OfMessage
<1>4. runs \in Nat  BY CliAssumption DEF MemoriesOK, TypeOK
<1>5. Sound(Q, log, runs, made)  BY <1>2, <1>3, <1>4, SoundGrows DEF KnownBy
<1>6. Contents(Q)  BY ContentsGrow DEF KnownBy
<1>7. Writings(Q, log)  BY <1>3, WritingGrows DEF KnownBy, Writings
<1>8. KnownBy(Q, log)  BY <1>5, <1>6, <1>7 DEF KnownBy
<1>9. left \in Seq(Q)
  <2>1. proc[p].held \in Seq(Q)  BY <1>6 DEF Contents, Holding
  <2>2. Append(proc[p].held, z) \in Seq(Q)  BY <2>1, AppendProperties
  <2>3. << >> \in Seq(Q)  OBVIOUS
  <2>4. QED  BY <1>1, <2>1, <2>2, <2>3
<1>10. QED  BY <1>1, <1>8, <1>9, EndsKnown DEF Known

LEMMA GoesOnKnown ==
  ASSUME MemoriesOK, Known, NEW p \in Procs, Running(p), NEW r2, GoesOn(p, r2), r2.run = proc[p].run,
         NEW P, NEW log, KnownBy(P, log), Holding(r2, P), Writing(r2, P, log)
  PROVE  Known'
<1>1. /\ DOMAIN proc = Procs /\ UNCHANGED <<file, runs, made>>
      /\ proc' = [proc EXCEPT ![p] = r2]
  BY DEF MemoriesOK, GoesOn
<1>2. proc'[p] = r2 /\ \A q \in Procs \ {p} : proc'[q] = proc[q]  BY <1>1
<1>3. Contents(P)'  BY <1>1, <1>2 DEF KnownBy, Contents, Running
<1>4. Writings(P, log)'  BY <1>2 DEF KnownBy, Writings, Running
<1>5. RunsApart'  BY <1>2 DEF Known, RunsApart, Running
<1>6. QED  BY <1>1, <1>3, <1>4, <1>5 DEF Known, KnownBy

\* The same with what it has read and where it stands unchanged in what matters.
LEMMA WritesKnown ==
  ASSUME MemoriesOK, RunsApart, MadeOK(made'), NEW p \in Procs, Running(p), NEW piece, NEW r,
         Writes(p, piece, r), Kept(proc[p], r), NEW P, NEW log,
         Sound(P, log, runs, made'), Contents(P), piece \in P, Holding(r, P),
         \A q \in Procs \ {p} : Running(q) => Writing(proc[q], P, log),
         Writing(r, P, log)
  PROVE  Known'
<1> DEFINE r2 == Wrote(r, piece)
<1>1. /\ DOMAIN proc = Procs /\ DOMAIN file = Paths /\ runs' = runs
      /\ proc' = [proc EXCEPT ![p] = r2]
      /\ file' = [file EXCEPT ![r.inv.output] =
                    IF r.inv.output = Pipe THEN @ \o r.held ELSE Append(@, piece)]
  BY DEF MemoriesOK, TypeOK, Writes, Wrote
<1>2. /\ \A f \in Fields \ {"held"} : r2[f] = r[f]
      /\ r2.held = IF r.inv.output = Pipe THEN <<piece>> ELSE << >>
  BY DEF Wrote, Kept, Fields
<1> HIDE DEF r2
<1>3. proc'[p] = r2 /\ \A q \in Procs \ {p} : proc'[q] = proc[q]  BY <1>1
<1>4. Holding(r2, P)
  <2>1. <<piece>> \in Seq(P) /\ << >> \in Seq(P)  OBVIOUS
  <2>2. QED  BY <1>2, <2>1 DEF Holding, Fields
<1>5. \A path \in Paths : file'[path] \in Seq(P)
  <2>1. ASSUME NEW path \in Paths PROVE file[path] \o r.held \in Seq(P) /\ Append(file[path], piece) \in Seq(P)
    BY AppendProperties, ConcatProperties DEF Contents, Holding
  <2>2. QED  BY <1>1, <2>1 DEF Contents
<1>6. Contents(P)'  BY <1>3, <1>4, <1>5 DEF Contents, Running
<1>7. Writing(r2, P, log)
  <2>1. r2.inv = r.inv /\ r2.pos = r.pos /\ r2.got = r.got /\ r2.run = r.run /\ Route(r2) = Route(r)
    BY <1>2 DEF Route, Receivers, Fields
  <2>2. QED  BY <2>1 DEF Writing
<1>8. Writings(P, log)'  BY <1>3, <1>7 DEF Writings, Running
<1>9. RunsApart'
  <2>1. r2.run = proc[p].run  BY <1>2 DEF Kept, Fields
  <2>2. QED  BY <1>3, <2>1 DEF RunsApart, Running
<1>10. QED  BY <1>1, <1>6, <1>8, <1>9 DEF Known, KnownBy

LEMMA StartKnown ==
  ASSUME MemoriesOK, Known, NEW p \in Procs, Start(p)
  PROVE  Known'
<1>1. PICK P, log : KnownBy(P, log)  BY DEF Known
<1>2. PICK inv \in Invocations :
        /\ proc' = [proc EXCEPT ![p] = Begun(runs + 1, inv)]
        /\ file' = IF inv.output = Pipe THEN [file EXCEPT ![Pipe] = << >>] ELSE file
  BY DEF Start
<1> DEFINE r2 == Begun(runs + 1, inv)
<1>3. /\ DOMAIN proc = Procs /\ DOMAIN file = Paths /\ runs \in Nat /\ runs' = runs + 1 /\ made' = made
  BY CliAssumption DEF MemoriesOK, TypeOK, Start
<1>4. /\ r2.run = runs + 1 /\ r2.pos = 1 /\ r2.inv = inv
      /\ r2.got = << >> /\ r2.other = << >> /\ r2.held = << >>
  BY DEF Begun
<1>5. proc'[p] = r2 /\ \A q \in Procs \ {p} : proc'[q] = proc[q]  BY <1>2, <1>3
<1> HIDE DEF r2
<1>6. Sound(P, log, runs + 1, made)
  <2>1. \A x \in P : PieceOK(x, P, log, runs + 1, made)
    BY <1>1, <1>3, PieceLasts DEF KnownBy, Sound
  <2>2. QED  BY <1>1, <2>1 DEF KnownBy, Sound
<1>7. Contents(P)'
  <2>1. Holding(r2, P)  BY <1>4 DEF Holding
  <2>2. \A path \in Paths : file'[path] \in Seq(P)
    BY <1>1, <1>2, <1>3 DEF KnownBy, Contents
  <2>3. QED  BY <1>1, <1>5, <2>1, <2>2 DEF KnownBy, Contents, Running
<1>8. Writing(r2, P, log)
  <2>1. \A x \in P : x.run \in Int /\ x.run <= runs  BY <1>1 DEF KnownBy, Sound, PieceOK
  <2>2. \A x \in P : x.run # runs + 1  BY <1>3, <2>1
  <2>3. QED  BY <1>4, <2>2 DEF Writing
<1>9. Writings(P, log)'  BY <1>1, <1>5, <1>8 DEF KnownBy, Writings, Running
<1>10. RunsApart'
  <2>1. \A q \in Procs : Running(q) => proc[q].run \in 1..runs  BY DEF MemoriesOK, MemoryOK
  <2>2. \A q \in Procs : Running(q) => proc[q].run # runs + 1  BY <1>3, <2>1
  <2>3. QED  BY <1>4, <1>5, <2>2 DEF Known, RunsApart, Running
<1>11. QED  BY <1>1, <1>3, <1>6, <1>7, <1>9, <1>10 DEF Known, KnownBy

LEMMA KnownInit == Init => Known
<1> SUFFICES ASSUME Init PROVE Known  OBVIOUS
<1> DEFINE P == InitialPieces \union InitialTexts
           Has(n) == \E x \in InitialPieces : OfMessage(x) /\ x.run = n
           Is(m, n) == /\ m[1] = "message"
                       /\ \A y \in InitialPieces : OfMessage(y) /\ y.run = n => PieceOf(y, m)
           log == [n \in Int |-> IF Has(n) THEN CHOOSE m \in InitialMade : Is(m, n) ELSE << >>]
<1>1. \A p \in Procs : ~Running(p)  BY DEF Init, Running
<1>2. ASSUME NEW x \in P PROVE PieceOK(x, P, log, 0, InitialMade)
  <2>1. DOMAIN x = PieceFields /\ x.run \in Int /\ x.run <= 0
    BY InitialAssumption DEF PieceFields
  <2>2. x.kind = "block" => x.of[1] \in P
    <3>1. x \in InitialPieces /\ x.kind = "block" => x.of[1] \in InitialTexts
      BY DEF InitialTexts
    <3>2. x \in InitialTexts => x.kind = "text"  BY InitialAssumption
    <3>3. QED  BY <3>1, <3>2
  <2>3. (x.kind \in {"signature", "digest"} /\ x.whole)
          => \E m \in InitialMade : m[1] = x.kind /\ m[4] = x.of[1]
    BY InitialAssumption
  <2>4. ASSUME OfMessage(x)
        PROVE  /\ PieceOf(x, log[x.run]) /\ log[x.run][1] = "message"
               /\ log[x.run][3] \in Seq(P) /\ log[x.run] \in InitialMade
    <3>1. x \in InitialPieces
      <4>1. x.kind # "text"  BY <2>4 DEF OfMessage
      <4>2. QED  BY <4>1, InitialAssumption
    <3>2. \E m \in InitialMade : Is(m, x.run)  BY <2>4, InitialAssumption
    <3>3. log[x.run] = CHOOSE m \in InitialMade : Is(m, x.run)
      BY <2>1, <2>4, <3>1
    <3>4. log[x.run] \in InitialMade /\ Is(log[x.run], x.run)
      <4> HIDE DEF log
      <4>1. QED  BY <3>2, <3>3
    <3>5. log[x.run][3] \in Seq(P)
      <4>1. log[x.run][3] \in Seq(InitialTexts)
        <5> HIDE DEF log
        <5>1. QED  BY <3>4, InitialAssumption
      <4> HIDE DEF log
      <4>2. QED  BY <4>1, SeqGrows
    <3> HIDE DEF log
    <3>6. QED  BY <2>4, <3>1, <3>4, <3>5
  <2> HIDE DEF P, log
  <2>5. QED  BY <2>1, <2>2, <2>3, <2>4 DEF PieceOK
<1>3. DOMAIN log = Int  OBVIOUS
<1>4. \A path \in Paths : InitialFiles[path] \in Seq(P)
  <2>1. \A path \in Paths : InitialFiles[path] \in Seq(InitialPieces)  BY InitialAssumption
  <2>2. InitialPieces \subseteq P  OBVIOUS
  <2> HIDE DEF P
  <2>3. QED  BY <2>1, <2>2, SeqGrows
<1> HIDE DEF P, log
<1>5. KnownBy(P, log)
  BY <1>1, <1>2, <1>3, <1>4 DEF Init, KnownBy, Sound, Contents, Writings
<1>6. MadeOK(made)  BY InitialAssumption DEF Init, MadeOK
<1>7. RunsApart  BY <1>1 DEF RunsApart
<1>8. QED  BY <1>5, <1>6, <1>7 DEF Known

\* What a step leaves as it is of a run of encrypt, outside its headers.
LEMMA WritingStays ==
  ASSUME NEW P, NEW log, NEW r, NEW r2, Writing(r, P, log), Kept(r, r2), r2.got = r.got,
         r.pos \in Nat, r2.pos \in {r.pos, r.pos + 1},
         r.inv.cmd = "encrypt" =>
           /\ r.pos # 5
           /\ r2.pos <= 5 \/ (r2.key = r.key /\ r2.peers = r.peers)
  PROVE  Writing(r2, P, log)
<1> SUFFICES ASSUME r.inv.cmd = "encrypt" PROVE Writing(r2, P, log)  BY DEF Writing, Kept
<1>1. r2.inv = r.inv /\ r2.run = r.run  BY DEF Kept
<1>2. r2.pos <= 5 => r.pos <= 5  OBVIOUS
<1>3. r2.pos <= 7 => r.pos <= 7  OBVIOUS
<1>4. r2.pos > 5 => r.pos > 5 /\ Route(r2) = Route(r)  BY DEF Route, Receivers
<1>5. r2.pos \in Nat  OBVIOUS
<1>6. QED  BY <1>1, <1>2, <1>3, <1>4 DEF Writing

\* It goes on with what it has read, as it is.
LEMMA PastKnown ==
  ASSUME MemoriesOK, Known, NEW p \in Procs, NEW call, At(p, call), NEW r2, GoesOn(p, r2),
         Kept(proc[p], r2), r2.pos \in {proc[p].pos, proc[p].pos + 1},
         r2.held = proc[p].held, r2.got = proc[p].got,
         r2.other = proc[p].other \/ \E path \in Paths : r2.other = file[path],
         call # "headers",
         call \in {"key", "peers"} \/ (r2.key = proc[p].key /\ r2.peers = proc[p].peers)
  PROVE  Known'
<1> DEFINE r == proc[p]
<1>1. PICK P, log : KnownBy(P, log)  BY DEF Known
<1>2. Running(p)  BY DEF At
<1>3. /\ Called(r, call) /\ r.pos \in Nat \ {0} /\ r.inv.cmd \in Cmds
  BY AtCall
<1>4. Holding(r2, P)  BY <1>1, <1>2 DEF KnownBy, Contents, Holding
<1>5. r.inv.cmd = "encrypt" => r.pos # 5 /\ (call \in {"key", "peers"} => r2.pos <= 5)
  <2>1. SUFFICES ASSUME r.inv.cmd = "encrypt"
                 PROVE  r.pos # 5 /\ (call \in {"key", "peers"} => r2.pos <= 5)
    OBVIOUS
  <2>2. r.pos \in 1..7 /\ Plan["encrypt"][r.pos] = call
    BY <1>3, <2>1, Plans, PlanLengths DEF Called, LastCall
  <2>3. QED  BY <2>2, Plans
<1>6. Writing(r, P, log)  BY <1>1, <1>2 DEF KnownBy, Writings
<1>7. Writing(r2, P, log)  BY <1>3, <1>5, <1>6, WritingStays
<1>8. r2.run = r.run  BY DEF Kept
<1>9. QED  BY <1>1, <1>2, <1>4, <1>7, <1>8, GoesOnKnown

\* What a process reads is of a file.
LEMMA NextKnown ==
  ASSUME MemoriesOK, NEW P, NEW log, KnownBy(P, log), NEW p \in Procs, NEW call, At(p, call),
         Ready(p)
  PROVE  /\ NextPiece(p) \in P
         /\ Len(proc[p].got) \in Nat
         /\ Len(proc[p].got) + 1 \in 1..Len(file[proc[p].inv.input])
         /\ Got(p).got = Append(proc[p].got, NextPiece(p)) /\ Got(p).got \in Seq(P)
         /\ \A f \in Fields \ {"got"} : Got(p)[f] = proc[p][f]
<1>1. MemoryOK(proc[p], runs) /\ proc[p].inv.input \in Paths /\ Running(p)  BY AtCall DEF At
<1>2. proc[p].got \in Seq(P) /\ file[proc[p].inv.input] \in Seq(P)
  BY <1>1 DEF KnownBy, Contents, Holding
<1>3. Len(proc[p].got) \in Nat /\ Len(proc[p].got) + 1 \in 1..Len(file[proc[p].inv.input])
  BY <1>2 DEF Ready
<1>4. NextPiece(p) \in P  BY <1>2, <1>3, ElementOfSeq DEF NextPiece
<1>5. Append(proc[p].got, NextPiece(p)) \in Seq(P)  BY <1>2, <1>4, AppendProperties
<1>6. QED  BY <1>1, <1>3, <1>4, <1>5, GotFields

\* Any command but encrypt goes on with one piece more.
LEMMA ReadsKnown ==
  ASSUME MemoriesOK, Known, NEW p \in Procs, NEW call, At(p, call), Ready(p),
         proc[p].inv.cmd # "encrypt", NEW r2, r2 \in {Got(p), Advanced(Got(p))}, GoesOn(p, r2)
  PROVE  Known'
<1>1. PICK P, log : KnownBy(P, log)  BY DEF Known
<1>2. MemoryOK(proc[p], runs) /\ Running(p)  BY AtCall DEF At
<1>3. /\ \A f \in Fields \ {"got"} : Got(p)[f] = proc[p][f]
      /\ Got(p).got \in Seq(P) /\ DOMAIN Got(p) = Fields
  BY <1>1, <1>2, NextKnown, GotFields
<1>4. \A f \in Fields \ {"pos"} : r2[f] = Got(p)[f]
  BY <1>3, AdvancedFields
<1>5. /\ r2.run = proc[p].run /\ r2.inv = proc[p].inv /\ r2.got \in Seq(P)
      /\ r2.other = proc[p].other /\ r2.held = proc[p].held
  BY <1>3, <1>4 DEF Fields
<1>6. Holding(r2, P)  BY <1>1, <1>2, <1>5 DEF KnownBy, Contents, Holding
<1>7. Writing(r2, P, log)  BY <1>5 DEF Writing
<1>8. QED  BY <1>1, <1>2, <1>5, <1>6, <1>7, GoesOnKnown

\* Calls that neither read the input nor write.
LEMMA CallsKnown ==
  ASSUME MemoriesOK, Known, NEW p \in Procs, ReadPassphrase(p) \/ Compare(p)
  PROVE  Known'
<1>1. PICK call \in {"passphrase", "compare"} : At(p, call)  BY DEF ReadPassphrase, Compare
<1>2. Running(p) /\ DOMAIN proc[p] = Fields /\ MemoryOK(proc[p], runs)
  BY <1>1, AtCall DEF At, MemoryOK
<1>3. CASE \E exit : Fails(p, exit)  BY <1>2, <1>3, FailsKnown DEF Fails
<1>4. CASE GoesOn(p, Advanced(proc[p]))
  <2> DEFINE r2 == Advanced(proc[p])
  <2>1. /\ DOMAIN r2 = Fields /\ r2.pos = proc[p].pos + 1
        /\ \A f \in Fields \ {"pos"} : r2[f] = proc[p][f]
    BY <1>2, AdvancedFields
  <2> HIDE DEF r2
  <2>2. /\ Kept(proc[p], r2) /\ r2.peers = proc[p].peers /\ r2.key = proc[p].key
        /\ r2.held = proc[p].held /\ r2.got = proc[p].got /\ r2.other = proc[p].other
    BY <2>1 DEF Kept, Fields
  <2>3. QED  BY <1>1, <1>4, <2>1, <2>2, PastKnown DEF r2
<1>5. QED  BY <1>3, <1>4 DEF ReadPassphrase, Compare

LEMMA DecryptKeyKnown ==
  ASSUME MemoriesOK, Known, NEW p \in Procs, DecryptKey(p)
  PROVE  Known'
<1> DEFINE r2 == [Advanced(proc[p]) EXCEPT !.key = file[proc[p].inv.key][1].of[1]]
<1>1. At(p, "key")  BY DEF DecryptKey
<1>2. DOMAIN proc[p] = Fields /\ Running(p)  BY <1>1, AtCall DEF MemoryOK, At
<1>3. CASE \E exit, blamed : FailsAt(p, exit, blamed)  BY <1>2, <1>3, FailsKnown
<1>4. CASE GoesOn(p, r2)
  <2>1. /\ DOMAIN r2 = Fields /\ r2.pos = proc[p].pos + 1
        /\ \A f \in Fields \ {"pos", "key"} : r2[f] = proc[p][f]
    BY <1>2, AdvancedFields DEF Fields
  <2> HIDE DEF r2
  <2>2. /\ Kept(proc[p], r2) /\ r2.held = proc[p].held /\ r2.got = proc[p].got
        /\ r2.other = proc[p].other
    BY <2>1 DEF Kept, Fields
  <2>3. QED  BY <1>1, <1>4, <2>1, <2>2, PastKnown
<1>5. QED  BY <1>3, <1>4 DEF DecryptKey, Fails, ReadIo

LEMMA OpenInputKnown ==
  ASSUME MemoriesOK, Known, NEW p \in Procs, OpenInput(p)
  PROVE  Known'
<1> DEFINE r2 == [Advanced(proc[p]) EXCEPT
                    !.was = IF proc[p].inv.input = proc[p].inv.output
                            THEN file[proc[p].inv.input] ELSE << >>]
<1>1. At(p, "open")  BY DEF OpenInput
<1>2. DOMAIN proc[p] = Fields /\ Running(p)  BY <1>1, AtCall DEF MemoryOK, At
<1>3. CASE \E exit, blamed : FailsAt(p, exit, blamed)  BY <1>2, <1>3, FailsKnown
<1>4. CASE GoesOn(p, r2)
  <2>1. /\ DOMAIN r2 = Fields /\ r2.pos = proc[p].pos + 1
        /\ \A f \in Fields \ {"pos", "was"} : r2[f] = proc[p][f]
    BY <1>2, AdvancedFields DEF Fields
  <2> HIDE DEF r2
  <2>2. /\ Kept(proc[p], r2) /\ r2.peers = proc[p].peers /\ r2.key = proc[p].key
        /\ r2.held = proc[p].held /\ r2.got = proc[p].got /\ r2.other = proc[p].other
    BY <2>1 DEF Kept, Fields
  <2>3. QED  BY <1>1, <1>4, <2>1, <2>2, PastKnown
<1>5. QED  BY <1>3, <1>4 DEF OpenInput, Fails, ReadIo

LEMMA OpenOtherKnown ==
  ASSUME MemoriesOK, Known, NEW p \in Procs, OpenOther(p)
  PROVE  Known'
<1> DEFINE r2 == [Advanced(proc[p]) EXCEPT !.other = file[proc[p].inv.other]]
<1>1. At(p, "other")  BY DEF OpenOther
<1>2. DOMAIN proc[p] = Fields /\ Running(p) /\ proc[p].inv.other \in Paths
  BY <1>1, AtCall DEF MemoryOK, At
<1>3. CASE \E exit, blamed : FailsAt(p, exit, blamed)  BY <1>2, <1>3, FailsKnown
<1>4. CASE GoesOn(p, r2)
  <2>1. /\ DOMAIN r2 = Fields /\ r2.pos = proc[p].pos + 1
        /\ r2.other = file[proc[p].inv.other]
        /\ \A f \in Fields \ {"pos", "other"} : r2[f] = proc[p][f]
    BY <1>2, AdvancedFields DEF Fields
  <2> HIDE DEF r2
  <2>2. /\ Kept(proc[p], r2) /\ r2.peers = proc[p].peers /\ r2.key = proc[p].key
        /\ r2.held = proc[p].held /\ r2.got = proc[p].got
    BY <2>1 DEF Kept, Fields
  <2>3. QED  BY <1>1, <1>2, <1>4, <2>1, <2>2, PastKnown
<1>5. QED  BY <1>3, <1>4 DEF OpenOther, ReadIo

LEMMA OpenPublicKeyKnown ==
  ASSUME MemoriesOK, Known, NEW p \in Procs, OpenPublicKey(p)
  PROVE  Known'
<1> DEFINE r == proc[p]
           path == r.inv.peers[Len(r.peers) + 1]
           more == [r EXCEPT !.peers = Append(@, K!Decoded(file[path][1].of))]
           r2 == IF Len(r.peers) + 1 = Len(r.inv.peers) THEN Advanced(more) ELSE more
<1>1. At(p, "peers")  BY DEF OpenPublicKey
<1>2. DOMAIN r = Fields /\ Running(p)  BY <1>1, AtCall DEF MemoryOK, At
<1>3. CASE \E exit, blamed : FailsAt(p, exit, blamed)  BY <1>2, <1>3, FailsKnown
<1>4. CASE GoesOn(p, r2)
  <2>1. DOMAIN more = Fields /\ \A f \in Fields \ {"peers"} : more[f] = r[f]
    BY <1>2 DEF Fields
  <2> HIDE DEF more
  <2>2. /\ DOMAIN r2 = Fields /\ r2.pos \in {r.pos, r.pos + 1}
        /\ \A f \in Fields \ {"peers", "pos"} : r2[f] = r[f]
    BY <2>1, AdvancedFields DEF Fields
  <2> HIDE DEF r2
  <2>3. /\ Kept(r, r2) /\ r2.held = r.held /\ r2.got = r.got /\ r2.other = r.other
    BY <2>2 DEF Kept, Fields
  <2>4. QED  BY <1>1, <1>4, <2>2, <2>3, PastKnown
<1>5. QED  BY <1>3, <1>4 DEF OpenPublicKey, ReadIo

LEMMA OpenOutputKnown ==
  ASSUME MemoriesOK, Known, NEW p \in Procs, OpenOutput(p)
  PROVE  Known'
<1> DEFINE r2 == [Advanced(proc[p]) EXCEPT !.touched = TRUE]
<1>1. At(p, "create")  BY DEF OpenOutput
<1>2. /\ DOMAIN proc[p] = Fields /\ Running(p) /\ DOMAIN proc = Procs /\ DOMAIN file = Paths
      /\ Called(proc[p], "create") /\ proc[p].pos \in Nat \ {0} /\ proc[p].inv.cmd \in Cmds
  BY <1>1, AtCall DEF MemoryOK, MemoriesOK, TypeOK, At
<1>3. CASE \E exit, blamed : FailsAt(p, exit, blamed)  BY <1>2, <1>3, FailsKnown
<1>4. CASE /\ proc' = [proc EXCEPT ![p] = [Advanced(@) EXCEPT !.touched = TRUE]]
           /\ file' = IF proc[p].inv.output = Pipe THEN file
                      ELSE [file EXCEPT ![proc[p].inv.output] = << >>]
           /\ ended' = None /\ UNCHANGED <<runs, made>>
  <2>1. /\ DOMAIN r2 = Fields /\ r2.pos = proc[p].pos + 1
        /\ \A f \in Fields \ {"pos", "touched"} : r2[f] = proc[p][f]
    BY <1>2, AdvancedFields DEF Fields
  <2>2. proc' = [proc EXCEPT ![p] = r2]  BY <1>4
  <2> HIDE DEF r2
  <2>3. proc'[p] = r2 /\ \A q \in Procs \ {p} : proc'[q] = proc[q]  BY <1>2, <2>2
  <2>4. /\ Kept(proc[p], r2) /\ r2.peers = proc[p].peers /\ r2.key = proc[p].key
        /\ r2.held = proc[p].held /\ r2.got = proc[p].got /\ r2.other = proc[p].other
    BY <2>1 DEF Kept, Fields
  <2>5. proc[p].inv.cmd = "encrypt" => proc[p].pos # 5
    <3>1. SUFFICES ASSUME proc[p].inv.cmd = "encrypt" PROVE proc[p].pos # 5  OBVIOUS
    <3>2. proc[p].pos \in 1..7 /\ Plan["encrypt"][proc[p].pos] = "create"
      BY <1>2, <3>1, Plans, PlanLengths DEF Called, LastCall
    <3>3. QED  BY <3>2, Plans
  <2>6. PICK P, log : KnownBy(P, log)  BY DEF Known
  <2>7. Writing(proc[p], P, log)  BY <1>2, <2>6 DEF KnownBy, Writings
  <2>8. Writing(r2, P, log)  BY <1>2, <2>1, <2>4, <2>5, <2>7, WritingStays
  <2>9. Writings(P, log)'  BY <2>3, <2>6, <2>8 DEF KnownBy, Writings, Running
  <2>10. Contents(P)'
    <3>1. Holding(r2, P)  BY <1>2, <2>4, <2>6 DEF KnownBy, Contents, Holding
    <3>2. << >> \in Seq(P)  OBVIOUS
    <3>3. \A path \in Paths : file'[path] \in Seq(P)
      BY <1>2, <1>4, <2>6, <3>2 DEF KnownBy, Contents
    <3>4. QED  BY <2>3, <2>6, <3>1, <3>3 DEF KnownBy, Contents, Running
  <2>11. RunsApart'
    <3>1. r2.run = proc[p].run  BY <2>4 DEF Kept
    <3>2. QED  BY <1>2, <2>3, <3>1 DEF Known, RunsApart, Running
  <2>12. QED  BY <1>4, <2>6, <2>9, <2>10, <2>11 DEF Known, KnownBy
<1>5. QED  BY <1>3, <1>4 DEF OpenOutput, Fails

\* What can be told of the memory of a process that stands at a call and of Advanced.
LEMMA AdvancedKnown ==
  ASSUME NEW r, DOMAIN r = Fields, NEW P, Holding(r, P)
  PROVE  /\ Holding(Advanced(r), P) /\ Kept(r, Advanced(r))
         /\ Advanced(r).pos = r.pos + 1 /\ Advanced(r).got = r.got
         /\ Route(Advanced(r)) = Route(r)
<1> DEFINE r2 == Advanced(r)
<1>1. DOMAIN r2 = Fields /\ r2.pos = r.pos + 1 /\ \A f \in Fields \ {"pos"} : r2[f] = r[f]
  BY AdvancedFields
<1> HIDE DEF r2
<1>2. /\ r2.got = r.got /\ r2.other = r.other /\ r2.held = r.held /\ r2.key = r.key
      /\ r2.peers = r.peers /\ r2.run = r.run /\ r2.inv = r.inv
  BY <1>1 DEF Fields
<1>3. Holding(r2, P) /\ Kept(r, r2) /\ Route(r2) = Route(r)
  BY <1>1, <1>2 DEF Kept, Holding, Route, Receivers
<1>4. QED  BY <1>1, <1>2, <1>3 DEF r2

LEMMA ReadKnown ==
  ASSUME MemoriesOK, Known, NEW p \in Procs, Read(p)
  PROVE  Known'
<1>1. At(p, "read")  BY DEF Read
<1>2. /\ DOMAIN proc[p] = Fields /\ Running(p)
      /\ Called(proc[p], "read") /\ proc[p].pos \in Nat \ {0} /\ proc[p].inv.cmd \in Cmds
  BY <1>1, AtCall DEF MemoryOK, At
<1>3. proc[p].inv.cmd # "encrypt"
  <2>1. /\ proc[p].pos \in 1..Len(Plan[proc[p].inv.cmd])
        /\ Plan[proc[p].inv.cmd][proc[p].pos] = "read"
    BY <1>2, PlanLengths DEF Called, LastCall
  <2>2. QED  BY <1>2, <2>1, Places
<1>4. CASE \E exit, blamed : FailsAt(p, exit, blamed)  BY <1>2, <1>4, FailsKnown
<1>5. CASE Ready(p) /\ GoesOn(p, Got(p))  BY <1>1, <1>3, <1>5, ReadsKnown
<1>6. CASE GoesOn(p, Advanced(proc[p]))
  <2>1. PICK P, log : KnownBy(P, log)  BY DEF Known
  <2>2. Holding(proc[p], P)  BY <1>2, <2>1 DEF KnownBy, Contents
  <2> DEFINE r2 == Advanced(proc[p])
  <2>3. Holding(r2, P) /\ r2.run = proc[p].run /\ r2.inv = proc[p].inv
    BY <1>2, <2>2, AdvancedKnown DEF Kept
  <2>4. Writing(r2, P, log)  BY <1>3, <2>3 DEF Writing
  <2> HIDE DEF r2
  <2>5. QED  BY <1>2, <1>6, <2>1, <2>3, <2>4, GoesOnKnown DEF r2
<1>7. QED  BY <1>4, <1>5, <1>6 DEF Read, InputFails

Writers == {"secret-key", "public-key", "sign", "digest", "complete"}

\* What a command writes at once is a piece of its own.
LEMMA ResultPiece ==
  ASSUME NEW r, r.inv.cmd \in Writers
  PROVE  /\ DOMAIN Result(r) = PieceFields /\ Result(r).run = r.run /\ Result(r).whole
         /\ Result(r).kind \in {"secret", "public", "signature", "digest", "script"}
         /\ Result(r).kind \in {"signature", "digest"} =>
              \E m \in Made(r) : m[1] = Result(r).kind /\ m[4] = Result(r).of[1]
<1>1. CASE r.inv.cmd = "secret-key"  BY <1>1 DEF Result, Piece, PieceFields
<1>2. CASE r.inv.cmd = "public-key"  BY <1>2 DEF Result, Piece, PieceFields
<1>3. CASE r.inv.cmd = "sign"
  <2>1. Made(r) = {<<"signature", K!pub_key(r.key).encoded, r.got, Result(r).of[1]>>}
    BY <1>3 DEF Made
  <2>2. Result(r) = Piece("signature", <<S!sign(K!pub_key(r.key), r.got)>>, r.run, {}, 1)
    BY <1>3 DEF Result
  <2>3. QED  BY <2>1, <2>2 DEF Piece, PieceFields
<1>4. CASE r.inv.cmd = "digest"
  <2>1. Made(r) = {<<"digest", r.inv.metadata, r.got, Result(r).of[1]>>}
    BY <1>4 DEF Made
  <2>2. Result(r) = Piece("digest", <<D!NewDigest(r.inv.metadata, r.got)>>, r.run, {}, 1)
    BY <1>4 DEF Result
  <2>3. QED  BY <2>1, <2>2 DEF Piece, PieceFields
<1>5. CASE r.inv.cmd = "complete"  BY <1>5 DEF Result, Piece, PieceFields
<1>6. QED  BY <1>1, <1>2, <1>3, <1>4, <1>5 DEF Writers

\* A signature is recorded under the key that made it, a digest under its metadata.
LEMMA MadeGrows ==
  ASSUME MadeOK(made), NEW r, r.inv \in Invocations
  PROVE  MadeOK(made \union Made(r))
<1>1. ASSUME NEW m \in Made(r)
      PROVE  /\ m[1] = "signature" => m[4] = S!sign(K!Decoded(m[2]), m[3])
             /\ m[1] = "digest" => m[2] \in Seq(Seq(Nat)) /\ m[4] = D!NewDigest(m[2], m[3])
  <2>1. CASE r.inv.cmd = "sign"
    <3>1. m = <<"signature", K!pub_key(r.key).encoded, r.got, S!sign(K!pub_key(r.key), r.got)>>
      BY <2>1 DEF Made, Result, Piece
    <3>2. K!Decoded(K!pub_key(r.key).encoded) = K!pub_key(r.key)
      BY DEF K!Decoded, K!pub_key, K!from_parts
    <3>3. QED  BY <3>1, <3>2
  <2>2. CASE r.inv.cmd = "digest"
    <3>1. m = <<"digest", r.inv.metadata, r.got, D!NewDigest(r.inv.metadata, r.got)>>
      BY <2>2 DEF Made, Result, Piece
    <3>2. r.inv.metadata \in Seq(Seq(Nat))  BY InvocationAssumption
    <3>3. QED  BY <3>1, <3>2
  <2>3. QED  BY <2>1, <2>2 DEF Made
<1>2. QED  BY <1>1 DEF MadeOK

LEMMA WriteResultKnown ==
  ASSUME MemoriesOK, Known, NEW p \in Procs, WriteResult(p)
  PROVE  Known'
<1> DEFINE r == proc[p]
           z == Result(r)
<1>1. At(p, "write")  BY DEF WriteResult
<1>2. /\ DOMAIN r = Fields /\ Running(p) /\ r.inv \in Invocations /\ runs \in Nat
      /\ r.run \in 1..runs
      /\ Called(r, "write") /\ r.pos \in Nat \ {0} /\ r.inv.cmd \in Cmds
  BY <1>1, AtCall DEF MemoryOK, At
<1>3. r.inv.cmd \in Writers /\ r.inv.cmd # "encrypt"
  <2>1. r.pos \in 1..Len(Plan[r.inv.cmd]) /\ Plan[r.inv.cmd][r.pos] = "write"
    BY <1>2, PlanLengths DEF Called, LastCall
  <2>2. QED  BY <1>2, <2>1, Places DEF Writers
<1>4. /\ DOMAIN z = PieceFields /\ z.run \in Int /\ z.run <= runs
      /\ z.kind \in {"secret", "public", "signature", "digest", "script"}
      /\ (z.kind \in {"signature", "digest"} /\ z.whole) =>
           \E m \in made \union Made(r) : m[1] = z.kind /\ m[4] = z.of[1]
  BY <1>2, <1>3, ResultPiece
<1>5. PICK P, log : KnownBy(P, log)  BY DEF Known
<1> HIDE DEF z
<1>6. CASE \E exit, blamed : WriteFails(p, z, exit, blamed)
  BY <1>2, <1>4, <1>5, <1>6, WriteFailsKnown
<1>7. CASE Writes(p, z, Advanced(r)) /\ made' = made \union Made(r)
  <2> DEFINE Q == P \union {z}
  <2>1. ~OfMessage(z)  BY <1>4 DEF OfMessage
  <2>2. Sound(Q, log, runs, made')
    <3>1. made \subseteq made'  BY <1>7
    <3>2. Sound(P, log, runs, made)  BY <1>5 DEF KnownBy
    <3>3. QED  BY <1>2, <1>4, <1>7, <2>1, <3>1, <3>2, SoundGrows
  <2>3. Contents(Q)  BY <1>5, ContentsGrow DEF KnownBy
  <2>4. MadeOK(made')  BY <1>2, <1>7, MadeGrows DEF Known
  <2>5. Holding(r, Q)  BY <1>2, <2>3 DEF Contents
  <2>6. Holding(Advanced(r), Q) /\ Kept(r, Advanced(r))  BY <1>2, <2>5, AdvancedKnown
  <2>7. Writing(Advanced(r), Q, log)  BY <1>3, <2>6 DEF Writing, Kept
  <2>8. \A q \in Procs \ {p} : Running(q) => Writing(proc[q], Q, log)
    BY <1>5, <2>1, WritingGrows DEF KnownBy, Writings
  <2>9. RunsApart /\ z \in Q  BY DEF Known
  <2> HIDE DEF Q
  <2>10. QED
    BY <1>2, <1>7, <2>2, <2>3, <2>4, <2>6, <2>7, <2>8, <2>9, WritesKnown
<1>8. QED  BY <1>6, <1>7 DEF WriteResult, WriteIo, z

\* A piece of a message, more: its run has the message m in the log now.
LEMMA MessageGrows ==
  ASSUME NEW P, NEW log, NEW n \in Nat, NEW mm, NEW m2, mm \subseteq m2, Sound(P, log, n, mm),
         NEW z, DOMAIN z = PieceFields, z.run \in Int, z.run <= n, OfMessage(z),
         z.kind = "block" => z.of[1] \in P,
         NEW m, m[1] = "message", m[3] \in Seq(P),
         \A x \in P \union {z} : OfMessage(x) /\ x.run = z.run =>
           PieceOf(x, m) /\ (x.kind = "end" => m \in m2)
  PROVE  Sound(P \union {z}, [log EXCEPT ![z.run] = m], n, m2)
<1> DEFINE Q == P \union {z}
           log2 == [log EXCEPT ![z.run] = m]
<1>1. DOMAIN log = Int /\ DOMAIN log2 = Int /\ log2[z.run] = m
      /\ \A j \in Int \ {z.run} : log2[j] = log[j]
  BY DEF Sound
<1>2. P \subseteq Q /\ m[3] \in Seq(Q)
  <2>1. P \subseteq Q  OBVIOUS
  <2> HIDE DEF Q
  <2>2. QED  BY <2>1, SeqGrows
<1> HIDE DEF log2
<1>3. ASSUME NEW x \in Q, OfMessage(x), x.run = z.run
      PROVE  /\ PieceOf(x, log2[x.run]) /\ log2[x.run][1] = "message"
             /\ log2[x.run][3] \in Seq(Q) /\ (x.kind = "end" => log2[x.run] \in m2)
  BY <1>1, <1>2, <1>3
<1>4. ASSUME NEW x \in P PROVE PieceOK(x, Q, log2, n, m2)
  <2>1. PieceOK(x, P, log, n, mm)  BY DEF Sound
  <2>2. PieceOK(x, Q, log, n, m2)  BY <1>2, <2>1, PieceLasts
  <2>3. x.run # z.run => log2[x.run] = log[x.run]  BY <1>1, <2>1 DEF PieceOK
  <2>4. QED  BY <1>3, <2>2, <2>3 DEF PieceOK
<1>5. PieceOK(z, Q, log2, n, m2)
  <2>1. z \in Q /\ z.kind \notin {"signature", "digest"}  BY DEF OfMessage
  <2>2. QED  BY <1>2, <1>3, <2>1 DEF PieceOK
<1>6. QED  BY <1>1, <1>4, <1>5 DEF Sound, log2

\* The other runs of encrypt do not see it.
LEMMA OthersWrite ==
  ASSUME MemoriesOK, RunsApart, NEW P, NEW log, KnownBy(P, log), NEW p \in Procs, Running(p),
         NEW z, z.run = proc[p].run, NEW m
  PROVE  \A q \in Procs \ {p} :
           Running(q) => Writing(proc[q], P \union {z}, [log EXCEPT ![z.run] = m])
<1> SUFFICES ASSUME NEW q \in Procs \ {p}, Running(q)
             PROVE  Writing(proc[q], P \union {z}, [log EXCEPT ![z.run] = m])
  OBVIOUS
<1>1. proc[q].run # z.run  BY DEF RunsApart
<1>2. proc[q].run \in Int  BY DEF MemoriesOK, MemoryOK
<1>3. [log EXCEPT ![z.run] = m][proc[q].run] = log[proc[q].run]
  BY <1>1, <1>2 DEF KnownBy, Sound
<1>4. Writing(proc[q], P, log)  BY DEF KnownBy, Writings
<1>5. QED  BY <1>1, <1>3, <1>4 DEF Writing

\* What encrypt writes next, with the message that its run has in the log now.
LEMMA MessageKnown ==
  ASSUME MemoriesOK, MadeOK(made), RunsApart, NEW P, NEW log, KnownBy(P, log),
         NEW p \in Procs, Running(p), NEW z, NEW r2, Writes(p, z, r2),
         proc[p].inv.cmd = "encrypt", Kept(proc[p], r2), Holding(r2, P),
         r2.pos \in Nat, r2.pos > 5, r2.pos <= 7 => z.kind # "end",
         r2.pos <= 7 => \A x \in P : OfMessage(x) /\ x.run = r2.run => x.kind # "end",
         DOMAIN z = PieceFields, z.run = proc[p].run, OfMessage(z),
         z.kind = "block" => z.of[1] \in P,
         \A x \in P \union {z} : OfMessage(x) /\ x.run = z.run =>
           PieceOf(x, <<"message", Route(r2), r2.got>>),
         \/ made' = made /\ \A x \in P \union {z} : OfMessage(x) /\ x.run = z.run => x.kind # "end"
         \/ made' = made \union {<<"message", Route(r2), r2.got>>}
  PROVE  Known'
<1> DEFINE m == <<"message", Route(r2), r2.got>>
           Q == P \union {z}
           log2 == [log EXCEPT ![z.run] = m]
<1>1. /\ runs \in Nat /\ z.run \in Int /\ z.run <= runs
      /\ r2.run = z.run /\ r2.inv.cmd = "encrypt" /\ proc[p].run = z.run
  BY CliAssumption DEF MemoriesOK, MemoryOK, TypeOK, Kept
<1>2. m[1] = "message" /\ m[2] = Route(r2) /\ m[3] = r2.got  OBVIOUS
<1>3. r2.got \in Seq(P)  BY DEF Holding
<1>4. Sound(P, log, runs, made) /\ DOMAIN log = Int  BY DEF KnownBy, Sound
<1>5. MadeOK(made') /\ made \subseteq made'  BY <1>2 DEF MadeOK
<1>6. \A x \in Q : OfMessage(x) /\ x.run = z.run =>
        PieceOf(x, m) /\ (x.kind = "end" => m \in made')
  OBVIOUS
<1>7. log2[z.run] = m  BY <1>1, <1>4
<1> HIDE DEF m
<1>8. Sound(Q, log2, runs, made')
  BY <1>1, <1>2, <1>3, <1>4, <1>5, <1>6, MessageGrows
<1>9. P \subseteq Q /\ z \in Q  OBVIOUS
<1>10. Contents(Q)  BY <1>9, ContentsGrow DEF KnownBy
<1>11. \A q \in Procs \ {p} : Running(q) => Writing(proc[q], Q, log2)
  BY <1>1, OthersWrite
<1>12. Writing(r2, Q, log2)
  <2>1. log2[r2.run] = <<"message", Route(r2), r2.got>>  BY <1>1, <1>7 DEF m
  <2>2. r2.pos <= 7 => \A x \in Q : OfMessage(x) /\ x.run = r2.run => x.kind # "end"
    OBVIOUS
  <2>3. ~(r2.pos <= 5)  OBVIOUS
  <2> HIDE DEF Q, log2
  <2>4. QED  BY <2>1, <2>2, <2>3 DEF Writing
<1>13. Holding(r2, Q)  BY <1>9, SeqGrows DEF Holding
<1> HIDE DEF Q, log2
<1>14. QED
  BY <1>5, <1>8, <1>9, <1>10, <1>11, <1>12, <1>13, WritesKnown

\* A piece of the message that process p writes.
LEMMA SealedPiece ==
  ASSUME NEW r, NEW kind \in {"headers", "block", "end"}, NEW of, NEW at
  PROVE  LET z == Sealed(r, kind, of, at)
         IN  /\ DOMAIN z = PieceFields /\ z.kind = kind /\ z.of = of /\ z.run = r.run
             /\ z.to = Route(r) /\ z.at = at /\ OfMessage(z)
BY DEF Sealed, Piece, PieceFields, OfMessage

LEMMA WriteHeadersKnown ==
  ASSUME MemoriesOK, Known, NEW p \in Procs, WriteHeaders(p)
  PROVE  Known'
<1> DEFINE r == proc[p]
           z == Sealed(r, "headers", << >>, 0)
           r2 == Advanced(r)
<1>1. At(p, "headers")  BY DEF WriteHeaders
<1>2. /\ DOMAIN r = Fields /\ Running(p) /\ r.run \in 1..runs /\ runs \in Nat
      /\ Called(r, "headers") /\ r.pos \in Nat \ {0} /\ r.inv.cmd \in Cmds
  BY <1>1, AtCall DEF MemoryOK, At
<1>3. r.inv.cmd = "encrypt" /\ r.pos = 5
  <2>1. r.pos \in 1..Len(Plan[r.inv.cmd]) /\ Plan[r.inv.cmd][r.pos] = "headers"
    BY <1>2, PlanLengths DEF Called, LastCall
  <2>2. QED  BY <1>2, <2>1, Places
<1>4. /\ DOMAIN z = PieceFields /\ z.kind = "headers" /\ z.run = r.run
      /\ z.to = Route(r) /\ OfMessage(z)
  BY SealedPiece
<1> HIDE DEF z
<1>5. PICK P, log : KnownBy(P, log)  BY DEF Known
<1>6. CASE WriteIo(p, z)
  BY <1>2, <1>4, <1>5, <1>6, WriteFailsKnown DEF WriteIo
<1>7. CASE Writes(p, z, r2) /\ UNCHANGED made
  <2>1. Holding(r, P) /\ Writing(r, P, log)
    BY <1>2, <1>5 DEF KnownBy, Contents, Writings
  <2>2. /\ Holding(r2, P) /\ Kept(r, r2) /\ r2.pos = 6 /\ r2.got = << >> /\ Route(r2) = Route(r)
        /\ r2.run = r.run
    BY <1>2, <1>3, <2>1, AdvancedKnown DEF Writing, Kept
  <2>3. \A x \in P : OfMessage(x) => x.run # z.run
    BY <1>3, <1>4, <2>1 DEF Writing
  <2>4. PieceOf(z, <<"message", Route(r2), r2.got>>)
    BY <1>4, <2>2 DEF PieceOf
  <2> HIDE DEF r2
  <2>5. /\ r2.pos \in Nat /\ r2.pos > 5 /\ z.kind # "end" /\ made' = made
        /\ \A x \in P : OfMessage(x) /\ x.run = r2.run => x.kind # "end"
        /\ z.kind = "block" => z.of[1] \in P
    BY <1>4, <1>7, <2>2, <2>3
  <2>6. \A x \in P \union {z} : OfMessage(x) /\ x.run = z.run =>
          PieceOf(x, <<"message", Route(r2), r2.got>>) /\ x.kind # "end"
    BY <1>4, <2>3, <2>4
  <2>7. QED
    BY <1>2, <1>3, <1>4, <1>5, <1>7, <2>2, <2>5, <2>6, MessageKnown DEF Known
<1>8. QED  BY <1>6, <1>7 DEF WriteHeaders, z

\* What encrypt stands at, and what the log has of its run.
LEMMA Encrypting ==
  ASSUME MemoriesOK, NEW p \in Procs, NEW call \in {"blocks", "end"}, At(p, call),
         NEW P, NEW log, KnownBy(P, log)
  PROVE  /\ DOMAIN proc[p] = Fields /\ Running(p) /\ proc[p].run \in 1..runs /\ runs \in Nat
         /\ proc[p].inv.cmd = "encrypt" /\ proc[p].pos = IF call = "blocks" THEN 6 ELSE 7
         /\ Holding(proc[p], P) /\ Len(proc[p].got) \in Nat
         /\ \A x \in P : (OfMessage(x) /\ x.run = proc[p].run) =>
              /\ x.kind # "end"
              /\ PieceOf(x, <<"message", Route(proc[p]), proc[p].got>>)
<1> DEFINE r == proc[p]
<1>1. /\ DOMAIN r = Fields /\ Running(p) /\ r.run \in 1..runs /\ runs \in Nat
      /\ Called(r, call) /\ r.pos \in Nat \ {0} /\ r.inv.cmd \in Cmds
  BY AtCall DEF MemoryOK, At
<1>2. r.inv.cmd = "encrypt" /\ r.pos = IF call = "blocks" THEN 6 ELSE 7
  <2>1. r.pos \in 1..Len(Plan[r.inv.cmd]) /\ Plan[r.inv.cmd][r.pos] = call
    BY <1>1, PlanLengths DEF Called, LastCall
  <2>2. QED  BY <1>1, <2>1, Places
<1>3. Holding(r, P) /\ Writing(r, P, log)  BY <1>1 DEF KnownBy, Contents, Writings
<1>4. Len(r.got) \in Nat  BY <1>3 DEF Holding
<1>5. /\ log[r.run] = <<"message", Route(r), r.got>>
      /\ \A x \in P : (OfMessage(x) /\ x.run = r.run) => x.kind # "end"
  BY <1>2, <1>3 DEF Writing
<1>6. \A x \in P : (OfMessage(x) /\ x.run = r.run) => PieceOf(x, log[r.run])
  BY DEF KnownBy, Sound, PieceOK
<1>7. QED  BY <1>1, <1>2, <1>3, <1>4, <1>5, <1>6

LEMMA EncryptBlockKnown ==
  ASSUME MemoriesOK, Known, NEW p \in Procs, EncryptBlock(p)
  PROVE  Known'
<1> DEFINE r == proc[p]
           z == Sealed(r, "block", <<NextPiece(p)>>, Len(r.got) + 1)
<1>1. At(p, "blocks")  BY DEF EncryptBlock
<1>2. PICK P, log : KnownBy(P, log)  BY DEF Known
<1>3. /\ DOMAIN r = Fields /\ Running(p) /\ r.run \in 1..runs /\ runs \in Nat
      /\ r.inv.cmd = "encrypt" /\ r.pos = 6 /\ Holding(r, P) /\ Len(r.got) \in Nat
      /\ \A x \in P : (OfMessage(x) /\ x.run = r.run) =>
           x.kind # "end" /\ PieceOf(x, <<"message", Route(r), r.got>>)
  BY <1>1, <1>2, Encrypting
<1>4. /\ DOMAIN z = PieceFields /\ z.kind = "block" /\ z.run = r.run /\ z.of = <<NextPiece(p)>>
      /\ z.to = Route(r) /\ OfMessage(z) /\ z.at = Len(r.got) + 1
  BY SealedPiece
<1> HIDE DEF z
<1>5. CASE InputFails(p)  BY <1>3, <1>5, FailsKnown DEF InputFails
<1>6. CASE Ready(p) /\ WriteIo(p, z)
  <2>1. NextPiece(p) \in P  BY <1>1, <1>2, <1>6, NextKnown
  <2>2. z.of[1] \in P  BY <1>4, <2>1
  <2>3. QED  BY <1>2, <1>3, <1>4, <1>6, <2>2, WriteFailsKnown DEF WriteIo
<1>7. ASSUME Ready(p), NEW r2 \in {Got(p), Advanced(Got(p))}, Writes(p, z, r2), UNCHANGED made
      PROVE  Known'
  <2>1. /\ NextPiece(p) \in P /\ DOMAIN Got(p) = Fields
        /\ Got(p).got = Append(r.got, NextPiece(p)) /\ Got(p).got \in Seq(P)
        /\ \A f \in Fields \ {"got"} : Got(p)[f] = r[f]
    <3>1. MemoryOK(r, runs)  BY <1>1, AtCall
    <3>2. QED  BY <1>1, <1>2, <1>7, <3>1, NextKnown, GotFields
  <2>2. /\ Kept(r, Got(p)) /\ Holding(Got(p), P) /\ Got(p).pos = 6 /\ Route(Got(p)) = Route(r)
    BY <1>3, <2>1 DEF Kept, Holding, Route, Receivers, Fields
  <2>3. /\ Holding(Advanced(Got(p)), P) /\ Kept(r, Advanced(Got(p)))
        /\ Advanced(Got(p)).pos = 7 /\ Advanced(Got(p)).got = Append(r.got, NextPiece(p))
        /\ Route(Advanced(Got(p))) = Route(r)
    BY <2>1, <2>2, AdvancedKnown DEF Kept
  <2>4. /\ Kept(r, r2) /\ Holding(r2, P) /\ r2.pos \in {6, 7} /\ Route(r2) = Route(r)
        /\ r2.got = Append(r.got, NextPiece(p)) /\ r2.run = r.run
    BY <1>7, <2>1, <2>2, <2>3 DEF Kept
  <2> DEFINE m == <<"message", Route(r2), r2.got>>
             old == <<"message", Route(r), r.got>>
  <2>5. ASSUME NEW x \in P \union {z}, OfMessage(x), x.run = z.run
        PROVE  PieceOf(x, m) /\ x.kind # "end"
    <3>1. m[2] = Route(r) /\ m[3] = Append(r.got, NextPiece(p)) /\ old[2] = Route(r)
          /\ old[3] = r.got
      BY <2>4
    <3>2. /\ Len(m[3]) = Len(r.got) + 1 /\ m[3][Len(r.got) + 1] = NextPiece(p)
          /\ \A j \in 1..Len(r.got) : m[3][j] = r.got[j]
      <4> DEFINE x2 == NextPiece(p)
      <4>1. r.got \in Seq(P) /\ x2 \in P  BY <1>3, <2>1 DEF Holding
      <4> HIDE DEF x2, r
      <4>2. /\ Len(Append(r.got, x2)) = Len(r.got) + 1 /\ Append(r.got, x2)[Len(r.got) + 1] = x2
            /\ \A j \in 1..Len(r.got) : Append(r.got, x2)[j] = r.got[j]
        BY <4>1, AppendProperties
      <4>3. QED  BY <3>1, <4>2 DEF x2, r
    <3> HIDE DEF m
    <3>3. CASE x = z
      BY <1>3, <1>4, <3>1, <3>2, <3>3 DEF PieceOf
    <3>4. CASE x \in P
      <4>1. PieceOf(x, old) /\ x.kind # "end"  BY <1>3, <1>4, <2>5, <3>4
      <4>2. x.kind = "block" => x.at \in 1..Len(r.got) /\ x.of = <<r.got[x.at]>>
        BY <3>1, <4>1 DEF PieceOf
      <4>3. QED  BY <1>3, <3>1, <3>2, <4>1, <4>2 DEF PieceOf
    <3>5. QED  BY <3>3, <3>4
  <2>6. /\ z.of[1] \in P /\ r2.pos \in Nat /\ r2.pos > 5 /\ z.kind # "end"
        /\ \A x \in P : OfMessage(x) /\ x.run = r2.run => x.kind # "end"
    BY <1>3, <1>4, <2>1, <2>4
  <2>7. QED
    BY <1>2, <1>3, <1>4, <1>7, <2>4, <2>5, <2>6, MessageKnown DEF Known
<1>8. CASE GoesOn(p, Advanced(r))
  <2> DEFINE r2 == Advanced(r)
  <2>1. /\ DOMAIN r2 = Fields /\ r2.pos = r.pos + 1
        /\ \A f \in Fields \ {"pos"} : r2[f] = r[f]
    BY <1>3, AdvancedFields
  <2> HIDE DEF r2
  <2>2. /\ Kept(r, r2) /\ r2.peers = r.peers /\ r2.key = r.key
        /\ r2.held = r.held /\ r2.got = r.got /\ r2.other = r.other
    BY <2>1 DEF Kept, Fields
  <2>3. QED  BY <1>1, <1>8, <2>1, <2>2, PastKnown DEF r2
<1>9. QED  BY <1>5, <1>6, <1>7, <1>8 DEF EncryptBlock, z

LEMMA EncryptEndKnown ==
  ASSUME MemoriesOK, Known, NEW p \in Procs, EncryptEnd(p)
  PROVE  Known'
<1> DEFINE r == proc[p]
           z == Sealed(r, "end", << >>, Len(r.got) + 1)
           r2 == Advanced(r)
<1>1. At(p, "end")  BY DEF EncryptEnd
<1>2. PICK P, log : KnownBy(P, log)  BY DEF Known
<1>3. /\ DOMAIN r = Fields /\ Running(p) /\ r.run \in 1..runs /\ runs \in Nat
      /\ r.inv.cmd = "encrypt" /\ r.pos = 7 /\ Holding(r, P) /\ Len(r.got) \in Nat
      /\ \A x \in P : (OfMessage(x) /\ x.run = r.run) =>
           x.kind # "end" /\ PieceOf(x, <<"message", Route(r), r.got>>)
  BY <1>1, <1>2, Encrypting
<1>4. /\ DOMAIN z = PieceFields /\ z.kind = "end" /\ z.run = r.run
      /\ z.to = Route(r) /\ OfMessage(z) /\ z.at = Len(r.got) + 1
  BY SealedPiece
<1> HIDE DEF z
<1>5. CASE WriteIo(p, z)
  BY <1>2, <1>3, <1>4, <1>5, WriteFailsKnown DEF WriteIo
<1>6. CASE Writes(p, z, r2) /\ made' = made \union {<<"message", Route(r), r.got>>}
  <2>1. /\ Holding(r2, P) /\ Kept(r, r2) /\ r2.pos = 8 /\ r2.got = r.got /\ Route(r2) = Route(r)
        /\ r2.run = r.run
    BY <1>3, AdvancedKnown DEF Kept
  <2>2. PieceOf(z, <<"message", Route(r), r.got>>)
    BY <1>3, <1>4 DEF PieceOf
  <2> HIDE DEF r2
  <2>3. /\ r2.pos \in Nat /\ r2.pos > 5 /\ ~(r2.pos <= 7) /\ z.kind # "block"
    BY <1>4, <2>1
  <2>4. \A x \in P \union {z} : OfMessage(x) /\ x.run = z.run =>
          PieceOf(x, <<"message", Route(r2), r2.got>>)
    BY <1>3, <1>4, <2>1, <2>2
  <2>5. made' = made \union {<<"message", Route(r2), r2.got>>}  BY <1>6, <2>1
  <2>6. QED
    BY <1>2, <1>3, <1>4, <1>6, <2>1, <2>3, <2>4, <2>5, MessageKnown DEF Known
<1>7. QED  BY <1>5, <1>6 DEF EncryptEnd, z

LEMMA DecryptHeaderKnown ==
  ASSUME MemoriesOK, Known, NEW p \in Procs, DecryptHeader(p)
  PROVE  Known'
<1>1. At(p, "header")  BY DEF DecryptHeader
<1>2. /\ Running(p)
      /\ Called(proc[p], "header") /\ proc[p].pos \in Nat \ {0} /\ proc[p].inv.cmd \in Cmds
  BY <1>1, AtCall DEF At
<1>3. proc[p].inv.cmd # "encrypt"
  <2>1. /\ proc[p].pos \in 1..Len(Plan[proc[p].inv.cmd])
        /\ Plan[proc[p].inv.cmd][proc[p].pos] = "header"
    BY <1>2, PlanLengths DEF Called, LastCall
  <2>2. QED  BY <1>2, <2>1, Places
<1>4. CASE \E exit, blamed : FailsAt(p, exit, blamed)  BY <1>2, <1>4, FailsKnown
<1>5. CASE Ready(p) /\ GoesOn(p, Advanced(Got(p)))  BY <1>1, <1>3, <1>5, ReadsKnown
<1>6. QED  BY <1>4, <1>5 DEF DecryptHeader, InputFails, Fails

LEMMA DecryptBlockKnown ==
  ASSUME MemoriesOK, Known, NEW p \in Procs, DecryptBlock(p)
  PROVE  Known'
<1> DEFINE r == proc[p]
           text == NextPiece(p).of[1]
<1>1. At(p, "message")  BY DEF DecryptBlock
<1>2. /\ DOMAIN r = Fields /\ Running(p) /\ MemoryOK(r, runs) /\ runs \in Nat
      /\ Called(r, "message") /\ r.pos \in Nat \ {0} /\ r.inv.cmd \in Cmds
  BY <1>1, AtCall DEF At, MemoryOK
<1>3. r.inv.cmd # "encrypt"
  <2>1. r.pos \in 1..Len(Plan[r.inv.cmd]) /\ Plan[r.inv.cmd][r.pos] = "message"
    BY <1>2, PlanLengths DEF Called, LastCall
  <2>2. QED  BY <1>2, <2>1, Places
<1>4. PICK P, log : KnownBy(P, log)  BY DEF Known
<1>5. Holding(r, P) /\ Sound(P, log, runs, made)  BY <1>2, <1>4 DEF KnownBy, Contents
<1>6. CASE \E exit, blamed : FailsAt(p, exit, blamed)  BY <1>2, <1>6, FailsKnown
<1>7. ASSUME Ready(p), NextPiece(p).kind = "block"
      PROVE  /\ text \in P /\ DOMAIN text = PieceFields /\ text.run \in Int /\ text.run <= runs
             /\ text.kind = "block" => text.of[1] \in P
  <2>1. NextPiece(p) \in P  BY <1>1, <1>4, <1>7, NextKnown
  <2>2. text \in P  BY <1>5, <1>7, <2>1 DEF Sound, PieceOK
  <2> HIDE DEF text
  <2>3. QED  BY <1>5, <2>2 DEF Sound, PieceOK
<1> HIDE DEF text
<1>8. CASE Ready(p) /\ NextPiece(p).kind = "block" /\ WriteIo(p, text)
  BY <1>2, <1>4, <1>7, <1>8, WriteFailsKnown DEF WriteIo
<1>9. CASE Ready(p) /\ NextPiece(p).kind = "block" /\ Writes(p, text, Got(p)) /\ UNCHANGED made
  <2>1. /\ DOMAIN Got(p) = Fields /\ Got(p).got \in Seq(P)
        /\ \A f \in Fields \ {"got"} : Got(p)[f] = r[f]
    BY <1>1, <1>2, <1>4, <1>9, NextKnown, GotFields
  <2>2. Kept(r, Got(p)) /\ Holding(Got(p), P)
    BY <1>5, <2>1 DEF Kept, Holding, Fields
  <2>3. Writing(Got(p), P, log)  BY <1>3, <2>2 DEF Writing, Kept
  <2>4. /\ RunsApart /\ MadeOK(made') /\ Sound(P, log, runs, made') /\ Contents(P)
        /\ \A q \in Procs \ {p} : Running(q) => Writing(proc[q], P, log)
    BY <1>4, <1>9 DEF Known, KnownBy, Writings
  <2>5. QED  BY <1>2, <1>7, <1>9, <2>2, <2>3, <2>4, WritesKnown
<1>10. CASE Ready(p) /\ GoesOn(p, Got(p))  BY <1>1, <1>3, <1>10, ReadsKnown
<1>11. CASE GoesOn(p, Advanced(r))
  <2>1. Holding(Advanced(r), P) /\ Kept(r, Advanced(r))  BY <1>2, <1>5, AdvancedKnown
  <2>2. Writing(Advanced(r), P, log)  BY <1>3, <2>1 DEF Writing, Kept
  <2>3. QED  BY <1>2, <1>4, <1>11, <2>1, <2>2, GoesOnKnown DEF Kept
<1>12. QED
  BY <1>6, <1>8, <1>9, <1>10, <1>11 DEF DecryptBlock, InputFails, Fails, text

LEMMA KnownInductive ==
  ASSUME MemoriesOK, Known, [Next]_vars
  PROVE  Known'
<1>1. CASE \E p \in Procs : Start(p)  BY <1>1, StartKnown
<1>2. CASE \E p \in Procs : Exit(p)
  BY <1>2, FailsKnown DEF Exit, Fails
<1>3. CASE \E p \in Procs : Kill(p)
  <2>1. PICK p \in Procs : Running(p) /\ Ends(p, "killed", NoPath, << >>)  BY <1>3 DEF Kill
  <2>2. PICK P, log : KnownBy(P, log)  BY DEF Known
  <2>3. << >> \in Seq(P)  OBVIOUS
  <2>4. QED  BY <2>1, <2>2, <2>3, EndsKnown DEF Known
<1>4. CASE \E p \in Procs : Step(p) /\ ~Exit(p)
  BY <1>4, CallsKnown, DecryptKeyKnown, OpenInputKnown, OpenOutputKnown, OpenPublicKeyKnown,
     OpenOtherKnown, ReadKnown, WriteResultKnown, WriteHeadersKnown, EncryptBlockKnown,
     EncryptEndKnown, DecryptHeaderKnown, DecryptBlockKnown
     DEF Step
<1>5. CASE UNCHANGED vars
  <2>1. PICK P, log : KnownBy(P, log)  BY DEF Known
  <2>2. KnownBy(P, log)'
    BY <1>5, <2>1 DEF vars, KnownBy, Contents, Writings, Running
  <2>3. QED  BY <1>5, <2>2 DEF vars, Known, RunsApart, Running
<1>6. QED  BY <1>1, <1>2, <1>3, <1>4, <1>5 DEF Next

LEMMA KnownHolds == Spec => [](MemoriesOK /\ Known)
<1>1. MemoriesOK /\ Known /\ [Next]_vars => MemoriesOK' /\ Known'
  BY MemoriesInductive, KnownInductive
<1>2. Init => MemoriesOK /\ Known  BY MemoriesInit, KnownInit
<1>3. QED  BY <1>1, <1>2, PTL DEF Spec

-----------------------------------------------------------------------------
(* What a call does that the process survives.                             *)

Alike(r, r2, fs) == DOMAIN r2 = Fields /\ \A f \in Fields \ fs : r2[f] = r[f]

\* It is past its call, but for these fields as it was.
Past(p, fs) == Alike(proc[p], proc'[p], fs \union {"pos"}) /\ proc'[p].pos = proc[p].pos + 1

\* It has read one piece more.
More(p) == Ready(p) /\ proc'[p].got = Append(proc[p].got, NextPiece(p))

\* It has written this piece.
Left(p, piece) ==
  LET path == proc[p].inv.output
  IN  /\ proc'[p].held = IF path = Pipe THEN <<piece>> ELSE << >>
      /\ file'[path] = IF path = Pipe THEN file[path] \o proc[p].held
                       ELSE Append(file[path], piece)

DidKey(p) == Past(p, {"key"}) /\ file' = file /\ (At(p, "passphrase") \/ At(p, "key"))

DidOpen(p) ==
  /\ At(p, "open") /\ Past(p, {"was"}) /\ file' = file
  /\ proc'[p].was = IF proc[p].inv.input = proc[p].inv.output THEN file[proc[p].inv.input] ELSE << >>

DidCreate(p) ==
  /\ At(p, "create") /\ Past(p, {"touched"}) /\ proc'[p].touched = TRUE
  /\ file' = IF proc[p].inv.output = Pipe THEN file ELSE [file EXCEPT ![proc[p].inv.output] = << >>]

DidPeers(p) ==
  /\ At(p, "peers") /\ file' = file
  /\ Alike(proc[p], proc'[p], {"peers", "pos"})
  /\ proc'[p].pos = IF Len(proc[p].peers) + 1 = Len(proc[p].inv.peers) THEN proc[p].pos + 1
                    ELSE proc[p].pos
  /\ \E b : proc'[p].peers = Append(proc[p].peers, K!Decoded(b))

DidOther(p) ==
  /\ At(p, "other") /\ Past(p, {"other"}) /\ file' = file
  /\ Len(proc'[p].other) = 1
  /\ proc'[p].other[1].kind = IF proc[p].inv.cmd = "verify" THEN "signature" ELSE "digest"

DidRead(p) ==
  /\ At(p, "read") /\ file' = file
  /\ \/ More(p) /\ Alike(proc[p], proc'[p], {"got"})
     \/ AtEnd(p) /\ Past(p, {})

DidWrite(p) == At(p, "write") /\ Past(p, {"held"}) /\ Left(p, Result(proc[p]))

DidCompare(p) == At(p, "compare") /\ Matches(proc[p]) /\ Past(p, {}) /\ file' = file

DidHeaders(p) ==
  At(p, "headers") /\ Past(p, {"held"}) /\ Left(p, Sealed(proc[p], "headers", << >>, 0))

DidBlock(p) ==
  /\ At(p, "blocks")
  /\ \/ /\ More(p) /\ Alike(proc[p], proc'[p], {"got", "held", "pos"})
        /\ proc'[p].pos \in {proc[p].pos, proc[p].pos + 1}
        /\ Left(p, Sealed(proc[p], "block", <<NextPiece(p)>>, Len(proc[p].got) + 1))
     \/ Past(p, {}) /\ file' = file

DidEnd(p) ==
  /\ At(p, "end") /\ Past(p, {"held"})
  /\ Left(p, Sealed(proc[p], "end", << >>, Len(proc[p].got) + 1))

DidHeader(p) ==
  /\ At(p, "header") /\ More(p) /\ Past(p, {"got"}) /\ file' = file
  /\ NextPiece(p).kind = "headers" /\ NextPiece(p).whole
  /\ K!pub_key(proc[p].key).encoded \in NextPiece(p).to[2]
  /\ NextPiece(p).to[1] = proc[p].peers[1].encoded

DidMessage(p) ==
  /\ At(p, "message")
  /\ \/ /\ More(p) /\ proc[p].got[Len(proc[p].got)].kind # "end"
        /\ Follows(NextPiece(p), proc[p].got)
        /\ \/ /\ NextPiece(p).kind = "block" /\ Alike(proc[p], proc'[p], {"got", "held"})
              /\ Left(p, NextPiece(p).of[1])
           \/ /\ NextPiece(p).kind = "end" /\ Alike(proc[p], proc'[p], {"got"})
              /\ file' = file
     \/ Ended(p) /\ Past(p, {}) /\ file' = file

Did(p) ==
  \/ DidKey(p) \/ DidOpen(p) \/ DidCreate(p) \/ DidPeers(p) \/ DidOther(p) \/ DidRead(p)
  \/ DidWrite(p) \/ DidCompare(p) \/ DidHeaders(p) \/ DidBlock(p) \/ DidEnd(p)
  \/ DidHeader(p) \/ DidMessage(p)

LEMMA FailedIsGone ==
  ASSUME MemoriesOK, NEW p \in Procs, NEW exit, NEW blamed,
         FailsAt(p, exit, blamed) \/ \E piece : WriteFails(p, piece, exit, blamed)
  PROVE  ~Running(p)'
<1>1. proc' = [proc EXCEPT ![p] = Gone]  BY DEF FailsAt, WriteFails, Ends
<1>2. QED  BY <1>1 DEF Running, MemoriesOK

LEMMA AdvancedAlike ==
  ASSUME NEW r, DOMAIN r = Fields
  PROVE  Alike(r, Advanced(r), {"pos"}) /\ Advanced(r).pos = r.pos + 1
BY AdvancedFields DEF Alike

LEMMA GoesOnTo ==
  ASSUME MemoriesOK, NEW p \in Procs, NEW r2, GoesOn(p, r2)
  PROVE  proc'[p] = r2 /\ file' = file
BY DEF GoesOn, MemoriesOK

\* The commands with an output have a path for it.
LEMMA OutputPath ==
  ASSUME NEW inv \in Invocations, inv.cmd \in Writers \union {"encrypt", "decrypt"}
  PROVE  inv.output \in Paths
<1>1. Calls(inv, "create")
  <2>1. \A cmd \in {"secret-key", "public-key", "sign", "decrypt", "digest", "encrypt", "complete"} :
          \E j \in 1..Len(Plan[cmd]) : Plan[cmd][j] = "create"
    <3> DEFINE Creates(cmd) == \E j \in 1..Len(Plan[cmd]) : Plan[cmd][j] = "create"
    <3>1. Creates("secret-key") /\ Creates("public-key")
      <4>1. \A j \in {2} : j \in 1..3  OBVIOUS
      <4>2. QED  BY <4>1, Plans
    <3>2. Creates("sign") /\ Creates("decrypt")
      <4>1. \A j \in {2} : j \in 1..5 /\ j \in 1..6  OBVIOUS
      <4>2. QED  BY <4>1, Plans
    <3>3. Creates("digest") /\ Creates("encrypt")
      <4>1. \A j \in {3} : j \in 1..4 /\ j \in 1..7  OBVIOUS
      <4>2. QED  BY <4>1, Plans
    <3>4. Creates("complete")
      <4>1. \A j \in {1} : j \in 1..2  OBVIOUS
      <4>2. QED  BY <4>1, Plans
    <3> HIDE DEF Creates
    <3>5. \A cmd \in {"secret-key", "public-key", "sign", "decrypt", "digest", "encrypt", "complete"} :
            Creates(cmd)
      BY <3>1, <3>2, <3>3, <3>4
    <3>6. QED  BY <3>5 DEF Creates
  <2>2. QED  BY <2>1 DEF Writers, Calls
<1>2. QED  BY <1>1, InvocationAssumption, CliAssumption

\* Where a process is that makes a call.
LEMMA StandsAt ==
  ASSUME MemoriesOK, NEW p \in Procs, NEW call, At(p, call)
  PROVE  /\ DOMAIN proc[p] = Fields /\ proc[p].inv \in Invocations
         /\ proc[p].inv.cmd \in Cmds
         /\ proc[p].pos \in 1..Len(Plan[proc[p].inv.cmd]) /\ proc[p].pos \in Nat
         /\ Plan[proc[p].inv.cmd][proc[p].pos] = call
         /\ call \in {"create", "write", "headers", "blocks", "end", "message"} =>
              proc[p].inv.output \in Paths
<1> DEFINE r == proc[p]
<1>1. /\ DOMAIN r = Fields /\ r.inv \in Invocations /\ r.inv.cmd \in Cmds
      /\ Called(r, call) /\ r.pos \in Nat \ {0}
  BY AtCall DEF MemoryOK
<1>2. r.pos \in 1..Len(Plan[r.inv.cmd]) /\ Plan[r.inv.cmd][r.pos] = call
  BY <1>1, PlanLengths DEF Called, LastCall
<1>3. call = "create" => r.inv.output \in Paths
  <2>1. call = "create" => Calls(r.inv, "create")  BY <1>2 DEF Calls
  <2>2. QED  BY <1>1, <2>1, InvocationAssumption, CliAssumption
<1>4. call \in {"write", "headers", "blocks", "end", "message"} =>
        r.inv.cmd \in Writers \union {"encrypt", "decrypt"}
  BY <1>1, <1>2, Places DEF Writers
<1>5. QED  BY <1>1, <1>2, <1>3, <1>4, OutputPath

\* A write that is done, before which the process was r.
LEMMA WritesTo ==
  ASSUME MemoriesOK, NEW p \in Procs, NEW piece, NEW r, Writes(p, piece, r), DOMAIN r = Fields,
         r.inv = proc[p].inv, r.held = proc[p].held, proc[p].inv.output \in Paths
  PROVE  Left(p, piece) /\ Alike(r, proc'[p], {"held"})
<1>1. /\ DOMAIN proc = Procs /\ DOMAIN file = Paths
      /\ proc' = [proc EXCEPT ![p] = Wrote(r, piece)]
      /\ file' = [file EXCEPT ![r.inv.output] =
                    IF r.inv.output = Pipe THEN @ \o r.held ELSE Append(@, piece)]
  BY DEF MemoriesOK, TypeOK, Writes, Wrote
<1>2. Alike(r, Wrote(r, piece), {"held"})
      /\ Wrote(r, piece).held = IF r.inv.output = Pipe THEN <<piece>> ELSE << >>
  BY DEF Wrote, Alike, Fields
<1>3. proc'[p] = Wrote(r, piece)  BY <1>1
<1>4. QED  BY <1>1, <1>2, <1>3 DEF Left

LEMMA KeyDid ==
  ASSUME MemoriesOK, NEW p \in Procs, ReadPassphrase(p) \/ DecryptKey(p), Running(p)'
  PROVE  DidKey(p)
<1>1. At(p, "passphrase") \/ At(p, "key")  BY DEF ReadPassphrase, DecryptKey
<1>2. DOMAIN proc[p] = Fields  BY <1>1, StandsAt
<1>3. \A exit, blamed : ~FailsAt(p, exit, blamed)  BY FailedIsGone
<1>4. PICK r2 : /\ GoesOn(p, r2)
                /\ r2 = Advanced(proc[p]) \/ \E key : r2 = [Advanced(proc[p]) EXCEPT !.key = key]
  BY <1>3 DEF ReadPassphrase, DecryptKey, ReadIo, Fails
<1>5. Alike(proc[p], r2, {"pos", "key"}) /\ r2.pos = proc[p].pos + 1
  BY <1>2, <1>4, AdvancedAlike DEF Alike, Fields
<1>6. QED  BY <1>1, <1>4, <1>5, GoesOnTo DEF DidKey, Past

LEMMA OpenInputDid ==
  ASSUME MemoriesOK, NEW p \in Procs, OpenInput(p), Running(p)'
  PROVE  DidOpen(p)
<1> DEFINE c == IF proc[p].inv.input = proc[p].inv.output THEN file[proc[p].inv.input] ELSE << >>
           r2 == [Advanced(proc[p]) EXCEPT !.was = c]
<1>1. At(p, "open")  BY DEF OpenInput
<1>2. DOMAIN proc[p] = Fields  BY <1>1, StandsAt
<1>3. \A exit, blamed : ~FailsAt(p, exit, blamed)  BY FailedIsGone
<1>4. GoesOn(p, r2)  BY <1>3 DEF OpenInput, ReadIo, Fails
<1>5. Alike(proc[p], r2, {"pos", "was"}) /\ r2.pos = proc[p].pos + 1 /\ r2.was = c
  BY <1>2, AdvancedAlike DEF Alike, Fields
<1> HIDE DEF r2
<1>6. proc'[p] = r2 /\ file' = file  BY <1>4, GoesOnTo
<1>7. Past(p, {"was"})  BY <1>5, <1>6 DEF Past, Alike
<1>8. QED  BY <1>1, <1>5, <1>6, <1>7 DEF DidOpen

LEMMA OpenOutputDid ==
  ASSUME MemoriesOK, NEW p \in Procs, OpenOutput(p), Running(p)'
  PROVE  DidCreate(p)
<1> DEFINE r2 == [Advanced(proc[p]) EXCEPT !.touched = TRUE]
<1>1. At(p, "create")  BY DEF OpenOutput
<1>2. DOMAIN proc[p] = Fields /\ DOMAIN proc = Procs  BY <1>1, StandsAt DEF MemoriesOK
<1>3. \A exit, blamed : ~FailsAt(p, exit, blamed)  BY FailedIsGone
<1>4. /\ proc' = [proc EXCEPT ![p] = r2]
      /\ file' = IF proc[p].inv.output = Pipe THEN file ELSE [file EXCEPT ![proc[p].inv.output] = << >>]
  BY <1>3 DEF OpenOutput, Fails
<1>5. Alike(proc[p], r2, {"pos", "touched"}) /\ r2.pos = proc[p].pos + 1 /\ r2.touched = TRUE
  BY <1>2, AdvancedAlike DEF Alike, Fields
<1> HIDE DEF r2
<1>6. proc'[p] = r2  BY <1>2, <1>4
<1>7. QED  BY <1>1, <1>4, <1>5, <1>6 DEF DidCreate, Past

LEMMA OpenPublicKeyDid ==
  ASSUME MemoriesOK, NEW p \in Procs, OpenPublicKey(p), Running(p)'
  PROVE  DidPeers(p)
<1> DEFINE r == proc[p]
           b == file[r.inv.peers[Len(r.peers) + 1]][1].of
           more == [r EXCEPT !.peers = Append(@, K!Decoded(b))]
           r2 == IF Len(r.peers) + 1 = Len(r.inv.peers) THEN Advanced(more) ELSE more
<1>1. At(p, "peers")  BY DEF OpenPublicKey
<1>2. DOMAIN r = Fields  BY <1>1, StandsAt
<1>3. \A exit, blamed : ~FailsAt(p, exit, blamed)  BY FailedIsGone
<1>4. GoesOn(p, r2)  BY <1>3 DEF OpenPublicKey, ReadIo
<1>5. /\ DOMAIN more = Fields /\ Alike(r, more, {"peers"})
      /\ more.peers = Append(r.peers, K!Decoded(b)) /\ more.pos = r.pos
  BY <1>2 DEF Alike, Fields
<1> HIDE DEF more
<1>6. /\ Alike(more, r2, {"pos"})
      /\ r2.pos = IF Len(r.peers) + 1 = Len(r.inv.peers) THEN r.pos + 1 ELSE r.pos
  <2>1. Alike(more, more, {"pos"})  BY <1>5 DEF Alike
  <2>2. QED  BY <1>5, <2>1, AdvancedAlike
<1> HIDE DEF r2
<1>7. Alike(r, r2, {"peers", "pos"}) /\ r2.peers = Append(r.peers, K!Decoded(b))
  BY <1>5, <1>6 DEF Alike, Fields
<1>8. QED  BY <1>1, <1>4, <1>6, <1>7, GoesOnTo DEF DidPeers

LEMMA OpenOtherDid ==
  ASSUME MemoriesOK, NEW p \in Procs, OpenOther(p), Running(p)'
  PROVE  DidOther(p)
<1> DEFINE c == file[proc[p].inv.other]
           r2 == [Advanced(proc[p]) EXCEPT !.other = c]
<1>1. At(p, "other")  BY DEF OpenOther
<1>2. DOMAIN proc[p] = Fields  BY <1>1, StandsAt
<1>3. \A exit, blamed : ~FailsAt(p, exit, blamed)  BY FailedIsGone
<1>4. /\ GoesOn(p, r2) /\ Len(c) = 1
      /\ c[1].kind = IF proc[p].inv.cmd = "verify" THEN "signature" ELSE "digest"
  BY <1>3 DEF OpenOther, ReadIo
<1>5. Alike(proc[p], r2, {"pos", "other"}) /\ r2.pos = proc[p].pos + 1 /\ r2.other = c
  BY <1>2, AdvancedAlike DEF Alike, Fields
<1> HIDE DEF r2, c
<1>6. QED  BY <1>1, <1>4, <1>5, GoesOnTo DEF DidOther, Past

\* A piece more, and past its call or not.
LEMMA GotAlike ==
  ASSUME MemoriesOK, NEW p \in Procs, NEW call, At(p, call)
  PROVE  /\ Alike(proc[p], Got(p), {"got"}) /\ Got(p).got = Append(proc[p].got, NextPiece(p))
         /\ Alike(proc[p], Advanced(Got(p)), {"got", "pos"})
         /\ Advanced(Got(p)).pos = proc[p].pos + 1
         /\ Advanced(Got(p)).got = Append(proc[p].got, NextPiece(p))
<1>1. MemoryOK(proc[p], runs)  BY AtCall
<1>2. Alike(proc[p], Got(p), {"got"}) /\ Got(p).got = Append(proc[p].got, NextPiece(p))
  BY <1>1, GotFields DEF Alike
<1>3. Alike(Got(p), Advanced(Got(p)), {"pos"}) /\ Advanced(Got(p)).pos = Got(p).pos + 1
  BY <1>2, AdvancedAlike DEF Alike
<1>4. QED  BY <1>2, <1>3 DEF Alike, Fields

LEMMA ReadDid ==
  ASSUME MemoriesOK, NEW p \in Procs, Read(p), Running(p)'
  PROVE  DidRead(p)
<1>1. At(p, "read")  BY DEF Read
<1>2. DOMAIN proc[p] = Fields  BY <1>1, StandsAt
<1>3. \A exit, blamed : ~FailsAt(p, exit, blamed)  BY FailedIsGone
<1>4. CASE Ready(p) /\ GoesOn(p, Got(p))
  BY <1>1, <1>4, GotAlike, GoesOnTo DEF DidRead, More
<1>5. CASE AtEnd(p) /\ GoesOn(p, Advanced(proc[p]))
  BY <1>1, <1>2, <1>5, AdvancedAlike, GoesOnTo DEF DidRead, Past
<1>6. QED  BY <1>3, <1>4, <1>5 DEF Read, InputFails

LEMMA WriteResultDid ==
  ASSUME MemoriesOK, NEW p \in Procs, WriteResult(p), Running(p)'
  PROVE  DidWrite(p)
<1> DEFINE r == Advanced(proc[p])
<1>1. At(p, "write")  BY DEF WriteResult
<1>2. DOMAIN proc[p] = Fields /\ proc[p].inv.output \in Paths  BY <1>1, StandsAt
<1>3. \A piece, exit, blamed : ~WriteFails(p, piece, exit, blamed)  BY FailedIsGone
<1>4. Writes(p, Result(proc[p]), r)  BY <1>3 DEF WriteResult, WriteIo
<1>5. Alike(proc[p], r, {"pos"}) /\ r.pos = proc[p].pos + 1  BY <1>2, AdvancedAlike
<1> HIDE DEF r
<1>6. DOMAIN r = Fields /\ r.inv = proc[p].inv /\ r.held = proc[p].held
  BY <1>5 DEF Alike, Fields
<1>7. Left(p, Result(proc[p])) /\ Alike(r, proc'[p], {"held"})
  BY <1>2, <1>4, <1>6, WritesTo
<1>8. QED  BY <1>1, <1>5, <1>7 DEF DidWrite, Past, Alike, Fields

LEMMA CompareDid ==
  ASSUME MemoriesOK, NEW p \in Procs, Compare(p), Running(p)'
  PROVE  DidCompare(p)
<1>1. At(p, "compare")  BY DEF Compare
<1>2. DOMAIN proc[p] = Fields  BY <1>1, StandsAt
<1>3. \A exit, blamed : ~FailsAt(p, exit, blamed)  BY FailedIsGone
<1>4. Matches(proc[p]) /\ GoesOn(p, Advanced(proc[p]))  BY <1>3 DEF Compare, Fails
<1>5. QED  BY <1>1, <1>2, <1>4, AdvancedAlike, GoesOnTo DEF DidCompare, Past

LEMMA WriteHeadersDid ==
  ASSUME MemoriesOK, NEW p \in Procs, WriteHeaders(p), Running(p)'
  PROVE  DidHeaders(p)
<1> DEFINE r == Advanced(proc[p])
           z == Sealed(proc[p], "headers", << >>, 0)
<1>1. At(p, "headers")  BY DEF WriteHeaders
<1>2. DOMAIN proc[p] = Fields /\ proc[p].inv.output \in Paths  BY <1>1, StandsAt
<1>3. \A piece, exit, blamed : ~WriteFails(p, piece, exit, blamed)  BY FailedIsGone
<1>4. Writes(p, z, r)  BY <1>3 DEF WriteHeaders, WriteIo
<1>5. Alike(proc[p], r, {"pos"}) /\ r.pos = proc[p].pos + 1  BY <1>2, AdvancedAlike
<1> HIDE DEF r, z
<1>6. DOMAIN r = Fields /\ r.inv = proc[p].inv /\ r.held = proc[p].held
  BY <1>5 DEF Alike, Fields
<1>7. Left(p, z) /\ Alike(r, proc'[p], {"held"})  BY <1>2, <1>4, <1>6, WritesTo
<1>8. QED  BY <1>1, <1>5, <1>7 DEF DidHeaders, Past, Alike, Fields, z

LEMMA EncryptEndDid ==
  ASSUME MemoriesOK, NEW p \in Procs, EncryptEnd(p), Running(p)'
  PROVE  DidEnd(p)
<1> DEFINE r == Advanced(proc[p])
           z == Sealed(proc[p], "end", << >>, Len(proc[p].got) + 1)
<1>1. At(p, "end")  BY DEF EncryptEnd
<1>2. DOMAIN proc[p] = Fields /\ proc[p].inv.output \in Paths  BY <1>1, StandsAt
<1>3. \A piece, exit, blamed : ~WriteFails(p, piece, exit, blamed)  BY FailedIsGone
<1>4. Writes(p, z, r)  BY <1>3 DEF EncryptEnd, WriteIo
<1>5. Alike(proc[p], r, {"pos"}) /\ r.pos = proc[p].pos + 1  BY <1>2, AdvancedAlike
<1> HIDE DEF r, z
<1>6. DOMAIN r = Fields /\ r.inv = proc[p].inv /\ r.held = proc[p].held
  BY <1>5 DEF Alike, Fields
<1>7. Left(p, z) /\ Alike(r, proc'[p], {"held"})  BY <1>2, <1>4, <1>6, WritesTo
<1>8. QED  BY <1>1, <1>5, <1>7 DEF DidEnd, Past, Alike, Fields, z

LEMMA EncryptBlockDid ==
  ASSUME MemoriesOK, NEW p \in Procs, EncryptBlock(p), Running(p)'
  PROVE  DidBlock(p)
<1> DEFINE z == Sealed(proc[p], "block", <<NextPiece(p)>>, Len(proc[p].got) + 1)
<1>1. At(p, "blocks")  BY DEF EncryptBlock
<1>2. DOMAIN proc[p] = Fields /\ proc[p].inv.output \in Paths  BY <1>1, StandsAt
<1>3. \A exit, blamed : ~FailsAt(p, exit, blamed) /\ \A piece : ~WriteFails(p, piece, exit, blamed)
  BY FailedIsGone
<1>4. CASE Ready(p) /\ \E r \in {Got(p), Advanced(Got(p))} : Writes(p, z, r)
  <2>1. PICK r \in {Got(p), Advanced(Got(p))} : Writes(p, z, r)  BY <1>4
  <2>2. /\ Alike(proc[p], r, {"got", "pos"}) /\ r.pos \in {proc[p].pos, proc[p].pos + 1}
        /\ r.got = Append(proc[p].got, NextPiece(p))
    BY <1>1, <2>1, GotAlike DEF Alike, Fields
  <2> HIDE DEF z
  <2>3. DOMAIN r = Fields /\ r.inv = proc[p].inv /\ r.held = proc[p].held
    BY <2>2 DEF Alike, Fields
  <2>4. Left(p, z) /\ Alike(r, proc'[p], {"held"})  BY <1>2, <2>1, <2>3, WritesTo
  <2>5. Alike(proc[p], proc'[p], {"got", "held", "pos"}) /\ proc'[p].pos = r.pos
        /\ proc'[p].got = r.got
    BY <2>2, <2>4 DEF Alike, Fields
  <2>6. QED  BY <1>1, <1>4, <2>2, <2>4, <2>5 DEF DidBlock, More, z
<1>5. CASE GoesOn(p, Advanced(proc[p]))
  BY <1>1, <1>2, <1>5, AdvancedAlike, GoesOnTo DEF DidBlock, Past
<1>6. QED  BY <1>3, <1>4, <1>5 DEF EncryptBlock, InputFails, WriteIo

LEMMA DecryptHeaderDid ==
  ASSUME MemoriesOK, NEW p \in Procs, DecryptHeader(p), Running(p)'
  PROVE  DidHeader(p)
<1>1. At(p, "header")  BY DEF DecryptHeader
<1>2. \A exit, blamed : ~FailsAt(p, exit, blamed)  BY FailedIsGone
<1>3. /\ Ready(p) /\ GoesOn(p, Advanced(Got(p)))
      /\ NextPiece(p).kind = "headers" /\ NextPiece(p).whole
      /\ K!pub_key(proc[p].key).encoded \in NextPiece(p).to[2]
      /\ NextPiece(p).to[1] = proc[p].peers[1].encoded
  BY <1>2 DEF DecryptHeader, InputFails, Fails
<1>4. QED  BY <1>1, <1>3, GotAlike, GoesOnTo DEF DidHeader, More, Past

LEMMA DecryptBlockDid ==
  ASSUME MemoriesOK, NEW p \in Procs, DecryptBlock(p), Running(p)'
  PROVE  DidMessage(p)
<1> DEFINE text == NextPiece(p).of[1]
           open == proc[p].got[Len(proc[p].got)].kind # "end"
<1>1. At(p, "message")  BY DEF DecryptBlock
<1>2. DOMAIN proc[p] = Fields /\ proc[p].inv.output \in Paths  BY <1>1, StandsAt
<1>3. \A exit, blamed : ~FailsAt(p, exit, blamed) /\ \A piece : ~WriteFails(p, piece, exit, blamed)
  BY FailedIsGone
<1>4. CASE /\ Ready(p) /\ open /\ Follows(NextPiece(p), proc[p].got)
           /\ NextPiece(p).kind = "block" /\ Writes(p, text, Got(p))
  <2>1. Alike(proc[p], Got(p), {"got"}) /\ Got(p).got = Append(proc[p].got, NextPiece(p))
    BY <1>1, GotAlike
  <2>2. DOMAIN Got(p) = Fields /\ Got(p).inv = proc[p].inv /\ Got(p).held = proc[p].held
    BY <2>1 DEF Alike, Fields
  <2>3. Left(p, text) /\ Alike(Got(p), proc'[p], {"held"})  BY <1>2, <1>4, <2>2, WritesTo
  <2>4. Alike(proc[p], proc'[p], {"got", "held"}) /\ proc'[p].got = Got(p).got
    BY <2>1, <2>3 DEF Alike, Fields
  <2>5. QED  BY <1>1, <1>4, <2>1, <2>3, <2>4 DEF DidMessage, More
<1>5. CASE /\ Ready(p) /\ open /\ Follows(NextPiece(p), proc[p].got)
           /\ NextPiece(p).kind = "end" /\ GoesOn(p, Got(p))
  BY <1>1, <1>5, GotAlike, GoesOnTo DEF DidMessage, More
<1>6. CASE Ended(p) /\ GoesOn(p, Advanced(proc[p]))
  BY <1>1, <1>2, <1>6, AdvancedAlike, GoesOnTo DEF DidMessage, Past
<1>7. QED  BY <1>3, <1>4, <1>5, <1>6 DEF DecryptBlock, InputFails, WriteIo, Fails

LEMMA StepDid ==
  ASSUME MemoriesOK, NEW p \in Procs, Step(p), Running(p)'
  PROVE  Did(p)
<1>1. ~Exit(p)  BY FailedIsGone DEF Exit, Fails
<1>2. QED
  BY <1>1, KeyDid, OpenInputDid, OpenOutputDid, OpenPublicKeyDid, OpenOtherDid, ReadDid,
     WriteResultDid, CompareDid, WriteHeadersDid, EncryptBlockDid, EncryptEndDid,
     DecryptHeaderDid, DecryptBlockDid
     DEF Step, Did

\* What a step is to a process that runs after it.
Untouched(q) ==
  /\ Running(q) /\ proc'[q] = proc[q]
  /\ proc[q].inv.output # NoPath => file'[proc[q].inv.output] = file[proc[q].inv.output]

Starts(q) ==
  \E inv \in Invocations :
    /\ proc'[q] = Begun(runs + 1, inv)
    /\ inv.output = Pipe => file'[Pipe] = << >>

LEMMA Turns ==
  ASSUME MemoriesOK, [Next]_vars, NEW q \in Procs, Running(q)'
  PROVE  (Running(q) /\ Did(q)) \/ Untouched(q) \/ Starts(q)
<1>1. DOMAIN proc = Procs /\ DOMAIN file = Paths  BY DEF MemoriesOK, TypeOK
<1>2. ASSUME NEW p \in Procs, Start(p) PROVE Untouched(q) \/ Starts(q)
  <2>1. PICK inv \in Invocations :
          /\ (Running(q) /\ inv.output # NoPath) => proc[q].inv.output # inv.output
          /\ proc' = [proc EXCEPT ![p] = Begun(runs + 1, inv)]
          /\ file' = IF inv.output = Pipe THEN [file EXCEPT ![Pipe] = << >>] ELSE file
    BY <1>2 DEF Start
  <2>2. CASE p = q
    <3>1. proc'[q] = Begun(runs + 1, inv)  BY <1>1, <2>1, <2>2
    <3>2. inv.output = Pipe => file'[Pipe] = << >>  BY <1>1, <2>1, CliAssumption
    <3>3. QED  BY <3>1, <3>2 DEF Starts
  <2>3. CASE p # q
    <3>1. proc'[q] = proc[q] /\ Running(q)  BY <1>1, <2>1, <2>3 DEF Running
    <3>2. proc[q].inv.output # NoPath => file'[proc[q].inv.output] = file[proc[q].inv.output]
      BY <1>1, <2>1, <3>1, CliAssumption
    <3>3. QED  BY <3>1, <3>2 DEF Untouched
  <2>4. QED  BY <2>2, <2>3
<1>3. ASSUME NEW p \in Procs, Step(p) \/ Kill(p), p # q PROVE Untouched(q)
  <2>1. Goes(p) /\ Running(p)  BY <1>3, StepGoes, StepRuns
  <2>2. \E r2 : proc' = [proc EXCEPT ![p] = r2]
    BY <2>1 DEF Goes, EndsIn, Ends, Continues
  <2>3. proc'[q] = proc[q] /\ Running(q)  BY <1>1, <1>3, <2>2 DEF Running
  <2>4. proc[q].inv.output # NoPath => proc[q].inv.output # proc[p].inv.output
    BY <1>3, <2>1, <2>3 DEF MemoriesOK, Apart
  <2>5. proc[q].inv.output \in Paths \union {NoPath}
    BY <2>3, CliAssumption DEF MemoriesOK, MemoryOK
  <2>6. QED  BY <2>1, <2>3, <2>4, <2>5 DEF Untouched, Goes, FileKept
<1>4. ~Kill(q)
  <2>1. Kill(q) => proc' = [proc EXCEPT ![q] = Gone]  BY DEF Kill, Ends
  <2>2. QED  BY <1>1, <2>1 DEF Running
<1>5. Step(q) => Running(q) /\ Did(q)  BY StepRuns, StepDid
<1>6. UNCHANGED vars => Untouched(q)  BY DEF vars, Untouched, Running
<1>7. QED  BY <1>2, <1>3, <1>4, <1>5, <1>6 DEF Next

\* What a process did is its command's call where it stands.
LEMMA DidAt ==
  ASSUME NEW p, Did(p)
  PROVE  /\ \E call : At(p, call)
         /\ At(p, "passphrase") \/ At(p, "key") => DidKey(p)
         /\ At(p, "open") => DidOpen(p)
         /\ At(p, "create") => DidCreate(p)
         /\ At(p, "peers") => DidPeers(p)
         /\ At(p, "other") => DidOther(p)
         /\ At(p, "read") => DidRead(p)
         /\ At(p, "write") => DidWrite(p)
         /\ At(p, "compare") => DidCompare(p)
         /\ At(p, "headers") => DidHeaders(p)
         /\ At(p, "blocks") => DidBlock(p)
         /\ At(p, "end") => DidEnd(p)
         /\ At(p, "header") => DidHeader(p)
         /\ At(p, "message") => DidMessage(p)
<1> DEFINE c == Plan[proc[p].inv.cmd][proc[p].pos]
<1>1. \A call : At(p, call) => call = c  BY DEF At
<1>2. /\ DidKey(p) => At(p, "passphrase") \/ At(p, "key")
      /\ DidOpen(p) => At(p, "open")
      /\ DidCreate(p) => At(p, "create")
      /\ DidPeers(p) => At(p, "peers")
      /\ DidOther(p) => At(p, "other")
      /\ DidRead(p) => At(p, "read")
      /\ DidWrite(p) => At(p, "write")
      /\ DidCompare(p) => At(p, "compare")
      /\ DidHeaders(p) => At(p, "headers")
      /\ DidBlock(p) => At(p, "blocks")
      /\ DidEnd(p) => At(p, "end")
      /\ DidHeader(p) => At(p, "header")
      /\ DidMessage(p) => At(p, "message")
  BY DEF DidKey, DidOpen, DidCreate, DidPeers, DidOther, DidRead, DidWrite, DidCompare,
         DidHeaders, DidBlock, DidEnd, DidHeader, DidMessage
<1> HIDE DEF c
<1>3. /\ DidKey(p) => c \in {"passphrase", "key"}
      /\ DidOpen(p) => c = "open"
      /\ DidCreate(p) => c = "create"
      /\ DidPeers(p) => c = "peers"
      /\ DidOther(p) => c = "other"
      /\ DidRead(p) => c = "read"
      /\ DidWrite(p) => c = "write"
      /\ DidCompare(p) => c = "compare"
      /\ DidHeaders(p) => c = "headers"
      /\ DidBlock(p) => c = "blocks"
      /\ DidEnd(p) => c = "end"
      /\ DidHeader(p) => c = "header"
      /\ DidMessage(p) => c = "message"
  BY <1>1, <1>2
<1>4. At(p, c)
  <2>1. \E call : At(p, call)  BY <1>2, Zenon DEF Did
  <2>2. QED  BY <1>1, <2>1
<1>5. /\ c \in {"passphrase", "key"} => DidKey(p)
      /\ c = "open" => DidOpen(p)
      /\ c = "create" => DidCreate(p)
      /\ c = "peers" => DidPeers(p)
      /\ c = "other" => DidOther(p)
      /\ c = "read" => DidRead(p)
      /\ c = "write" => DidWrite(p)
      /\ c = "compare" => DidCompare(p)
      /\ c = "headers" => DidHeaders(p)
      /\ c = "blocks" => DidBlock(p)
      /\ c = "end" => DidEnd(p)
      /\ c = "header" => DidHeader(p)
      /\ c = "message" => DidMessage(p)
  BY <1>3 DEF Did
<1>6. QED  BY <1>1, <1>4, <1>5

LEMMA DidByCommand ==
  ASSUME MemoriesOK, NEW p \in Procs, Did(p)
  PROVE  LET cmd == proc[p].inv.cmd
             pos == proc[p].pos
         IN  /\ cmd \in Cmds /\ pos \in Nat
             /\ cmd = "secret-key" => \/ pos = 1 /\ DidKey(p)
                                      \/ pos = 2 /\ DidCreate(p)
                                      \/ pos = 3 /\ DidWrite(p)
             /\ cmd = "public-key" => \/ pos = 1 /\ DidKey(p)
                                      \/ pos = 2 /\ DidCreate(p)
                                      \/ pos = 3 /\ DidWrite(p)
             /\ cmd = "encrypt" => \/ pos = 1 /\ DidKey(p)
                                   \/ pos = 2 /\ DidOpen(p)
                                   \/ pos = 3 /\ DidCreate(p)
                                   \/ pos = 4 /\ DidPeers(p)
                                   \/ pos = 5 /\ DidHeaders(p)
                                   \/ pos = 6 /\ DidBlock(p)
                                   \/ pos = 7 /\ DidEnd(p)
             /\ cmd = "decrypt" => \/ pos = 1 /\ DidOpen(p)
                                   \/ pos = 2 /\ DidCreate(p)
                                   \/ pos = 3 /\ DidKey(p)
                                   \/ pos = 4 /\ DidPeers(p)
                                   \/ pos = 5 /\ DidHeader(p)
                                   \/ pos = 6 /\ DidMessage(p)
             /\ cmd = "sign" => \/ pos = 1 /\ DidOpen(p)
                                \/ pos = 2 /\ DidCreate(p)
                                \/ pos = 3 /\ DidKey(p)
                                \/ pos = 4 /\ DidRead(p)
                                \/ pos = 5 /\ DidWrite(p)
             /\ cmd = "verify" => \/ pos = 1 /\ DidOpen(p)
                                  \/ pos = 2 /\ DidPeers(p)
                                  \/ pos = 3 /\ DidOther(p)
                                  \/ pos = 4 /\ DidRead(p)
                                  \/ pos = 5 /\ DidCompare(p)
             /\ cmd = "digest" => \/ pos = 1 /\ DidOpen(p)
                                  \/ pos = 2 /\ DidRead(p)
                                  \/ pos = 3 /\ DidCreate(p)
                                  \/ pos = 4 /\ DidWrite(p)
             /\ cmd = "check" => \/ pos = 1 /\ DidOther(p)
                                 \/ pos = 2 /\ DidOpen(p)
                                 \/ pos = 3 /\ DidRead(p)
                                 \/ pos = 4 /\ DidCompare(p)
             /\ cmd = "complete" => \/ pos = 1 /\ DidCreate(p)
                                    \/ pos = 2 /\ DidWrite(p)
<1> DEFINE cmd == proc[p].inv.cmd
           pos == proc[p].pos
<1>1. /\ cmd \in Cmds /\ pos \in Nat /\ pos \in 1..Len(Plan[cmd]) /\ At(p, Plan[cmd][pos])
  BY DidAt, StandsAt
<1> HIDE DEF cmd, pos
<1>2. ASSUME cmd = "secret-key"
      PROVE  \/ pos = 1 /\ DidKey(p)
             \/ pos = 2 /\ DidCreate(p)
             \/ pos = 3 /\ DidWrite(p)
  <2>1. pos \in {1, 2, 3} /\ At(p, <<"passphrase", "create", "write">>[pos])
    BY <1>1, <1>2, Plans
  <2>2. \/ pos = 1 /\ At(p, "passphrase")
        \/ pos = 2 /\ At(p, "create")
        \/ pos = 3 /\ At(p, "write")
    BY <2>1
  <2>3. QED  BY <2>2, DidAt
<1>3. ASSUME cmd = "public-key"
      PROVE  \/ pos = 1 /\ DidKey(p)
             \/ pos = 2 /\ DidCreate(p)
             \/ pos = 3 /\ DidWrite(p)
  <2>1. pos \in {1, 2, 3} /\ At(p, <<"key", "create", "write">>[pos])
    BY <1>1, <1>3, Plans
  <2>2. \/ pos = 1 /\ At(p, "key")
        \/ pos = 2 /\ At(p, "create")
        \/ pos = 3 /\ At(p, "write")
    BY <2>1
  <2>3. QED  BY <2>2, DidAt
<1>4. ASSUME cmd = "encrypt"
      PROVE  \/ pos = 1 /\ DidKey(p)
             \/ pos = 2 /\ DidOpen(p)
             \/ pos = 3 /\ DidCreate(p)
             \/ pos = 4 /\ DidPeers(p)
             \/ pos = 5 /\ DidHeaders(p)
             \/ pos = 6 /\ DidBlock(p)
             \/ pos = 7 /\ DidEnd(p)
  <2>1. pos \in {1, 2, 3, 4, 5, 6, 7} /\ At(p, <<"key", "open", "create", "peers", "headers", "blocks", "end">>[pos])
    BY <1>1, <1>4, Plans
  <2>2. \/ pos = 1 /\ At(p, "key")
        \/ pos = 2 /\ At(p, "open")
        \/ pos = 3 /\ At(p, "create")
        \/ pos = 4 /\ At(p, "peers")
        \/ pos = 5 /\ At(p, "headers")
        \/ pos = 6 /\ At(p, "blocks")
        \/ pos = 7 /\ At(p, "end")
    BY <2>1
  <2>3. QED  BY <2>2, DidAt
<1>5. ASSUME cmd = "decrypt"
      PROVE  \/ pos = 1 /\ DidOpen(p)
             \/ pos = 2 /\ DidCreate(p)
             \/ pos = 3 /\ DidKey(p)
             \/ pos = 4 /\ DidPeers(p)
             \/ pos = 5 /\ DidHeader(p)
             \/ pos = 6 /\ DidMessage(p)
  <2>1. pos \in {1, 2, 3, 4, 5, 6} /\ At(p, <<"open", "create", "key", "peers", "header", "message">>[pos])
    BY <1>1, <1>5, Plans
  <2>2. \/ pos = 1 /\ At(p, "open")
        \/ pos = 2 /\ At(p, "create")
        \/ pos = 3 /\ At(p, "key")
        \/ pos = 4 /\ At(p, "peers")
        \/ pos = 5 /\ At(p, "header")
        \/ pos = 6 /\ At(p, "message")
    BY <2>1
  <2>3. QED  BY <2>2, DidAt
<1>6. ASSUME cmd = "sign"
      PROVE  \/ pos = 1 /\ DidOpen(p)
             \/ pos = 2 /\ DidCreate(p)
             \/ pos = 3 /\ DidKey(p)
             \/ pos = 4 /\ DidRead(p)
             \/ pos = 5 /\ DidWrite(p)
  <2>1. pos \in {1, 2, 3, 4, 5} /\ At(p, <<"open", "create", "key", "read", "write">>[pos])
    BY <1>1, <1>6, Plans
  <2>2. \/ pos = 1 /\ At(p, "open")
        \/ pos = 2 /\ At(p, "create")
        \/ pos = 3 /\ At(p, "key")
        \/ pos = 4 /\ At(p, "read")
        \/ pos = 5 /\ At(p, "write")
    BY <2>1
  <2>3. QED  BY <2>2, DidAt
<1>7. ASSUME cmd = "verify"
      PROVE  \/ pos = 1 /\ DidOpen(p)
             \/ pos = 2 /\ DidPeers(p)
             \/ pos = 3 /\ DidOther(p)
             \/ pos = 4 /\ DidRead(p)
             \/ pos = 5 /\ DidCompare(p)
  <2>1. pos \in {1, 2, 3, 4, 5} /\ At(p, <<"open", "peers", "other", "read", "compare">>[pos])
    BY <1>1, <1>7, Plans
  <2>2. \/ pos = 1 /\ At(p, "open")
        \/ pos = 2 /\ At(p, "peers")
        \/ pos = 3 /\ At(p, "other")
        \/ pos = 4 /\ At(p, "read")
        \/ pos = 5 /\ At(p, "compare")
    BY <2>1
  <2>3. QED  BY <2>2, DidAt
<1>8. ASSUME cmd = "digest"
      PROVE  \/ pos = 1 /\ DidOpen(p)
             \/ pos = 2 /\ DidRead(p)
             \/ pos = 3 /\ DidCreate(p)
             \/ pos = 4 /\ DidWrite(p)
  <2>1. pos \in {1, 2, 3, 4} /\ At(p, <<"open", "read", "create", "write">>[pos])
    BY <1>1, <1>8, Plans
  <2>2. \/ pos = 1 /\ At(p, "open")
        \/ pos = 2 /\ At(p, "read")
        \/ pos = 3 /\ At(p, "create")
        \/ pos = 4 /\ At(p, "write")
    BY <2>1
  <2>3. QED  BY <2>2, DidAt
<1>9. ASSUME cmd = "check"
      PROVE  \/ pos = 1 /\ DidOther(p)
             \/ pos = 2 /\ DidOpen(p)
             \/ pos = 3 /\ DidRead(p)
             \/ pos = 4 /\ DidCompare(p)
  <2>1. pos \in {1, 2, 3, 4} /\ At(p, <<"other", "open", "read", "compare">>[pos])
    BY <1>1, <1>9, Plans
  <2>2. \/ pos = 1 /\ At(p, "other")
        \/ pos = 2 /\ At(p, "open")
        \/ pos = 3 /\ At(p, "read")
        \/ pos = 4 /\ At(p, "compare")
    BY <2>1
  <2>3. QED  BY <2>2, DidAt
<1>10. ASSUME cmd = "complete"
      PROVE  \/ pos = 1 /\ DidCreate(p)
             \/ pos = 2 /\ DidWrite(p)
  <2>1. pos \in {1, 2} /\ At(p, <<"create", "write">>[pos])
    BY <1>1, <1>10, Plans
  <2>2. \/ pos = 1 /\ At(p, "create")
        \/ pos = 2 /\ At(p, "write")
    BY <2>1
  <2>3. QED  BY <2>2, DidAt
<1>11. QED
  BY <1>1, <1>2, <1>3, <1>4, <1>5, <1>6, <1>7, <1>8, <1>9, <1>10 DEF cmd, pos

\* Its command line stays, and its public keys unless it opens one.
LEMMA DidKeep ==
  ASSUME NEW p, Did(p)
  PROVE  /\ Kept(proc[p], proc'[p])
         /\ DidPeers(p) \/ proc'[p].peers = proc[p].peers
         /\ DidOther(p) \/ proc'[p].other = proc[p].other
<1>1. CASE DidPeers(p)  BY <1>1 DEF DidPeers, Alike, Kept, Fields
<1>2. CASE DidOther(p)  BY <1>2 DEF DidOther, Past, Alike, Kept, Fields
<1>3. CASE \/ DidKey(p) \/ DidOpen(p) \/ DidCreate(p)
  BY <1>3 DEF DidKey, DidOpen, DidCreate, Past, Alike, Kept, Fields
<1>4. CASE DidRead(p) \/ DidCompare(p)
  BY <1>4 DEF DidRead, DidCompare, Past, Alike, Kept, Fields
<1>5. CASE DidWrite(p) \/ DidHeaders(p) \/ DidEnd(p) \/ DidHeader(p)
  BY <1>5 DEF DidWrite, DidHeaders, DidEnd, DidHeader, Past, Alike, Kept, Fields
<1>6. CASE DidBlock(p)  BY <1>6 DEF DidBlock, Past, Alike, Kept, Fields
<1>7. CASE DidMessage(p)  BY <1>7 DEF DidMessage, Past, Alike, Kept, Fields
<1>8. QED  BY <1>1, <1>2, <1>3, <1>4, <1>5, <1>6, <1>7 DEF Did
-----------------------------------------------------------------------------
(* What verify and digest --check have seen.                               *)

\* The public keys are as their files have them; a signature or a digest is the one
\* that was opened; and past the comparison it matched.
Judged(r) ==
  /\ \A j \in 1..Len(r.peers) : r.peers[j] = K!Decoded(r.peers[j].encoded)
  /\ r.inv.cmd = "verify" =>
       /\ r.pos > 2 => Len(r.peers) >= 1
       /\ r.pos > 3 => Len(r.other) = 1 /\ r.other[1].kind = "signature"
       /\ r.pos > 5 => Matches(r)
  /\ r.inv.cmd = "check" =>
       /\ r.pos > 1 => Len(r.other) = 1 /\ r.other[1].kind = "digest"
       /\ r.pos > 4 => Matches(r)

AllJudged == \A p \in Procs : Running(p) => Judged(proc[p])

\* One public key more.
LEMMA PeersGrow ==
  ASSUME NEW set, NEW ps \in Seq(set), NEW b,
         \A j \in 1..Len(ps) : ps[j] = K!Decoded(ps[j].encoded),
         NEW ps2, ps2 = Append(ps, K!Decoded(b))
  PROVE  /\ Len(ps2) = Len(ps) + 1 /\ Len(ps) \in Nat
         /\ \A j \in 1..Len(ps2) : ps2[j] = K!Decoded(ps2[j].encoded)
<1> DEFINE key == K!Decoded(b)
<1>1. key = K!Decoded(key.encoded)  BY DEF K!Decoded
<1>2. ps2 = Append(ps, key)  OBVIOUS
<1> HIDE DEF key
<1>3. ps \in Seq(set \union {key}) /\ key \in set \union {key}  OBVIOUS
<1>4. /\ Len(Append(ps, key)) = Len(ps) + 1 /\ Len(ps) \in Nat
      /\ Append(ps, key)[Len(ps) + 1] = key
      /\ \A j \in 1..Len(ps) : Append(ps, key)[j] = ps[j]
  BY <1>3, AppendProperties
<1>5. ASSUME NEW j \in 1..Len(ps2) PROVE ps2[j] = K!Decoded(ps2[j].encoded)
  <2>1. j \in 1..Len(ps) \/ j = Len(ps) + 1  BY <1>2, <1>4
  <2>2. QED  BY <1>1, <1>2, <1>4, <2>1
<1>6. QED  BY <1>2, <1>4, <1>5

LEMMA JudgedGoesOn ==
  ASSUME MemoriesOK, NEW p \in Procs, Running(p), Did(p), Judged(proc[p])
  PROVE  Judged(proc'[p])
<1> DEFINE r == proc[p]
           r2 == proc'[p]
<1>1. Kept(r, r2) /\ \E set : r.peers \in Seq(set)  BY DidKeep DEF MemoriesOK, MemoryOK
<1>2. \A j \in 1..Len(r2.peers) : r2.peers[j] = K!Decoded(r2.peers[j].encoded)
  <2>1. CASE r2.peers = r.peers  BY <2>1 DEF Judged
  <2>2. CASE DidPeers(p)
    <3>1. PICK b : r2.peers = Append(r.peers, K!Decoded(b))  BY <2>2 DEF DidPeers
    <3>2. PICK set : r.peers \in Seq(set)  BY <1>1
    <3>3. \A j \in 1..Len(r.peers) : r.peers[j] = K!Decoded(r.peers[j].encoded)
      BY DEF Judged
    <3> HIDE DEF r, r2
    <3>4. QED  BY <3>1, <3>2, <3>3, PeersGrow
  <2>3. QED  BY <2>1, <2>2, DidKeep
<1>3. ASSUME r.inv.cmd = "verify"
      PROVE  /\ r2.pos > 2 => Len(r2.peers) >= 1
             /\ r2.pos > 3 => Len(r2.other) = 1 /\ r2.other[1].kind = "signature"
             /\ r2.pos > 5 => Matches(r2)
  <2>1. CASE r.pos = 1 /\ DidOpen(p)  BY <2>1 DEF DidOpen, Past
  <2>2. CASE r.pos = 2 /\ DidPeers(p)
    <3>1. PICK b : r2.peers = Append(r.peers, K!Decoded(b))  BY <2>2 DEF DidPeers
    <3>2. Len(r2.peers) = Len(r.peers) + 1 /\ Len(r.peers) \in Nat
      BY <1>1, <3>1, PeersGrow DEF Judged
    <3>3. r2.pos \in {2, 3}  BY <2>2 DEF DidPeers
    <3>4. QED  BY <3>2, <3>3
  <2>3. CASE r.pos = 3 /\ DidOther(p)
    <3>1. r2.pos = 4 /\ r2.peers = r.peers /\ Len(r2.other) = 1 /\ r2.other[1].kind = "signature"
      BY <1>3, <2>3 DEF DidOther, Past, Alike, Fields
    <3>2. QED  BY <1>3, <2>3, <3>1 DEF Judged
  <2>4. CASE r.pos = 4 /\ DidRead(p)
    <3>1. r2.pos \in {4, 5} /\ r2.peers = r.peers /\ r2.other = r.other
      BY <2>4 DEF DidRead, Past, Alike, Fields
    <3>2. QED  BY <1>3, <2>4, <3>1 DEF Judged
  <2>5. CASE r.pos = 5 /\ DidCompare(p)
    <3>1. /\ Matches(r) /\ r2.pos = 6 /\ r2.peers = r.peers /\ r2.other = r.other
          /\ r2.got = r.got /\ r2.inv = r.inv
      BY <2>5 DEF DidCompare, Past, Alike, Fields
    <3>2. Matches(r2)  BY <3>1 DEF Matches
    <3>3. QED  BY <1>3, <2>5, <3>1, <3>2 DEF Judged
  <2>6. QED  BY <1>3, <2>1, <2>2, <2>3, <2>4, <2>5, DidByCommand
<1>4. ASSUME r.inv.cmd = "check"
      PROVE  /\ r2.pos > 1 => Len(r2.other) = 1 /\ r2.other[1].kind = "digest"
             /\ r2.pos > 4 => Matches(r2)
  <2>1. CASE r.pos = 1 /\ DidOther(p)
    <3>1. r2.pos = 2 /\ Len(r2.other) = 1 /\ r2.other[1].kind = "digest"
      BY <1>4, <2>1 DEF DidOther, Past
    <3>2. QED  BY <3>1
  <2>2. CASE (r.pos = 2 /\ DidOpen(p)) \/ (r.pos = 3 /\ DidRead(p))
    <3>1. r2.pos \in {3, 4} /\ r2.other = r.other
      BY <2>2 DEF DidOpen, DidRead, Past, Alike, Fields
    <3>2. QED  BY <1>4, <2>2, <3>1 DEF Judged
  <2>3. CASE r.pos = 4 /\ DidCompare(p)
    <3>1. /\ Matches(r) /\ r2.pos = 5 /\ r2.peers = r.peers /\ r2.other = r.other
          /\ r2.got = r.got /\ r2.inv = r.inv
      BY <2>3 DEF DidCompare, Past, Alike, Fields
    <3>2. Matches(r2)  BY <3>1 DEF Matches
    <3>3. QED  BY <1>4, <2>3, <3>1, <3>2 DEF Judged
  <2>4. QED  BY <1>4, <2>1, <2>2, <2>3, DidByCommand
<1>5. QED  BY <1>1, <1>2, <1>3, <1>4 DEF Judged, Kept

LEMMA JudgedInductive ==
  ASSUME MemoriesOK, AllJudged, [Next]_vars
  PROVE  AllJudged'
<1> SUFFICES ASSUME NEW p \in Procs, Running(p)' PROVE Judged(proc'[p])
  BY DEF AllJudged, Judged, Matches
<1>1. CASE Running(p) /\ Did(p)  BY <1>1, JudgedGoesOn DEF AllJudged
<1>2. CASE Untouched(p)  BY <1>2 DEF AllJudged, Untouched
<1>3. CASE Starts(p)
  <2>1. PICK inv \in Invocations : proc'[p] = Begun(runs + 1, inv)  BY <1>3 DEF Starts
  <2>2. Begun(runs + 1, inv).peers = << >> /\ Begun(runs + 1, inv).pos = 1  BY DEF Begun
  <2>3. QED  BY <2>1, <2>2 DEF Judged
<1>4. QED  BY <1>1, <1>2, <1>3, Turns

-----------------------------------------------------------------------------
(* Which call an exit is of.                                               *)

\* The exits that say how a command fared with its data.
Verdicts ==
  {"ok", "BadSignature", "DigestMismatch", "InvalidCiphertext", "UnexpectedEof", "panic"}

LEMMA FaultIsNoVerdict ==
  ASSUME NEW p, NEW exit, NEW blamed, exit \notin Verdicts,
         FailsAt(p, exit, blamed) \/ \E piece : WriteFails(p, piece, exit, blamed)
  PROVE  ended'.exit \notin Verdicts
BY FailsWith, WriteFailsWith

LEMMA NoneIsNoVerdict == ended' = None => ended'.exit \notin Verdicts
BY DEF None, Ending, Verdicts

LEMMA ReadIoIsNoVerdict ==
  ASSUME NEW p, NEW path, ReadIo(p, path)
  PROVE  ended'.exit \notin Verdicts
<1>1. "NotFound" \notin Verdicts /\ "ReadIo" \notin Verdicts  BY DEF Verdicts
<1>2. QED  BY <1>1, FaultIsNoVerdict DEF ReadIo

LEMMA VerdictCall ==
  ASSUME NEW p, Step(p) \/ Kill(p), ended'.exit \in Verdicts
  PROVE  \/ Exit(p) \/ Compare(p) \/ DecryptHeader(p) \/ DecryptBlock(p)
         \/ WriteResult(p) /\ proc[p].inv.cmd = "complete"
<1>1. \A exit \in (Faults \union {"BadPassphrase", "Invalid", "InvalidPublicKey", "killed"}) :
        exit \notin Verdicts
  BY DEF Faults, Verdicts
<1>2. ~ReadPassphrase(p) /\ ~OpenOutput(p)
  BY <1>1, FaultIsNoVerdict, NoneIsNoVerdict DEF ReadPassphrase, OpenOutput, Fails, GoesOn, Faults
<1>3. ~DecryptKey(p) /\ ~OpenInput(p)
  BY <1>1, FaultIsNoVerdict, ReadIoIsNoVerdict, NoneIsNoVerdict
     DEF DecryptKey, OpenInput, Fails, GoesOn, Faults
<1>4. ~OpenPublicKey(p) /\ ~OpenOther(p)
  BY <1>1, FaultIsNoVerdict, ReadIoIsNoVerdict, NoneIsNoVerdict
     DEF OpenPublicKey, OpenOther, GoesOn, Faults
<1>5. ~Read(p) /\ ~WriteHeaders(p) /\ ~EncryptEnd(p)
  BY <1>1, FaultIsNoVerdict, NoneIsNoVerdict
     DEF Read, WriteHeaders, EncryptEnd, InputFails, WriteIo, Writes, GoesOn, Faults
<1>6. ~EncryptBlock(p)
  BY <1>1, FaultIsNoVerdict, NoneIsNoVerdict
     DEF EncryptBlock, InputFails, WriteIo, Writes, GoesOn, Faults
<1>7. WriteResult(p) => proc[p].inv.cmd = "complete"
  BY <1>1, FaultIsNoVerdict, NoneIsNoVerdict
     DEF WriteResult, WriteIo, Writes, Faults
<1>8. ~Kill(p)
  <2>1. Kill(p) => ended'.exit = "killed"  BY DEF Kill, Ends, Ending
  <2>2. QED  BY <1>1, <2>1
<1>9. QED  BY <1>2, <1>3, <1>4, <1>5, <1>6, <1>7, <1>8 DEF Step

\* Status 0 is of a process that made all its calls, and a mismatch of the comparison.
LEMMA OkIsDone ==
  ASSUME NEW p, Step(p) \/ Kill(p), ended'.exit = "ok"
  PROVE  Exit(p)
<1>1. \/ Exit(p) \/ Compare(p) \/ DecryptHeader(p) \/ DecryptBlock(p) \/ WriteResult(p)
  BY VerdictCall DEF Verdicts
<1>2. ~(ended' = None)  BY DEF None, Ending
<1>3. ~Compare(p)  BY <1>2, FailsWith DEF Compare, Fails, GoesOn
<1>4. ~DecryptHeader(p)  BY <1>2, FailsWith DEF DecryptHeader, InputFails, Fails, GoesOn
<1>5. ~DecryptBlock(p)
  BY <1>2, FailsWith, WriteFailsWith DEF DecryptBlock, InputFails, Fails, GoesOn, WriteIo, Writes
<1>6. ~WriteResult(p)
  BY <1>2, WriteFailsWith DEF WriteResult, WriteIo, Writes
<1>7. QED  BY <1>1, <1>3, <1>4, <1>5, <1>6

LEMMA MismatchIsCompared ==
  ASSUME NEW p, Step(p) \/ Kill(p), ended'.exit \in {"BadSignature", "DigestMismatch"}
  PROVE  At(p, "compare") /\ ~Matches(proc[p])
<1>1. \/ Exit(p) \/ Compare(p) \/ DecryptHeader(p) \/ DecryptBlock(p) \/ WriteResult(p)
  BY VerdictCall DEF Verdicts
<1>2. ~(ended' = None)  BY DEF None, Ending
<1>3. ~Exit(p)  BY FailsWith DEF Exit, Fails
<1>4. ~DecryptHeader(p)  BY <1>2, FailsWith DEF DecryptHeader, InputFails, Fails, GoesOn
<1>5. ~DecryptBlock(p)
  BY <1>2, FailsWith, WriteFailsWith DEF DecryptBlock, InputFails, Fails, GoesOn, WriteIo, Writes
<1>6. ~WriteResult(p)
  BY <1>2, WriteFailsWith DEF WriteResult, WriteIo, Writes
<1>7. QED  BY <1>1, <1>2, <1>3, <1>4, <1>5, <1>6 DEF Compare, GoesOn
-----------------------------------------------------------------------------
(* A signature and a digest are of one text.                               *)

\* Induction, over a set.
LEMMA NaturalsUpTo ==
  ASSUME NEW T, 0 \in T, \A k \in Nat : k \in T => k + 1 \in T
  PROVE  Nat \subseteq T
<1> DEFINE R == OpToRel(<, Nat)
           U == Nat \ T
<1>1. SUFFICES ASSUME U # {} PROVE FALSE  OBVIOUS
<1>2. IsWellFoundedOn(R, Nat)  BY NatLessThanWellFounded
<1>3. \A x \in Nat, y \in Nat : <<y, x>> \in R <=> y < x  BY DEF OpToRel
<1>4. U \subseteq Nat  OBVIOUS
<1> HIDE DEF R, U
<1>5. PICK x \in U : \A y \in U : ~ (<<y, x>> \in R)  BY <1>1, <1>2, <1>4, WFMin
<1>6. x \in Nat /\ x \notin T /\ x # 0  BY <1>5 DEF U
<1>7. x - 1 \in Nat /\ x - 1 < x /\ x - 1 + 1 = x  BY <1>6
<1>8. x - 1 \notin U  BY <1>3, <1>4, <1>5, <1>6, <1>7
<1>9. x - 1 \in T  BY <1>7, <1>8 DEF U
<1>10. QED  BY <1>6, <1>7, <1>9

\* Nothing that is mixed in is lost.
LEMMA AppendsApart ==
  ASSUME NEW A, NEW s \in Seq(A), NEW t \in Seq(A), NEW x, NEW y,
         NEW both, both = Append(s, x), both = Append(t, y)
  PROVE  s = t /\ x = y
<1> DEFINE B == A \union {x, y}
<1>1. s \in Seq(B) /\ t \in Seq(B) /\ x \in B /\ y \in B  BY SeqGrows
<1> HIDE DEF B
<1>2. \A u, v \in Seq(B) : \A c, d \in B : Append(u, c) = Append(v, d) => u = v /\ c = d
  BY AppendInjective
<1>3. Append(s, x) = Append(t, y)  OBVIOUS
<1>4. QED  BY <1>1, <1>2, <1>3

\* The state of a digest after the first j values of its metadata.
Mixed(metadata, j) ==
  [i \in 1..(j + 1) |-> IF i = 1 THEN <<"new", "domain", "veil.digest">>
                        ELSE <<"mix", "metadata", metadata[i - 1]>>]

Steps(metadata) == {<<"new", "domain", "veil.digest">>}
                     \union {<<"mix", "metadata", metadata[i]>> : i \in 1..Len(metadata)}

LEMMA MixedStep ==
  ASSUME NEW metadata \in Seq(Seq(Nat)), NEW j \in 1..Len(metadata)
  PROVE  /\ Mixed(metadata, j) = D!Mix(Mixed(metadata, j - 1), "metadata", metadata[j])
         /\ Mixed(metadata, j) \in Seq(Steps(metadata))
<1> DEFINE s == Mixed(metadata, j - 1)
           x == <<"mix", "metadata", metadata[j]>>
           t == Mixed(metadata, j)
<1>1. /\ Len(metadata) \in Nat /\ j \in Nat /\ j - 1 \in Nat /\ j - 1 + 1 = j
      /\ j + 1 - 1 = j /\ j + 1 # 1
  OBVIOUS
<1>a. /\ <<"new", "domain", "veil.digest">> \in Steps(metadata)
      /\ \A i \in 1..Len(metadata) : <<"mix", "metadata", metadata[i]>> \in Steps(metadata)
  BY DEF Steps
<1>b. \A i \in 1..(j + 1) : i = 1 \/ i - 1 \in 1..Len(metadata)  BY <1>1
<1>c. \A i \in 1..j : i = 1 \/ i - 1 \in 1..Len(metadata)  BY <1>1
<1>d. s = [i \in 1..j |-> IF i = 1 THEN <<"new", "domain", "veil.digest">>
                          ELSE <<"mix", "metadata", metadata[i - 1]>>]
  BY <1>1 DEF Mixed
<1>e. s \in [1..j -> Steps(metadata)]  BY <1>a, <1>c, <1>d
<1>f. t \in [1..(j + 1) -> Steps(metadata)]  BY <1>a, <1>b DEF Mixed
<1>2. s \in [1..j -> Steps(metadata)] /\ t \in [1..(j + 1) -> Steps(metadata)] /\ x \in Steps(metadata)
  BY <1>a, <1>e, <1>f
<1>3. s \in Seq(Steps(metadata)) /\ t \in Seq(Steps(metadata)) /\ Len(s) = j /\ Len(t) = j + 1
  BY <1>1, <1>2, SeqDef
<1>4. (\A i \in 1..j : t[i] = s[i]) /\ t[j + 1] = x
  BY <1>1 DEF Mixed
<1> HIDE DEF s, t, x
<1>5. /\ Append(s, x) \in Seq(Steps(metadata)) /\ Len(Append(s, x)) = j + 1
      /\ \A i \in 1..j : Append(s, x)[i] = s[i]
      /\ Append(s, x)[j + 1] = x
  BY <1>2, <1>3, AppendProperties
<1>6. \A i \in 1..(j + 1) : t[i] = Append(s, x)[i]
  <2>1. \A i \in 1..(j + 1) : i \in 1..j \/ i = j + 1  BY <1>1
  <2>2. QED  BY <1>4, <1>5, <2>1
<1>7. t = Append(s, x)  BY <1>3, <1>5, <1>6, SeqEqual
<1>8. QED  BY <1>3, <1>7 DEF D!Mix, s, t, x
LEMMA DescribedIsMixed ==
  ASSUME NEW metadata \in Seq(Seq(Nat))
  PROVE  /\ D!Described(metadata) = Mixed(metadata, Len(metadata))
         /\ Mixed(metadata, Len(metadata)) \in Seq(Steps(metadata))
<1> DEFINE n == Len(metadata)
           Next1(f) == [j \in 0..n |-> IF j = 0 THEN D!New("veil.digest")
                                       ELSE D!Mix(f[j - 1], "metadata", metadata[j])]
           g == [j \in 0..n |-> Mixed(metadata, j)]
           digest == CHOOSE f : f = Next1(f)
<1>1. n \in Nat  OBVIOUS
<1>2. /\ Mixed(metadata, 0) = D!New("veil.digest")
      /\ D!New("veil.digest") \in Seq(Steps(metadata))
  <2>1. /\ Mixed(metadata, 0) = [i \in 1..1 |-> <<"new", "domain", "veil.digest">>]
        /\ <<"new", "domain", "veil.digest">> \in Steps(metadata)
    BY DEF Mixed, Steps
  <2>2. << <<"new", "domain", "veil.digest">> >> = [i \in 1..1 |-> <<"new", "domain", "veil.digest">>]
    OBVIOUS
  <2>3. << <<"new", "domain", "veil.digest">> >> \in Seq(Steps(metadata))  BY <2>1
  <2>4. QED  BY <2>1, <2>2, <2>3 DEF D!New
<1>3. \A j \in 1..n : Mixed(metadata, j) = D!Mix(Mixed(metadata, j - 1), "metadata", metadata[j])
  BY MixedStep
<1>4. g = Next1(g)
  <2>1. \A j \in 0..n : g[j] = Next1(g)[j]
    <3>1. TAKE j \in 0..n
    <3>2. CASE j = 0  BY <1>1, <1>2, <3>2
    <3>3. CASE j # 0
      <4>1. j \in 1..n /\ j - 1 \in 0..n  BY <1>1, <3>3
      <4>2. g[j] = Mixed(metadata, j) /\ g[j - 1] = Mixed(metadata, j - 1)  BY <4>1
      <4>3. QED  BY <1>3, <3>3, <4>1, <4>2
    <3>4. QED  BY <3>2, <3>3
  <2>2. QED  BY <2>1
<1>5. digest = Next1(digest)
  <2>1. \E f : f = Next1(f)  BY <1>4
  <2> HIDE DEF Next1
  <2>2. QED  BY <2>1
<1>6. D!Described(metadata) = digest[n]  BY DEF D!Described
<1> HIDE DEF digest
<1>7. \A j \in 0..n : digest[j] = Mixed(metadata, j)
  <2> DEFINE T == {j \in Nat : j <= n => digest[j] = Mixed(metadata, j)}
  <2>1. 0 \in T  BY <1>1, <1>2, <1>5
  <2>2. ASSUME NEW j \in Nat, j \in T PROVE j + 1 \in T
    <3>1. SUFFICES ASSUME j + 1 <= n PROVE digest[j + 1] = Mixed(metadata, j + 1)  OBVIOUS
    <3>2. j + 1 \in 1..n /\ j + 1 \in 0..n /\ j + 1 # 0 /\ j + 1 - 1 = j /\ j <= n
      BY <1>1, <3>1
    <3>3. digest[j] = Mixed(metadata, j)  BY <2>2, <3>2
    <3>4. digest[j + 1] = D!Mix(digest[j], "metadata", metadata[j + 1])
      BY <1>5, <3>2
    <3>5. QED  BY <1>3, <3>2, <3>3, <3>4
  <2> HIDE DEF T
  <2>3. Nat \subseteq T  BY <2>1, <2>2, NaturalsUpTo
  <2>4. QED  BY <2>3, <1>1 DEF T
<1>8. Mixed(metadata, n) \in Seq(Steps(metadata))
  <2>1. CASE n = 0  BY <1>2, <2>1
  <2>2. CASE n # 0
    <3>1. n \in 1..n  BY <1>1, <2>2
    <3>2. QED  BY <3>1, MixedStep
  <2>3. QED  BY <2>1, <2>2
<1>9. QED  BY <1>1, <1>6, <1>7, <1>8

\* A digest is of one sequence of values and one text.
LEMMA DigestsApart ==
  ASSUME NEW metadata \in Seq(Seq(Nat)), NEW values \in Seq(Seq(Nat)), NEW text, NEW other,
         NEW digest, digest = D!NewDigest(metadata, text), digest = D!NewDigest(values, other)
  PROVE  metadata = values /\ text = other
<1> DEFINE s == D!Described(metadata)
           t == D!Described(values)
           x == <<"mix", "message", text>>
           y == <<"mix", "message", other>>
           z == <<"derive", "digest", "output">>
           A == Steps(metadata) \union Steps(values)
           B == A \union {x, y}
<1>1. s \in Seq(A) /\ t \in Seq(A)  BY DescribedIsMixed, SeqGrows
<1>2. Append(Append(s, x), z) = Append(Append(t, y), z)
  BY DEF D!NewDigest, D!Derived, D!Mix
<1> HIDE DEF s, t, A
<1>3. s \in Seq(B) /\ t \in Seq(B) /\ x \in B /\ y \in B  BY <1>1, SeqGrows
<1>4. Append(s, x) \in Seq(B) /\ Append(t, y) \in Seq(B)
  <2> HIDE DEF B, x, y
  <2>1. QED  BY <1>3, AppendProperties
<1>5. s = t /\ x = y
  <2> HIDE DEF B, x, y, z
  <2>1. Append(s, x) = Append(t, y)
    <3> DEFINE u == Append(s, x)
               v == Append(t, y)
    <3>1. u \in Seq(B) /\ v \in Seq(B) /\ Append(u, z) = Append(v, z)  BY <1>2, <1>4
    <3> HIDE DEF u, v
    <3>2. u = v  BY <3>1, AppendsApart
    <3>3. QED  BY <3>2 DEF u, v
  <2>2. QED  BY <1>3, <2>1, AppendsApart
<1>6. text = other  BY <1>5
<1>7. Mixed(metadata, Len(metadata)) = Mixed(values, Len(values))
  BY <1>5, DescribedIsMixed DEF s, t
<1>8. Len(metadata) \in Nat /\ Len(values) \in Nat  OBVIOUS
<1>9. 1..(Len(metadata) + 1) = 1..(Len(values) + 1)
  <2>1. \A m \in Seq(Seq(Nat)) : DOMAIN Mixed(m, Len(m)) = 1..(Len(m) + 1)  BY DEF Mixed
  <2>2. QED  BY <1>7, <2>1
<1>10. Len(metadata) = Len(values)
  <2>1. Len(metadata) + 1 \in 1..(Len(values) + 1) /\ Len(values) + 1 \in 1..(Len(metadata) + 1)
    BY <1>8, <1>9
  <2>2. QED  BY <1>8, <2>1
<1>11. ASSUME NEW j \in 1..Len(metadata) PROVE metadata[j] = values[j]
  <2>1. j + 1 \in 1..(Len(metadata) + 1) /\ j + 1 # 1 /\ j + 1 - 1 = j  BY <1>8
  <2>2. /\ Mixed(metadata, Len(metadata))[j + 1] = <<"mix", "metadata", metadata[j]>>
        /\ Mixed(values, Len(values))[j + 1] = <<"mix", "metadata", values[j]>>
    BY <1>9, <2>1 DEF Mixed
  <2>3. QED  BY <1>7, <2>2
<1>12. metadata = values  BY <1>10, <1>11, SeqEqual
<1>13. QED  BY <1>6, <1>12

\* What a key verifies is its signature of this very text.
LEMMA SignaturesApart ==
  ASSUME NEW key, NEW signer, NEW text, NEW signed,
         S!verify(key, text, S!sign(signer, signed))
  PROVE  key.encoded = signer.encoded /\ text = signed
<1> DEFINE a == <<"new", "domain", "veil.sig">>
           b == <<"mix", "signer", key.encoded>>
           c == <<"mix", "message", text>>
           b2 == <<"mix", "signer", signer.encoded>>
           c2 == <<"mix", "message", signed>>
           A == {a, b, b2, c, c2}
<1>1. S!Transcript(key, text) = S!Transcript(signer, signed)
  BY DEF S!verify, S!sign, S!verify_protocol, S!sign_protocol, S!Ciphertext
<1>2. Append(Append(<<a>>, b), c) = Append(Append(<<a>>, b2), c2)
  BY <1>1 DEF S!Transcript, S!Mix, S!New
<1> HIDE DEF a
<1>3. <<a>> \in Seq(A) /\ b \in A /\ b2 \in A  OBVIOUS
<1>4. b = b2 /\ c = c2
  <2> HIDE DEF b, c, b2, c2, A
  <2>1. Append(<<a>>, b) \in Seq(A) /\ Append(<<a>>, b2) \in Seq(A)
    BY <1>3, AppendProperties
  <2>2. Append(<<a>>, b) = Append(<<a>>, b2) /\ c = c2  BY <1>2, <2>1, AppendsApart
  <2>3. QED  BY <1>3, <2>2, AppendsApart
<1>5. QED  BY <1>4
\* What matched is of what was made: the signature or the digest that was opened is a
\* whole one, so somebody made it, and it is of no other text.
LEMMA MatchedWasMade ==
  ASSUME MemoriesOK, Known, NEW p \in Procs, Running(p), Judged(proc[p]), Done(p),
         proc[p].inv.cmd \in {"verify", "check"}
  PROVE  \E m \in made :
           m[1] = proc[p].other[1].kind /\ m[2] = Whose(proc[p]) /\ m[3] = proc[p].got
<1> DEFINE r == proc[p]
           x == r.other[1]
           c == x.of[1]
<1>1. PICK P, log : KnownBy(P, log)  BY DEF Known
<1>2. /\ r.pos \in Nat
      /\ r.inv.cmd = "verify" => r.pos > 5
      /\ r.inv.cmd = "check" => r.pos > 4
  <2>1. r.pos \in Nat /\ r.pos > LastCall(r.inv)
    BY DEF MemoriesOK, MemoryOK, Done, LastCall
  <2>2. Len(Plan["verify"]) = 5 /\ Len(Plan["check"]) = 4  BY Plans
  <2>3. QED  BY <2>1, <2>2 DEF LastCall
<1>3. /\ Matches(r)
      /\ r.inv.cmd = "verify" => Len(r.peers) >= 1 /\ x.kind = "signature"
      /\ r.inv.cmd = "check" => x.kind = "digest"
  BY <1>2 DEF Judged
<1>4. x \in P
  <2>1. r.other \in Seq(P)  BY <1>1 DEF KnownBy, Contents, Holding
  <2>2. 1 \in 1..Len(r.other)  BY <1>2 DEF Judged
  <2>3. QED  BY <2>1, <2>2
<1>5. PICK m \in made : m[1] = x.kind /\ m[4] = c
  BY <1>1, <1>3, <1>4 DEF KnownBy, Sound, PieceOK, Matches
<1>6. CASE r.inv.cmd = "verify"
  <2> DEFINE key == r.peers[1]
             signer == K!Decoded(m[2])
  <2>1. key = K!Decoded(key.encoded)
    <3>1. 1 \in 1..Len(r.peers)  BY <1>3, <1>6 DEF MemoriesOK, MemoryOK
    <3>2. QED  BY <3>1 DEF Judged
  <2>2. S!verify(key, r.got, c)  BY <1>3, <1>6 DEF Matches
  <2>3. c = S!sign(signer, m[3])  BY <1>3, <1>5, <1>6 DEF Known, MadeOK
  <2>4. key.encoded = signer.encoded /\ r.got = m[3]
    <3> HIDE DEF key, signer, r, c
    <3>1. QED  BY <2>2, <2>3, SignaturesApart
  <2>5. key.encoded = m[2]  BY <2>4 DEF K!Decoded
  <2>6. QED  BY <1>5, <1>6, <2>4, <2>5 DEF Whose
<1>7. CASE r.inv.cmd = "check"
  <2>1. c = D!NewDigest(r.inv.metadata, r.got)  BY <1>3, <1>7 DEF Matches
  <2>2. m[2] \in Seq(Seq(Nat)) /\ c = D!NewDigest(m[2], m[3])
    BY <1>3, <1>5, <1>7 DEF Known, MadeOK
  <2>3. r.inv.metadata \in Seq(Seq(Nat))
    BY InvocationAssumption DEF MemoriesOK, MemoryOK
  <2>4. r.inv.metadata = m[2] /\ r.got = m[3]
    <3> DEFINE metadata == r.inv.metadata
               values == m[2]
               text == r.got
               other == m[3]
    <3>1. /\ metadata \in Seq(Seq(Nat)) /\ values \in Seq(Seq(Nat))
          /\ c = D!NewDigest(metadata, text) /\ c = D!NewDigest(values, other)
      BY <2>1, <2>2, <2>3
    <3> HIDE DEF c, metadata, values, text, other
    <3>2. metadata = values /\ text = other  BY <3>1, DigestsApart
    <3>3. QED  BY <3>2 DEF metadata, values, text, other
  <2>5. QED  BY <1>5, <1>7, <2>4 DEF Whose
<1>8. QED  BY <1>6, <1>7

LEMMA JudgedHolds == Spec => [](MemoriesOK /\ Known /\ AllJudged)
<1>1. Init => AllJudged  BY DEF Init, AllJudged, Running
<1>2. MemoriesOK /\ AllJudged /\ [Next]_vars => AllJudged'  BY JudgedInductive
<1>3. QED  BY <1>1, <1>2, KnownHolds, PTL DEF Spec

\* verify ends with status 0 only over a text that the owner of the key signed, and
\* digest --check over one of which a digest with this metadata was made, whoever
\* wrote the files and whatever happened to them meanwhile (VerifyArgs::run and
\* DigestArgs::run in cli.rs).
THEOREM AcceptedCorrect == Spec => AcceptedWasMade
<1> DEFINE Accepted ==
      \A p \in Procs :
        LET r == proc[p]
        IN  (EndsWith(p, {"ok"}) /\ r.inv.cmd \in {"verify", "check"}) =>
              \E m \in made : m[1] = r.other[1].kind /\ m[2] = Whose(r) /\ m[3] = r.got
<1>1. ASSUME MemoriesOK, Known, AllJudged, [Next]_vars, NEW p \in Procs, EndsWith(p, {"ok"}),
             proc[p].inv.cmd \in {"verify", "check"}
      PROVE  \E m \in made :
               m[1] = proc[p].other[1].kind /\ m[2] = Whose(proc[p]) /\ m[3] = proc[p].got
  <2>1. Running(p) /\ ~Running(p)' /\ ended'.exit = "ok"  BY <1>1 DEF EndsWith
  <2>2. Exit(p)  BY <1>1, <2>1, EndIsStep, OkIsDone
  <2>3. QED  BY <1>1, <2>1, <2>2, MatchedWasMade DEF Exit, AllJudged
<1>2. MemoriesOK /\ Known /\ AllJudged /\ [Next]_vars => [Accepted]_vars  BY <1>1
<1>3. QED  BY <1>2, JudgedHolds, PTL DEF Spec, AcceptedWasMade
-----------------------------------------------------------------------------
(* A command over its own input.                                           *)

\* One piece more.
LEMMA OneMore ==
  ASSUME NEW A, NEW s \in Seq(A), NEW x
  PROVE  /\ Append(s, x) \in Seq(A \union {x})
         /\ Len(s) \in Nat /\ Len(Append(s, x)) = Len(s) + 1
         /\ \A j \in 1..Len(s) : Append(s, x)[j] = s[j]
         /\ Append(s, x)[Len(s) + 1] = x
         /\ \A j \in 1..(Len(s) + 1) : j \in 1..Len(s) \/ j = Len(s) + 1
<1> DEFINE B == A \union {x}
<1>1. s \in Seq(B) /\ x \in B /\ Len(s) \in Nat  BY SeqGrows
<1> HIDE DEF B
<1>2. /\ Append(s, x) \in Seq(B) /\ Len(Append(s, x)) = Len(s) + 1
      /\ \A j \in 1..Len(s) : Append(s, x)[j] = s[j]
      /\ Append(s, x)[Len(s) + 1] = x
  BY <1>1, AppendProperties
<1>3. \A j \in 1..(Len(s) + 1) : j \in 1..Len(s) \/ j = Len(s) + 1  BY <1>1
<1>4. QED  BY <1>1, <1>2, <1>3 DEF B

Begins(s, t) == Len(s) <= Len(t) /\ \A j \in 1..Len(s) : s[j] = t[j]

OfRun(s, run) == \A j \in 1..Len(s) : s[j].run = run

\* How far a command is whose output, which holds c, is its input.
OwnOK(r, c) ==
  /\ r.inv.cmd = "digest" =>
       /\ r.pos <= 1 => r.got = << >>
       /\ r.pos = 2 => c = r.was /\ Begins(r.got, r.was)
       /\ r.pos > 2 => r.got = r.was
  /\ r.inv.cmd = "encrypt" =>
       /\ r.pos <= 5 => r.got = << >>
       /\ r.pos \in {4, 5} => c = << >>
       /\ r.pos = 6 => OfRun(c, r.run)
       /\ OfRun(r.got, r.run)
  /\ r.inv.cmd = "sign" => r.got = << >> /\ (r.pos \in 3..5 => c = << >>)
  /\ r.inv.cmd = "decrypt" => r.got = << >> /\ r.pos <= 5 /\ (r.pos > 2 => c = << >>)
  /\ r.inv.cmd \in {"secret-key", "public-key", "complete"} => r.got = << >> /\ r.was = << >>

Own(p) == proc[p].inv.input = proc[p].inv.output => OwnOK(proc[p], file[proc[p].inv.output])

AllOwn == \A p \in Procs : Running(p) => Own(p)

\* Nothing is read and nothing written that matters to it.
LEMMA NothingRead ==
  ASSUME NEW r, NEW r2, NEW c, NEW c2, OwnOK(r, c), c2 = c \/ c2 = << >>,
         r.pos \in Nat, r2.pos \in {r.pos, r.pos + 1},
         r2.got = r.got, r2.inv = r.inv, r2.run = r.run, r2.was = r.was,
         r.inv.cmd \in {"secret-key", "public-key", "complete"}
  PROVE  OwnOK(r2, c2)
BY DEF OwnOK

LEMMA OwnDigest ==
  ASSUME MemoriesOK, Known, NEW p \in Procs, Running(p), Did(p), Own(p),
         proc[p].inv.input = proc[p].inv.output, proc[p].inv.cmd = "digest"
  PROVE  OwnOK(proc'[p], file'[proc[p].inv.output])
<1> DEFINE r == proc[p]
           r2 == proc'[p]
           path == r.inv.output
           c == file[path]
           c2 == file'[path]
<1>1. OwnOK(r, c) /\ r.pos \in Nat /\ r2.inv = r.inv /\ path \in Paths /\ DOMAIN file = Paths
  BY DidKeep, OutputPath DEF Own, MemoriesOK, TypeOK, MemoryOK, Kept, Writers
<1>2. PICK P : r.got \in Seq(P) /\ c \in Seq(P)
  BY <1>1 DEF Known, KnownBy, Contents, Holding
<1>3. CASE r.pos = 1 /\ DidOpen(p)
  <2>1. r2.pos = 2 /\ r2.got = r.got /\ r2.was = c /\ c2 = c
    BY <1>3 DEF DidOpen, Past, Alike, Fields
  <2>2. r2.got = << >> /\ Len(c) \in Nat  BY <1>1, <1>2, <1>3, <2>1 DEF OwnOK
  <2>3. Begins(r2.got, r2.was)  BY <2>1, <2>2 DEF Begins
  <2>4. QED  BY <1>1, <2>1, <2>3 DEF OwnOK
<1>4. CASE r.pos = 2 /\ DidRead(p)
  <2>1. c = r.was /\ Begins(r.got, r.was) /\ Len(c) \in Nat /\ Len(r.got) \in Nat
    BY <1>1, <1>2, <1>4 DEF OwnOK
  <2>2. CASE More(p) /\ Alike(r, r2, {"got"})
    <3>1. /\ r2.pos = 2 /\ r2.was = r.was /\ c2 = c
          /\ r2.got = Append(r.got, c[Len(r.got) + 1]) /\ Len(r.got) < Len(c)
      BY <1>4, <2>2 DEF DidRead, Alike, Fields, More, Ready, NextPiece
    <3>2. /\ Len(r2.got) = Len(r.got) + 1
          /\ \A j \in 1..Len(r2.got) : r2.got[j] = c[j]
      BY <1>2, <2>1, <3>1, OneMore DEF Begins
    <3>3. Begins(r2.got, r2.was)  BY <2>1, <3>1, <3>2 DEF Begins
    <3>4. QED  BY <1>1, <2>1, <3>1, <3>3 DEF OwnOK
  <2>3. CASE AtEnd(p) /\ Past(p, {})
    <3>1. r2.pos = 3 /\ r2.was = r.was /\ r2.got = r.got /\ Len(r.got) >= Len(c)
      BY <1>4, <2>3 DEF Past, Alike, Fields, AtEnd
    <3>2. Len(r.got) = Len(c) /\ \A j \in 1..Len(r.got) : r.got[j] = c[j]
      BY <2>1, <3>1 DEF Begins
    <3>3. r.got = c  BY <1>2, <3>2, SeqEqual
    <3>4. QED  BY <1>1, <2>1, <3>1, <3>3 DEF OwnOK
  <2>4. QED  BY <1>4, <2>2, <2>3 DEF DidRead
<1>5. CASE r.pos = 3 /\ DidCreate(p)
  <2>1. r2.pos = 4 /\ r2.was = r.was /\ r2.got = r.got
    BY <1>5 DEF DidCreate, Past, Alike, Fields
  <2>2. QED  BY <1>1, <1>5, <2>1 DEF OwnOK
<1>6. CASE r.pos = 4 /\ DidWrite(p)
  <2>1. r2.pos = 5 /\ r2.was = r.was /\ r2.got = r.got
    BY <1>6 DEF DidWrite, Past, Alike, Fields
  <2>2. QED  BY <1>1, <1>6, <2>1 DEF OwnOK
<1>7. QED  BY <1>3, <1>4, <1>5, <1>6, DidByCommand

LEMMA OwnEncrypted ==
  ASSUME NEW r, NEW c, r.inv.cmd = "encrypt",
         r.pos <= 5 => r.got = << >>,
         r.pos \in {4, 5} => c = << >>,
         r.pos = 6 => OfRun(c, r.run),
         OfRun(r.got, r.run)
  PROVE  OwnOK(r, c)
  BY DEF OwnOK

LEMMA OwnEncrypt ==
  ASSUME MemoriesOK, Known, NEW p \in Procs, Running(p), Did(p), Own(p),
         proc[p].inv.input = proc[p].inv.output, proc[p].inv.cmd = "encrypt"
  PROVE  OwnOK(proc'[p], file'[proc[p].inv.output])
<1> DEFINE r == proc[p]
           r2 == proc'[p]
           path == r.inv.output
           c == file[path]
           c2 == file'[path]
<1>1. /\ OwnOK(r, c) /\ r.pos \in Nat /\ r2.inv = r.inv /\ r2.run = r.run
      /\ r.inv \in Invocations /\ path \in Paths /\ DOMAIN file = Paths
  BY DidKeep, OutputPath DEF Own, MemoriesOK, TypeOK, MemoryOK, Kept
<1>2. PICK P : r.got \in Seq(P) /\ c \in Seq(P)
  BY <1>1 DEF Known, KnownBy, Contents, Holding
<1>3. path # Pipe  BY <1>1, CliAssumption
<1>4. CASE \/ r.pos = 1 /\ DidKey(p)
           \/ r.pos = 2 /\ DidOpen(p)
  <2>1. r2.pos \in {2, 3} /\ r2.got = r.got
    BY <1>4 DEF DidKey, DidOpen, Past, Alike, Fields
  <2>2. QED  BY <1>1, <1>4, <2>1 DEF OwnOK
<1>5. CASE r.pos = 3 /\ DidCreate(p)
  <2>1. r2.pos = 4 /\ r2.got = r.got /\ c2 = << >>
    BY <1>1, <1>3, <1>5 DEF DidCreate, Past, Alike, Fields
  <2>2. QED  BY <1>1, <1>5, <2>1 DEF OwnOK
<1>6. CASE r.pos = 4 /\ DidPeers(p)
  <2>1. r2.pos \in {4, 5} /\ r2.got = r.got /\ c2 = c
    BY <1>6 DEF DidPeers, Alike, Fields
  <2>2. QED  BY <1>1, <1>6, <2>1 DEF OwnOK
<1>7. CASE r.pos = 5 /\ DidHeaders(p)
  <2> DEFINE x == Sealed(r, "headers", << >>, 0)
  <2>1. r2.pos = 6 /\ r2.got = r.got /\ c = << >> /\ c2 = Append(c, x) /\ x.run = r.run
    BY <1>1, <1>3, <1>7 DEF DidHeaders, Past, Alike, Fields, Left, OwnOK, Sealed, Piece
  <2> HIDE DEF x
  <2>2. Len(c) = 0 /\ Len(c2) = 1 /\ c2[1].run = r.run  BY <1>2, <2>1, OneMore
  <2>3. OfRun(c2, r.run)  BY <2>2 DEF OfRun
  <2>4. QED  BY <1>1, <2>1, <2>3 DEF OwnOK
<1>8. CASE r.pos = 6 /\ DidBlock(p)
  <2>1. OfRun(c, r.run) /\ OfRun(r.got, r.run)  BY <1>1, <1>8 DEF OwnOK
  <2>2. CASE Past(p, {})
    <3>1. r2.pos = 7 /\ r2.got = r.got  BY <1>8, <2>2 DEF Past, Alike, Fields
    <3>2. QED  BY <1>1, <2>1, <3>1 DEF OwnOK
  <2>3. CASE ~Past(p, {})
    <3> DEFINE y == c[Len(r.got) + 1]
               x == Sealed(r, "block", <<y>>, Len(r.got) + 1)
    <3>1. /\ r2.pos \in {6, 7} /\ r2.got = Append(r.got, y) /\ Len(r.got) < Len(c)
          /\ c2 = Append(c, x) /\ x.run = r.run
      <4>1. /\ More(p) /\ Alike(r, r2, {"got", "held", "pos"}) /\ r2.pos \in {r.pos, r.pos + 1}
            /\ Left(p, Sealed(r, "block", <<NextPiece(p)>>, Len(r.got) + 1))
        BY <1>8, <2>3 DEF DidBlock
      <4>2. NextPiece(p) = y /\ (Ready(p) <=> Len(r.got) < Len(c))
        BY DEF NextPiece, Ready
      <4>3. c2 = Append(c, x)  BY <1>3, <4>1, <4>2 DEF Left
      <4>4. x.run = r.run  BY DEF Sealed, Piece
      <4>5. r2.pos \in {6, 7}  BY <1>8, <4>1
      <4>6. r2.got = Append(r.got, NextPiece(p)) /\ Ready(p)  BY <4>1 DEF More
      <4> HIDE DEF x, y, r, r2, c, c2
      <4>7. QED  BY ONLY <4>2, <4>3, <4>4, <4>5, <4>6 DEF r, r2
    <3> HIDE DEF x
    <3>2. y.run = r.run
      <4>1. Len(r.got) \in Nat /\ Len(c) \in Nat  BY <1>2
      <4>2. Len(r.got) + 1 \in 1..Len(c)  BY <3>1, <4>1
      <4>3. QED  BY <2>1, <4>2 DEF OfRun
    <3> HIDE DEF y
    <3>3. OfRun(r2.got, r.run)  BY <1>2, <2>1, <3>1, <3>2, OneMore DEF OfRun
    <3>4. OfRun(c2, r.run)  BY <1>2, <2>1, <3>1, OneMore DEF OfRun
    <3>5. r2.run = r.run /\ r2.inv.cmd = "encrypt"  BY <1>1
    <3>6. ~(r2.pos <= 5) /\ r2.pos \notin {4, 5}  BY <3>1
    <3> HIDE DEF r, r2, c, c2
    <3>7. OwnOK(r2, c2)  BY ONLY <3>3, <3>4, <3>5, <3>6, OwnEncrypted
    <3>8. QED  BY <1>1, <3>7 DEF r, r2, c2
  <2>4. QED  BY <2>2, <2>3
<1>9. CASE r.pos = 7 /\ DidEnd(p)
  <2>1. r2.pos = 8 /\ r2.got = r.got  BY <1>9 DEF DidEnd, Past, Alike, Fields
  <2>2. QED  BY <1>1, <1>9, <2>1 DEF OwnOK
<1>10. QED  BY <1>4, <1>5, <1>6, <1>7, <1>8, <1>9, DidByCommand
LEMMA OwnSign ==
  ASSUME MemoriesOK, NEW p \in Procs, Running(p), Did(p), Own(p),
         proc[p].inv.input = proc[p].inv.output, proc[p].inv.cmd = "sign"
  PROVE  OwnOK(proc'[p], file'[proc[p].inv.output])
<1> DEFINE r == proc[p]
           r2 == proc'[p]
           path == r.inv.output
           c == file[path]
           c2 == file'[path]
<1>1. /\ OwnOK(r, c) /\ r2.inv = r.inv
      /\ r.inv \in Invocations /\ path \in Paths /\ DOMAIN file = Paths
  BY DidKeep, OutputPath DEF Own, MemoriesOK, TypeOK, MemoryOK, Kept, Writers
<1>2. path # Pipe  BY <1>1, CliAssumption
<1>3. CASE r.pos = 1 /\ DidOpen(p)
  <2>1. r2.pos = 2 /\ r2.got = r.got  BY <1>3 DEF DidOpen, Past, Alike, Fields
  <2>2. QED  BY <1>1, <1>3, <2>1 DEF OwnOK
<1>4. CASE r.pos = 2 /\ DidCreate(p)
  <2>1. r2.pos = 3 /\ r2.got = r.got /\ c2 = << >>
    BY <1>1, <1>2, <1>4 DEF DidCreate, Past, Alike, Fields
  <2>2. QED  BY <1>1, <1>4, <2>1 DEF OwnOK
<1>5. CASE r.pos = 3 /\ DidKey(p)
  <2>1. r2.pos = 4 /\ r2.got = r.got /\ c2 = c  BY <1>5 DEF DidKey, Past, Alike, Fields
  <2>2. QED  BY <1>1, <1>5, <2>1 DEF OwnOK
<1>6. CASE r.pos = 4 /\ DidRead(p)
  <2>1. r.got = << >> /\ c = << >>  BY <1>1, <1>6 DEF OwnOK
  <2>2. ~More(p)  BY <2>1 DEF More, Ready
  <2>3. r2.pos = 5 /\ r2.got = r.got /\ c2 = c
    BY <1>6, <2>2 DEF DidRead, Past, Alike, Fields
  <2>4. QED  BY <1>1, <2>1, <2>3 DEF OwnOK
<1>7. CASE r.pos = 5 /\ DidWrite(p)
  <2>1. r2.pos = 6 /\ r2.got = r.got  BY <1>7 DEF DidWrite, Past, Alike, Fields
  <2>2. QED  BY <1>1, <1>7, <2>1 DEF OwnOK
<1>8. QED  BY <1>3, <1>4, <1>5, <1>6, <1>7, DidByCommand

LEMMA OwnDecrypt ==
  ASSUME MemoriesOK, NEW p \in Procs, Running(p), Did(p), Own(p),
         proc[p].inv.input = proc[p].inv.output, proc[p].inv.cmd = "decrypt"
  PROVE  OwnOK(proc'[p], file'[proc[p].inv.output])
<1> DEFINE r == proc[p]
           r2 == proc'[p]
           path == r.inv.output
           c == file[path]
           c2 == file'[path]
<1>1. /\ OwnOK(r, c) /\ r2.inv = r.inv
      /\ r.inv \in Invocations /\ path \in Paths /\ DOMAIN file = Paths
  BY DidKeep, OutputPath DEF Own, MemoriesOK, TypeOK, MemoryOK, Kept
<1>2. path # Pipe  BY <1>1, CliAssumption
<1>3. CASE r.pos = 1 /\ DidOpen(p)
  <2>1. r2.pos = 2 /\ r2.got = r.got  BY <1>3 DEF DidOpen, Past, Alike, Fields
  <2>2. QED  BY <1>1, <1>3, <2>1 DEF OwnOK
<1>4. CASE r.pos = 2 /\ DidCreate(p)
  <2>1. r2.pos = 3 /\ r2.got = r.got /\ c2 = << >>
    BY <1>1, <1>2, <1>4 DEF DidCreate, Past, Alike, Fields
  <2>2. QED  BY <1>1, <1>4, <2>1 DEF OwnOK
<1>5. CASE r.pos = 3 /\ DidKey(p)
  <2>1. r2.pos = 4 /\ r2.got = r.got /\ c2 = c  BY <1>5 DEF DidKey, Past, Alike, Fields
  <2>2. QED  BY <1>1, <1>5, <2>1 DEF OwnOK
<1>6. CASE r.pos = 4 /\ DidPeers(p)
  <2>1. r2.pos \in {4, 5} /\ r2.got = r.got /\ c2 = c
    BY <1>6 DEF DidPeers, Alike, Fields
  <2>2. QED  BY <1>1, <1>6, <2>1 DEF OwnOK
<1>7. CASE r.pos = 5 /\ DidHeader(p)
  <2>1. r.got = << >> /\ c = << >>  BY <1>1, <1>7 DEF OwnOK
  <2>2. QED  BY <1>7, <2>1 DEF DidHeader, More, Ready
<1>8. ~(r.pos = 6)  BY <1>1 DEF OwnOK
<1>9. QED  BY <1>3, <1>4, <1>5, <1>6, <1>7, <1>8, DidByCommand

\* The commands that read no input.
LEMMA OwnOthers ==
  ASSUME MemoriesOK, NEW p \in Procs, Running(p), Did(p), Own(p),
         proc[p].inv.input = proc[p].inv.output,
         proc[p].inv.cmd \in {"secret-key", "public-key", "complete"}
  PROVE  OwnOK(proc'[p], file'[proc[p].inv.output])
<1> DEFINE r == proc[p]
           r2 == proc'[p]
<1>1. r.got = << >> /\ r.was = << >> /\ r2.inv = r.inv
  BY DidKeep DEF Own, OwnOK, Kept
<1>2. DidKey(p) \/ DidCreate(p) \/ DidWrite(p)  BY DidByCommand
<1>3. r2.got = r.got /\ r2.was = r.was
  BY <1>2 DEF DidKey, DidCreate, DidWrite, Past, Alike, Fields
<1>4. QED  BY <1>1, <1>3 DEF OwnOK

\* Nor are there any others: verify and --check have no output.
LEMMA NoOutput ==
  ASSUME NEW inv \in Invocations, inv.cmd \in {"verify", "check"}
  PROVE  inv.output = NoPath /\ inv.input # NoPath
<1>1. ~Calls(inv, "create")
  <2>1. ASSUME NEW j \in 1..Len(Plan[inv.cmd])
        PROVE  Plan[inv.cmd][j] # "create"
    <3>1. CASE inv.cmd = "verify"
      <4>1. Len(Plan["verify"]) = 5 /\ j \in {1, 2, 3, 4, 5}  BY <2>1, <3>1, Plans
      <4>2. QED  BY <3>1, <4>1, Plans
    <3>2. CASE inv.cmd = "check"
      <4>1. Len(Plan["check"]) = 4 /\ j \in {1, 2, 3, 4}  BY <2>1, <3>2, Plans
      <4>2. QED  BY <3>2, <4>1, Plans
    <3>3. QED  BY <3>1, <3>2
  <2>2. QED  BY <2>1 DEF Calls
<1>2. QED  BY <1>1, InvocationAssumption, CliAssumption

LEMMA OwnInductive ==
  ASSUME MemoriesOK, Known, AllOwn, [Next]_vars
  PROVE  AllOwn'
<1> SUFFICES ASSUME NEW p \in Procs, Running(p)', proc'[p].inv.input = proc'[p].inv.output
             PROVE  OwnOK(proc'[p], file'[proc'[p].inv.output])
  BY DEF AllOwn, Own, OwnOK, OfRun, Begins
<1>1. CASE Running(p) /\ Did(p)
  <2>1. proc'[p].inv = proc[p].inv  BY <1>1, DidKeep DEF Kept
  <2>2. proc[p].inv \in Invocations /\ proc[p].inv.cmd \in Cmds
    BY <1>1, InvocationAssumption DEF MemoriesOK, MemoryOK
  <2>3. proc[p].inv.cmd \notin {"verify", "check"}
    BY <2>1, <2>2, NoOutput
  <2>4. Own(p)  BY <1>1 DEF AllOwn
  <2>5. QED
    BY <1>1, <2>1, <2>2, <2>3, <2>4, OwnDigest, OwnEncrypt, OwnSign, OwnDecrypt, OwnOthers
       DEF Cmds
<1>2. CASE Untouched(p)
  <2>1. proc[p].inv \in Invocations /\ proc'[p] = proc[p] /\ Running(p)
    BY <1>2 DEF Untouched, MemoriesOK, MemoryOK
  <2>2. proc[p].inv.output # NoPath  BY <2>1, InvocationAssumption, CliAssumption
  <2>3. QED  BY <1>2, <2>1, <2>2 DEF AllOwn, Own, Untouched
<1>3. CASE Starts(p)
  <2>1. PICK inv \in Invocations : proc'[p] = Begun(runs + 1, inv)  BY <1>3 DEF Starts
  <2>2. proc'[p].got = << >> /\ proc'[p].was = << >> /\ proc'[p].pos = 1
    BY <2>1 DEF Begun
  <2>3. OfRun(proc'[p].got, proc'[p].run)  BY <2>2 DEF OfRun
  <2>4. QED  BY <2>2, <2>3 DEF OwnOK
<1>4. QED  BY <1>1, <1>2, <1>3, Turns

LEMMA OwnHolds == Spec => [](MemoriesOK /\ AllOwn)
<1>1. Init => AllOwn  BY DEF Init, AllOwn, Running
<1>2. MemoriesOK /\ Known /\ AllOwn /\ [Next]_vars => AllOwn'  BY OwnInductive
<1>3. QED  BY <1>1, <1>2, KnownHolds, PTL DEF Spec

\* A process that is done has read what it was asked to.
LEMMA OwnIsRead ==
  ASSUME MemoriesOK, NEW p \in Procs, Running(p), Own(p), Done(p),
         proc[p].inv.input = proc[p].inv.output
  PROVE  IF proc[p].inv.cmd \in {"encrypt", "sign"}
         THEN \A j \in 1..Len(proc[p].got) : proc[p].got[j].run = proc[p].run
         ELSE proc[p].got = proc[p].was
<1> DEFINE r == proc[p]
<1>1. /\ r.inv \in Invocations /\ r.inv.cmd \in Cmds
      /\ r.pos \in Nat /\ r.pos > Len(Plan[r.inv.cmd])
  BY InvocationAssumption DEF MemoriesOK, MemoryOK, Done
<1>2. r.inv.cmd \notin {"verify", "check"}  BY <1>1, NoOutput
<1>3. /\ r.inv.cmd = "decrypt" => r.pos > 6
      /\ r.inv.cmd = "digest" => r.pos > 4
  <2>1. Len(Plan["decrypt"]) = 6 /\ Len(Plan["digest"]) = 4  BY Plans
  <2>2. QED  BY <1>1, <2>1
<1>4. OwnOK(r, file[r.inv.output])  BY DEF Own
<1>5. CASE r.inv.cmd = "encrypt"  BY <1>4, <1>5 DEF OwnOK, OfRun
<1>6. CASE r.inv.cmd = "sign"  BY <1>4, <1>6 DEF OwnOK
<1>7. CASE r.inv.cmd = "digest"  BY <1>1, <1>3, <1>4, <1>7 DEF OwnOK
<1>8. CASE r.inv.cmd = "decrypt"  BY <1>1, <1>3, <1>4, <1>8 DEF OwnOK
<1>9. CASE r.inv.cmd \in {"secret-key", "public-key", "complete"}  BY <1>4, <1>9 DEF OwnOK
<1>10. QED  BY <1>1, <1>2, <1>5, <1>6, <1>7, <1>8, <1>9 DEF Cmds

\* A command over its own input that ends with status 0 has read what was there, but
\* for encrypt and sign, which truncate it first: they have read nothing of it, and no
\* decrypt over its own input ends so (the order of `create' in each `run' in cli.rs).
THEOREM OwnInputCorrect == Spec => OwnInputIsRead
<1> DEFINE IsRead ==
      \A p \in Procs :
        LET r == proc[p]
        IN  (EndsWith(p, {"ok"}) /\ r.inv.input = r.inv.output) =>
              IF r.inv.cmd \in {"encrypt", "sign"}
              THEN \A j \in 1..Len(r.got) : r.got[j].run = r.run
              ELSE r.got = r.was
<1>1. ASSUME MemoriesOK, AllOwn, [Next]_vars, NEW p \in Procs, EndsWith(p, {"ok"}),
             proc[p].inv.input = proc[p].inv.output
      PROVE  IF proc[p].inv.cmd \in {"encrypt", "sign"}
             THEN \A j \in 1..Len(proc[p].got) : proc[p].got[j].run = proc[p].run
             ELSE proc[p].got = proc[p].was
  <2>1. Running(p) /\ ~Running(p)' /\ ended'.exit = "ok"  BY <1>1 DEF EndsWith
  <2>2. Exit(p)  BY <1>1, <2>1, EndIsStep, OkIsDone
  <2>3. QED  BY <1>1, <2>1, <2>2, OwnIsRead DEF Exit, AllOwn
<1>2. MemoriesOK /\ AllOwn /\ [Next]_vars => [IsRead]_vars  BY <1>1
<1>3. QED  BY <1>2, OwnHolds, PTL DEF Spec, OwnInputIsRead
-----------------------------------------------------------------------------
(* What a command leaves at its output.                                    *)

\* What is there, and what stdout holds back of it.
Shown(r, c) == c \o r.held

HeldBack(r) == r.inv.output # Pipe => r.held = << >>

LEMMA ShownAfter ==
  ASSUME MemoriesOK, Known, NEW p \in Procs, Running(p), proc'[p].inv = proc[p].inv,
         HeldBack(proc[p]), proc[p].inv.output \in Paths
  PROVE  LET path == proc[p].inv.output
             sh == Shown(proc[p], file[path])
             sh2 == Shown(proc'[p], file'[path])
         IN  /\ \E P : sh \in Seq(P)
             /\ \A piece : Left(p, piece) => sh2 = Append(sh, piece) /\ HeldBack(proc'[p])
             /\ (file' = file /\ proc'[p].held = proc[p].held) => sh2 = sh /\ HeldBack(proc'[p])
             /\ DidCreate(p) => /\ sh2 = (IF path = Pipe THEN sh ELSE << >>)
                                /\ HeldBack(proc'[p])
<1> DEFINE path == proc[p].inv.output
           c == file[path]
           held == proc[p].held
           held2 == proc'[p].held
           sh == Shown(proc[p], c)
           sh2 == Shown(proc'[p], file'[path])
<1>1. PICK P : c \in Seq(P) /\ held \in Seq(P)
  BY DEF Known, KnownBy, Contents, Holding
<1>2. sh = c \o held /\ sh2 = file'[path] \o held2 /\ (path # Pipe => held = << >>)
  BY DEF Shown, HeldBack
<1>3. HeldBack(proc'[p]) <=> (path # Pipe => held2 = << >>)  BY DEF HeldBack
<1>4. sh \in Seq(P)  BY <1>1, <1>2, ConcatProperties
<1>5. ASSUME NEW piece, Left(p, piece)
      PROVE  sh2 = Append(sh, piece) /\ HeldBack(proc'[p])
  <2> DEFINE Q == P \union {piece}
  <2>1. /\ c \in Seq(Q) /\ held \in Seq(Q) /\ <<piece>> \in Seq(Q) /\ piece \in Q
    BY <1>1, SeqGrows
  <2>2. /\ held2 = IF path = Pipe THEN <<piece>> ELSE << >>
        /\ file'[path] = IF path = Pipe THEN c \o held ELSE Append(c, piece)
    BY <1>5 DEF Left
  <2> HIDE DEF c, held, held2, path, sh, sh2, Q
  <2>3. CASE path = Pipe
    <3>1. sh2 = sh \o <<piece>>  BY <1>2, <2>2, <2>3
    <3>2. sh \in Seq(Q)  BY <1>4, SeqGrows DEF Q
    <3>3. QED  BY <1>3, <2>1, <2>3, <3>1, <3>2, AppendIsConcat
  <2>4. CASE path # Pipe
    <3>1. sh = c  BY <1>1, <1>2, <2>4, ConcatEmptySeq
    <3>2. Append(c, piece) \in Seq(Q)  BY <2>1, AppendProperties
    <3>3. sh2 = Append(c, piece) \o << >>  BY <1>2, <2>2, <2>4
    <3>4. sh2 = Append(c, piece)  BY <3>2, <3>3, ConcatEmptySeq
    <3>5. QED  BY <1>3, <2>2, <2>4, <3>1, <3>4
  <2>5. QED  BY <2>3, <2>4
<1>6. ASSUME file' = file, held2 = held
      PROVE  sh2 = sh /\ HeldBack(proc'[p])
  BY <1>2, <1>3, <1>6
<1>7. ASSUME DidCreate(p)
      PROVE  sh2 = (IF path = Pipe THEN sh ELSE << >>) /\ HeldBack(proc'[p])
  <2>1. held2 = held  BY <1>7 DEF DidCreate, Past, Alike, Fields
  <2>2. path # Pipe => file'[path] = << >>
    BY <1>7 DEF DidCreate, MemoriesOK, TypeOK
  <2>3. path = Pipe => file' = file  BY <1>7 DEF DidCreate
  <2>4. << >> \o << >> = << >>  OBVIOUS
  <2>5. QED  BY <1>2, <1>3, <2>1, <2>2, <2>3, <2>4
<1>8. QED  BY <1>4, <1>5, <1>6, <1>7

\* There is nothing but its own: it is past `create', or has had a new pipe.
Cleared(r) == r.touched \/ r.inv.output = Pipe

\* What a command has left that writes once.
ResultLeft(r, sh) ==
  r.inv.cmd \in Writers =>
    /\ (r.pos <= LastCall(r.inv) /\ Cleared(r)) => sh = << >>
    /\ r.pos > LastCall(r.inv) => sh = <<Result(r)>>

\* Headers and blocks, and how many pieces more.
BlocksLeft(r, sh, more) ==
  /\ Len(sh) = Len(r.got) + 1 + more
  /\ sh[1] = Sealed(r, "headers", << >>, 0)
  /\ \A j \in 1..Len(r.got) : sh[j + 1] = Sealed(r, "block", <<r.got[j]>>, j)

MessageLeft(r, sh) ==
  r.inv.cmd = "encrypt" =>
    /\ r.pos <= 5 => r.got = << >>
    /\ (r.pos <= 5 /\ Cleared(r)) => sh = << >>
    /\ r.pos \in {6, 7} => BlocksLeft(r, sh, 0)
    /\ r.pos > 7 => /\ BlocksLeft(r, sh, 1)
                    /\ sh[Len(r.got) + 2] = Sealed(r, "end", << >>, Len(r.got) + 1)

\* Headers for its key and from its sender, and after them what follows them.
MessageRead(r) ==
  /\ Len(r.got) >= 1
  /\ OfMessage(r.got[1]) /\ r.got[1].kind = "headers"
  /\ K!pub_key(r.key).encoded \in r.got[1].to[2]
  /\ r.got[1].to[1] = r.peers[1].encoded
  /\ \A j \in 2..Len(r.got) :
       /\ r.got[j].kind \in {"block", "end"} /\ r.got[j].whole
       /\ r.got[j].run = r.got[1].run /\ r.got[j].at = j - 1
       /\ r.got[j].kind = "end" => j = Len(r.got)

TextLeft(r, sh) ==
  r.inv.cmd = "decrypt" =>
    /\ r.pos <= 5 => r.got = << >>
    /\ (r.pos <= 5 /\ Cleared(r)) => sh = << >>
    /\ r.pos > 5 =>
         /\ MessageRead(r)
         /\ Len(sh) = Len(r.got) - (IF r.got[Len(r.got)].kind = "end" THEN 2 ELSE 1)
         /\ \A j \in 1..Len(sh) : sh[j] = r.got[j + 1].of[1]
    /\ r.pos > 6 => r.got[Len(r.got)].kind = "end"

LeftOK(r, c) ==
  /\ HeldBack(r)
  /\ ResultLeft(r, Shown(r, c)) /\ MessageLeft(r, Shown(r, c)) /\ TextLeft(r, Shown(r, c))

Leaves(p) == proc[p].inv.output # NoPath => LeftOK(proc[p], file[proc[p].inv.output])

AllLeave == \A p \in Procs : Running(p) => Leaves(p)

\* Past `create' it has truncated its output.
LEMMA CreatedBefore ==
  ASSUME NEW r, NEW n, MemoryOK(r, n)
  PROVE  /\ r.inv.cmd \in {"secret-key", "public-key", "sign", "decrypt"} /\ r.pos > 2 => r.touched
         /\ r.inv.cmd \in {"encrypt", "digest"} /\ r.pos > 3 => r.touched
         /\ r.inv.cmd = "complete" /\ r.pos > 1 => r.touched
<1>1. r.pos \in Nat /\ (Behind(r, "create") => r.touched)  BY DEF MemoryOK
<1>2. ASSUME r.inv.cmd \in {"secret-key", "public-key", "sign", "decrypt"}, r.pos > 2
      PROVE  r.touched
  <2>1. 2 \in 1..(r.pos - 1)  BY <1>1, <1>2
  <2>2. Plan[r.inv.cmd][2] = "create"  BY <1>2, Plans
  <2>3. QED  BY <1>1, <2>1, <2>2 DEF Behind
<1>3. ASSUME r.inv.cmd \in {"encrypt", "digest"}, r.pos > 3
      PROVE  r.touched
  <2>1. 3 \in 1..(r.pos - 1)  BY <1>1, <1>3
  <2>2. Plan[r.inv.cmd][3] = "create"  BY <1>3, Plans
  <2>3. QED  BY <1>1, <2>1, <2>2 DEF Behind
<1>4. ASSUME r.inv.cmd = "complete", r.pos > 1
      PROVE  r.touched
  <2>1. 1 \in 1..(r.pos - 1)  BY <1>1, <1>4
  <2>2. Plan[r.inv.cmd][1] = "create"  BY <1>4, Plans
  <2>3. QED  BY <1>1, <2>1, <2>2 DEF Behind
<1>5. QED  BY <1>2, <1>3, <1>4
\* What a step does to it, as ShownAfter has it.
Grows(p, sh, sh2) ==
  /\ \E P : sh \in Seq(P)
  /\ \A piece : Left(p, piece) => sh2 = Append(sh, piece)
  /\ (file' = file /\ proc'[p].held = proc[p].held) => sh2 = sh
  /\ DidCreate(p) => sh2 = (IF proc[p].inv.output = Pipe THEN sh ELSE << >>)

LEMMA ResultGoesOn ==
  ASSUME MemoriesOK, NEW p \in Procs, Running(p), Did(p), proc[p].inv.cmd \in Writers,
         NEW sh, NEW sh2, Grows(p, sh, sh2), ResultLeft(proc[p], sh)
  PROVE  ResultLeft(proc'[p], sh2)
<1> DEFINE r == proc[p]
           r2 == proc'[p]
           last == LastCall(r.inv)
<1>1. MemoryOK(r, runs) /\ r.pos \in Nat /\ r2.inv = r.inv
  BY DidKeep DEF MemoriesOK, MemoryOK, Kept
<1>2. /\ last \in Nat
      /\ \/ r.pos < last /\ (DidKey(p) \/ DidOpen(p) \/ DidRead(p))
         \/ r.pos < last /\ DidCreate(p)
         \/ r.pos = last /\ DidWrite(p) /\ r.touched
  <2>1. /\ Len(Plan["secret-key"]) = 3 /\ Len(Plan["public-key"]) = 3
        /\ Len(Plan["sign"]) = 5 /\ Len(Plan["digest"]) = 4 /\ Len(Plan["complete"]) = 2
    BY Plans
  <2>2. CASE r.inv.cmd \in {"secret-key", "public-key"}
    <3>1. last = 3  BY <2>1, <2>2 DEF LastCall
    <3>2. QED  BY <1>1, <2>2, <3>1, DidByCommand, CreatedBefore
  <2>3. CASE r.inv.cmd = "sign"
    <3>1. last = 5  BY <2>1, <2>3 DEF LastCall
    <3>2. QED  BY <1>1, <2>3, <3>1, DidByCommand, CreatedBefore
  <2>4. CASE r.inv.cmd = "digest"
    <3>1. last = 4  BY <2>1, <2>4 DEF LastCall
    <3>2. QED  BY <1>1, <2>4, <3>1, DidByCommand, CreatedBefore
  <2>5. CASE r.inv.cmd = "complete"
    <3>1. last = 2  BY <2>1, <2>5 DEF LastCall
    <3>2. QED  BY <1>1, <2>5, <3>1, DidByCommand, CreatedBefore
  <2>6. QED  BY <2>2, <2>3, <2>4, <2>5 DEF Writers
<1> HIDE DEF last
<1>3. LastCall(r2.inv) = last  BY <1>1 DEF last
<1>4. CASE r.pos < last /\ (DidKey(p) \/ DidOpen(p) \/ DidRead(p))
  <2>1. /\ file' = file /\ r2.held = r.held /\ r2.touched = r.touched
        /\ r2.pos \in {r.pos, r.pos + 1}
    BY <1>4 DEF DidKey, DidOpen, DidRead, Past, Alike, Fields
  <2>2. sh2 = sh /\ r2.pos <= last /\ (Cleared(r2) <=> Cleared(r))
    BY <1>1, <1>2, <1>4, <2>1 DEF Grows, Cleared
  <2>3. r2.pos \in Nat /\ r.pos <= last  BY <1>1, <1>2, <1>4, <2>1
  <2>4. Cleared(r2) => sh2 = << >>  BY <2>2, <2>3 DEF ResultLeft, last
  <2>5. QED  BY <1>2, <1>3, <2>2, <2>3, <2>4 DEF ResultLeft
<1>5. CASE r.pos < last /\ DidCreate(p)
  <2>1. r2.pos \in Nat /\ r2.pos <= last  BY <1>1, <1>2, <1>5 DEF DidCreate, Past
  <2>2. sh2 = << >>
    BY <1>1, <1>2, <1>5 DEF Grows, ResultLeft, Cleared, last
  <2>3. QED  BY <1>1, <1>2, <1>3, <2>1, <2>2 DEF ResultLeft
<1>6. CASE r.pos = last /\ DidWrite(p) /\ r.touched
  <2>1. sh = << >>  BY <1>1, <1>2, <1>6 DEF ResultLeft, Cleared, last
  <2>2. sh2 = Append(sh, Result(r))  BY <1>6 DEF DidWrite, Grows
  <2>3. Append(<< >>, Result(r)) = <<Result(r)>>  OBVIOUS
  <2>4. r2.pos = last + 1 /\ r2.key = r.key /\ r2.got = r.got /\ r2.run = r.run
    BY <1>6 DEF DidWrite, Past, Alike, Fields
  <2>5. Result(r2) = Result(r)  BY <1>1, <2>4 DEF Result
  <2>6. QED  BY <1>1, <1>2, <1>3, <2>1, <2>2, <2>3, <2>4, <2>5 DEF ResultLeft
<1>7. QED  BY <1>2, <1>4, <1>5, <1>6

\* What a piece of a message has of the process that writes it.
LEMMA SealedAlike ==
  ASSUME NEW r, NEW r2, r2.run = r.run, r2.key = r.key, r2.peers = r.peers
  PROVE  \A kind, of, at : Sealed(r2, kind, of, at) = Sealed(r, kind, of, at)
BY DEF Sealed, Route, Receivers

LEMMA BlocksStay ==
  ASSUME NEW r, NEW r2, r2.run = r.run, r2.key = r.key, r2.peers = r.peers, r2.got = r.got,
         NEW sh, NEW more, BlocksLeft(r, sh, more)
  PROVE  BlocksLeft(r2, sh, more)
BY SealedAlike DEF BlocksLeft

LEMMA MessageGoesOn ==
  ASSUME MemoriesOK, NEW p \in Procs, Running(p), Did(p), proc[p].inv.cmd = "encrypt",
         NEW sh, NEW sh2, Grows(p, sh, sh2), MessageLeft(proc[p], sh)
  PROVE  MessageLeft(proc'[p], sh2)
<1> DEFINE r == proc[p]
           r2 == proc'[p]
<1>1. MemoryOK(r, runs) /\ r.pos \in Nat /\ r2.inv = r.inv /\ r2.run = r.run
  BY DidKeep DEF MemoriesOK, MemoryOK, Kept
<1>2. PICK P, S1 : r.got \in Seq(P) /\ sh \in Seq(S1)  BY <1>1 DEF MemoryOK, Grows
<1>3. CASE \/ r.pos = 1 /\ DidKey(p)
           \/ r.pos = 2 /\ DidOpen(p)
           \/ r.pos = 4 /\ DidPeers(p)
  <2>1. /\ file' = file /\ r2.held = r.held /\ r2.touched = r.touched /\ r2.got = r.got
        /\ r2.pos \in 1..5 /\ r.pos <= 5
    BY <1>3 DEF DidKey, DidOpen, DidPeers, Past, Alike, Fields
  <2>2. sh2 = sh /\ (Cleared(r2) <=> Cleared(r))  BY <1>1, <2>1 DEF Grows, Cleared
  <2>3. QED  BY <1>1, <2>1, <2>2 DEF MessageLeft
<1>4. CASE r.pos = 3 /\ DidCreate(p)
  <2>1. r2.pos = 4 /\ r2.got = r.got /\ r.got = << >>
    BY <1>1, <1>4 DEF DidCreate, Past, Alike, Fields, MessageLeft
  <2>2. sh2 = << >>  BY <1>1, <1>4 DEF Grows, MessageLeft, Cleared
  <2>3. QED  BY <1>1, <2>1, <2>2 DEF MessageLeft
<1>5. CASE r.pos = 5 /\ DidHeaders(p)
  <2> DEFINE x == Sealed(r, "headers", << >>, 0)
  <2>1. r.touched  BY <1>1, <1>5, CreatedBefore
  <2>2. sh = << >> /\ r.got = << >>  BY <1>1, <1>5, <2>1 DEF MessageLeft, Cleared
  <2>3. sh2 = Append(sh, x)  BY <1>5 DEF DidHeaders, Grows
  <2>4. r2.pos = 6 /\ r2.got = r.got /\ r2.key = r.key /\ r2.peers = r.peers
    BY <1>5 DEF DidHeaders, Past, Alike, Fields
  <2>5. x = Sealed(r2, "headers", << >>, 0)  BY <1>1, <2>4, SealedAlike
  <2> HIDE DEF x
  <2>6. Len(sh2) = 1 /\ sh2[1] = x  BY <2>2, <2>3
  <2>7. BlocksLeft(r2, sh2, 0)  BY <2>2, <2>4, <2>5, <2>6 DEF BlocksLeft
  <2>8. QED  BY <1>1, <2>4, <2>7 DEF MessageLeft
<1>6. CASE r.pos = 6 /\ DidBlock(p)
  <2>1. BlocksLeft(r, sh, 0)  BY <1>1, <1>6 DEF MessageLeft
  <2>2. CASE Past(p, {}) /\ file' = file
    <3>1. /\ r2.pos = 7 /\ r2.got = r.got /\ r2.key = r.key /\ r2.peers = r.peers
          /\ r2.held = r.held
      BY <1>6, <2>2 DEF Past, Alike, Fields
    <3>2. BlocksLeft(r2, sh2, 0)  BY <1>1, <2>1, <2>2, <3>1, BlocksStay DEF Grows
    <3>3. QED  BY <1>1, <3>1, <3>2 DEF MessageLeft
  <2>3. CASE ~(Past(p, {}) /\ file' = file)
    <3> DEFINE y == NextPiece(p)
               n == Len(r.got) + 1
               x == Sealed(r, "block", <<y>>, n)
    <3>1. /\ r2.got = Append(r.got, y) /\ Alike(r, r2, {"got", "held", "pos"})
          /\ r2.pos \in {6, 7} /\ Left(p, x)
      BY <1>6, <2>3 DEF DidBlock, More
    <3>2. /\ r2.key = r.key /\ r2.peers = r.peers
          /\ sh2 = Append(sh, x)
      BY <3>1 DEF Alike, Fields, Grows
    <3>3. \A kind, of, at : Sealed(r2, kind, of, at) = Sealed(r, kind, of, at)
      BY <1>1, <3>2, SealedAlike
    <3>4. x = Sealed(r2, "block", <<y>>, n)  BY <3>3
    <3> HIDE DEF x, y
    <3>5. /\ Len(r.got) \in Nat /\ Len(r2.got) = n /\ r2.got[n] = y
          /\ \A j \in 1..Len(r.got) : r2.got[j] = r.got[j]
          /\ \A j \in 1..n : j \in 1..Len(r.got) \/ j = n
      BY <1>2, <3>1, OneMore
    <3>6. /\ Len(sh) = n /\ Len(sh2) = n + 1 /\ sh2[n + 1] = x
          /\ \A j \in 1..n : sh2[j] = sh[j]
      <4>1. Len(sh) = n  BY <2>1, <3>5 DEF BlocksLeft
      <4>2. QED  BY <1>2, <3>2, <4>1, OneMore
    <3>7. sh2[1] = Sealed(r2, "headers", << >>, 0)
      <4>1. 1 \in 1..n  BY <3>5
      <4>2. QED  BY <2>1, <3>3, <3>6, <4>1 DEF BlocksLeft
    <3>8. ASSUME NEW j \in 1..n
          PROVE  sh2[j + 1] = Sealed(r2, "block", <<r2.got[j]>>, j)
      <4>1. CASE j \in 1..Len(r.got)
        <5>1. j + 1 \in 1..n  BY <3>5, <4>1
        <5>2. sh2[j + 1] = Sealed(r, "block", <<r.got[j]>>, j)
          BY <2>1, <3>6, <4>1, <5>1 DEF BlocksLeft
        <5>3. QED  BY <3>3, <3>5, <4>1, <5>2
      <4>2. CASE j = n  BY <3>4, <3>5, <3>6, <4>2
      <4>3. QED  BY <3>5, <4>1, <4>2
    <3>9. BlocksLeft(r2, sh2, 0)  BY <3>5, <3>6, <3>7, <3>8 DEF BlocksLeft
    <3>10. QED  BY <1>1, <3>1, <3>9 DEF MessageLeft
  <2>4. QED  BY <2>2, <2>3
<1>7. CASE r.pos = 7 /\ DidEnd(p)
  <2> DEFINE n == Len(r.got) + 1
             x == Sealed(r, "end", << >>, n)
  <2>1. BlocksLeft(r, sh, 0) /\ Len(r.got) \in Nat  BY <1>1, <1>2, <1>7 DEF MessageLeft
  <2>2. /\ r2.pos = 8 /\ r2.got = r.got /\ r2.key = r.key /\ r2.peers = r.peers
        /\ sh2 = Append(sh, x)
    BY <1>7 DEF DidEnd, Past, Alike, Fields, Grows
  <2>3. \A kind, of, at : Sealed(r2, kind, of, at) = Sealed(r, kind, of, at)
    BY <1>1, <2>2, SealedAlike
  <2>4. x = Sealed(r2, "end", << >>, n)  BY <2>3
  <2> HIDE DEF x
  <2>5. /\ Len(sh) = n /\ Len(sh2) = n + 1 /\ sh2[n + 1] = x
        /\ \A j \in 1..n : sh2[j] = sh[j]
    <3>1. Len(sh) = n  BY <2>1 DEF BlocksLeft
    <3>2. QED  BY <1>2, <2>2, <3>1, OneMore
  <2>6. sh2[1] = sh[1] /\ \A j \in 1..Len(r.got) : sh2[j + 1] = sh[j + 1]
    <3>1. 1 \in 1..n /\ \A j \in 1..Len(r.got) : j + 1 \in 1..n  BY <2>1
    <3>2. QED  BY <2>5, <3>1
  <2>7. BlocksLeft(r2, sh2, 1)
    BY <2>1, <2>2, <2>3, <2>5, <2>6 DEF BlocksLeft
  <2>8. sh2[Len(r2.got) + 2] = Sealed(r2, "end", << >>, Len(r2.got) + 1)
    <3>1. n + 1 = Len(r2.got) + 2 /\ n = Len(r2.got) + 1  BY <2>1, <2>2
    <3>2. QED  BY <2>4, <2>5, <3>1
  <2>9. QED  BY <1>1, <2>2, <2>7, <2>8 DEF MessageLeft
<1>8. QED  BY <1>3, <1>4, <1>5, <1>6, <1>7, DidByCommand
\* A block or the end that follows what was read.
LEMMA FollowsRead ==
  ASSUME NEW r, NEW r2, MessageRead(r), NEW P, r.got \in Seq(P), NEW y, Follows(y, r.got),
         r2.got = Append(r.got, y), r2.key = r.key, r2.peers = r.peers,
         r.got[Len(r.got)].kind # "end"
  PROVE  MessageRead(r2)
<1> DEFINE n == Len(r.got) + 1
           got == r.got
           got2 == r2.got
<1>1. /\ Len(got) \in Nat /\ Len(got2) = n /\ got2[n] = y
      /\ \A j \in 1..Len(got) : got2[j] = got[j]
      /\ \A j \in 1..n : j \in 1..Len(got) \/ j = n
  BY OneMore
<1>2. Len(got) >= 1 /\ 1 \in 1..Len(got)  BY <1>1 DEF MessageRead
<1>3. got2[1] = got[1]  BY <1>1, <1>2
<1>4. /\ y.kind \in {"block", "end"} /\ y.whole
      /\ y.run = got[1].run /\ y.at = n - 1
  BY <1>1 DEF Follows
<1>5. ASSUME NEW j \in 2..Len(got2)
      PROVE  /\ got2[j].kind \in {"block", "end"} /\ got2[j].whole
             /\ got2[j].run = got2[1].run /\ got2[j].at = j - 1
             /\ got2[j].kind = "end" => j = Len(got2)
  <2>1. CASE j = n  BY <1>1, <1>3, <1>4, <2>1
  <2>2. CASE j # n
    <3>1. j \in 2..Len(got) /\ j \in 1..Len(got) /\ got2[j] = got[j]  BY <1>1, <2>2
    <3>2. /\ got[j].kind \in {"block", "end"} /\ got[j].whole
          /\ got[j].run = got[1].run /\ got[j].at = j - 1
          /\ got[j].kind = "end" => j = Len(got)
      BY <3>1 DEF MessageRead
    <3>3. got[j].kind # "end"  BY <3>2
    <3>4. QED  BY <1>3, <3>1, <3>2, <3>3
  <2>3. QED  BY <2>1, <2>2
<1>6. Len(got2) >= 1  BY <1>1, <1>2
<1>7. /\ OfMessage(got2[1]) /\ got2[1].kind = "headers"
      /\ K!pub_key(r2.key).encoded \in got2[1].to[2]
      /\ got2[1].to[1] = r2.peers[1].encoded
  BY <1>3 DEF MessageRead
<1>8. QED  BY <1>5, <1>6, <1>7 DEF MessageRead

LEMMA TextGoesOn ==
  ASSUME MemoriesOK, NEW p \in Procs, Running(p), Did(p), proc[p].inv.cmd = "decrypt",
         NEW sh, NEW sh2, Grows(p, sh, sh2), TextLeft(proc[p], sh)
  PROVE  TextLeft(proc'[p], sh2)
<1> DEFINE r == proc[p]
           r2 == proc'[p]
<1>1. MemoryOK(r, runs) /\ r.pos \in Nat /\ r2.inv = r.inv /\ r2.run = r.run
  BY DidKeep DEF MemoriesOK, MemoryOK, Kept
<1>2. PICK P, S1 : r.got \in Seq(P) /\ sh \in Seq(S1)  BY <1>1 DEF MemoryOK, Grows
<1>3. CASE \/ r.pos = 1 /\ DidOpen(p)
           \/ r.pos = 3 /\ DidKey(p)
           \/ r.pos = 4 /\ DidPeers(p)
  <2>1. /\ file' = file /\ r2.held = r.held /\ r2.touched = r.touched /\ r2.got = r.got
        /\ r2.pos \in 1..5 /\ r.pos <= 5
    BY <1>3 DEF DidKey, DidOpen, DidPeers, Past, Alike, Fields
  <2>2. sh2 = sh /\ (Cleared(r2) <=> Cleared(r))  BY <1>1, <2>1 DEF Grows, Cleared
  <2>3. QED  BY <1>1, <2>1, <2>2 DEF TextLeft
<1>4. CASE r.pos = 2 /\ DidCreate(p)
  <2>1. r2.pos = 3 /\ r2.got = r.got /\ r.got = << >>
    BY <1>1, <1>4 DEF DidCreate, Past, Alike, Fields, TextLeft
  <2>2. sh2 = << >>  BY <1>1, <1>4 DEF Grows, TextLeft, Cleared
  <2>3. QED  BY <1>1, <2>1, <2>2 DEF TextLeft
<1>5. CASE r.pos = 5 /\ DidHeader(p)
  <2> DEFINE y == NextPiece(p)
  <2>1. r.touched  BY <1>1, <1>5, CreatedBefore
  <2>2. sh = << >> /\ r.got = << >>  BY <1>1, <1>5, <2>1 DEF TextLeft, Cleared
  <2>3. /\ r2.pos = 6 /\ r2.key = r.key /\ r2.peers = r.peers /\ r2.held = r.held
        /\ r2.got = Append(r.got, y) /\ file' = file
        /\ y.kind = "headers" /\ y.whole
        /\ K!pub_key(r.key).encoded \in y.to[2] /\ y.to[1] = r.peers[1].encoded
    BY <1>5 DEF DidHeader, More, Past, Alike, Fields
  <2> HIDE DEF y
  <2>4. Len(r2.got) = 1 /\ r2.got[1] = y /\ sh2 = << >>  BY <2>2, <2>3 DEF Grows
  <2>5. \A j : ~(j \in 2..Len(r2.got))  BY <2>4
  <2>6. MessageRead(r2)  BY <2>3, <2>4, <2>5 DEF MessageRead, OfMessage
  <2>7. Len(sh2) = 0 /\ r2.got[Len(r2.got)].kind # "end"  BY <2>3, <2>4
  <2>8. QED  BY <1>1, <2>3, <2>4, <2>6, <2>7 DEF TextLeft
<1>6. CASE r.pos = 6 /\ DidMessage(p)
  <2> DEFINE y == NextPiece(p)
             n == Len(r.got)
  <2>1. /\ MessageRead(r) /\ n \in Nat /\ n >= 1 /\ Len(sh) \in Nat
        /\ Len(sh) = n - (IF r.got[n].kind = "end" THEN 2 ELSE 1)
        /\ \A j \in 1..Len(sh) : sh[j] = r.got[j + 1].of[1]
    BY <1>1, <1>2, <1>6 DEF TextLeft, MessageRead
  <2>2. CASE Ended(p) /\ Past(p, {}) /\ file' = file
    <3>1. /\ r2.pos = 7 /\ r2.got = r.got /\ r2.key = r.key /\ r2.peers = r.peers
          /\ sh2 = sh /\ r.got[n].kind = "end"
      BY <1>6, <2>2 DEF Past, Alike, Fields, Grows, Ended
    <3>2. MessageRead(r2)  BY <2>1, <3>1 DEF MessageRead
    <3>3. QED  BY <1>1, <2>1, <3>1, <3>2 DEF TextLeft
  <2>3. CASE ~(Ended(p) /\ Past(p, {}) /\ file' = file)
    <3>1. /\ r2.got = Append(r.got, y) /\ r.got[n].kind # "end" /\ Follows(y, r.got)
          /\ \/ y.kind = "block" /\ Alike(r, r2, {"got", "held"}) /\ Left(p, y.of[1])
             \/ y.kind = "end" /\ Alike(r, r2, {"got"}) /\ file' = file
      BY <1>6, <2>3 DEF DidMessage, More
    <3>2. r2.pos = 6 /\ r2.key = r.key /\ r2.peers = r.peers
      BY <1>6, <3>1 DEF Alike, Fields
    <3>3. \/ y.kind = "block" /\ sh2 = Append(sh, y.of[1])
          \/ y.kind = "end" /\ sh2 = sh
      BY <3>1 DEF Alike, Fields, Grows
    <3> HIDE DEF y
    <3>4. MessageRead(r2)  BY <1>2, <2>1, <3>1, <3>2, FollowsRead
    <3>5. /\ Len(r2.got) = n + 1 /\ r2.got[n + 1] = y
          /\ \A j \in 1..n : r2.got[j] = r.got[j]
      BY <1>2, <3>1, OneMore
    <3>6. Len(sh) = n - 1 /\ \A j \in 1..Len(sh) : j + 1 \in 1..n  BY <2>1, <3>1
    <3>7. \A j \in 1..Len(sh) : sh[j] = r2.got[j + 1].of[1]  BY <2>1, <3>5, <3>6
    <3>8. CASE y.kind = "end" /\ sh2 = sh
      <4>1. Len(sh2) = n + 1 - 2  BY <2>1, <3>6, <3>8
      <4>2. QED  BY <1>1, <3>2, <3>4, <3>5, <3>7, <3>8, <4>1 DEF TextLeft
    <3>9. CASE y.kind = "block" /\ sh2 = Append(sh, y.of[1])
      <4> DEFINE x == y.of[1]
      <4>1. sh2 = Append(sh, x)  BY <3>9
      <4> HIDE DEF x
      <4>2. /\ Len(sh2) = n /\ sh2[n] = x
            /\ \A j \in 1..Len(sh) : sh2[j] = sh[j]
            /\ \A j \in 1..n : j \in 1..Len(sh) \/ j = n
        <5>1. Len(sh) + 1 = n
          <6>1. n \in Nat  BY <2>1
          <6>2. Len(sh) = n - 1  BY <3>6
          <6>3. QED  BY <6>1, <6>2
        <5>2. QED  BY <1>2, <4>1, <5>1, OneMore
      <4>3. \A j \in 1..Len(sh2) : sh2[j] = r2.got[j + 1].of[1]
        BY <3>5, <3>7, <4>2 DEF x
      <4>4. Len(sh2) = n + 1 - 1  BY <2>1, <4>2
      <4>5. QED  BY <1>1, <3>2, <3>4, <3>5, <3>9, <4>3, <4>4 DEF TextLeft
    <3>10. QED  BY <3>3, <3>8, <3>9
  <2>4. QED  BY <2>2, <2>3
<1>7. QED  BY <1>3, <1>4, <1>5, <1>6, DidByCommand

LEMMA LeavesGoesOn ==
  ASSUME MemoriesOK, Known, NEW p \in Procs, Running(p), Did(p), Leaves(p),
         proc[p].inv.output # NoPath
  PROVE  LeftOK(proc'[p], file'[proc[p].inv.output])
<1> DEFINE r == proc[p]
           r2 == proc'[p]
           path == r.inv.output
           sh == Shown(r, file[path])
           sh2 == Shown(r2, file'[path])
<1>1. r2.inv = r.inv /\ r.inv \in Invocations /\ path \in Paths
  BY DidKeep, CliAssumption DEF Kept, MemoriesOK, MemoryOK
<1>2. HeldBack(r) /\ ResultLeft(r, sh) /\ MessageLeft(r, sh) /\ TextLeft(r, sh)
  BY DEF Leaves, LeftOK
<1>3. Grows(p, sh, sh2)  BY <1>1, <1>2, ShownAfter DEF Grows
<1>4. HeldBack(r2)
  <2>1. \/ \E piece : Left(p, piece)
        \/ file' = file /\ r2.held = r.held
        \/ DidCreate(p)
    <3>1. CASE DidKey(p) \/ DidOpen(p) \/ DidPeers(p) \/ DidOther(p) \/ DidRead(p) \/ DidCompare(p)
      BY <3>1 DEF DidKey, DidOpen, DidPeers, DidOther, DidRead, DidCompare, Past, Alike, Fields
    <3>2. CASE DidWrite(p) \/ DidHeaders(p) \/ DidEnd(p)
      BY <3>2 DEF DidWrite, DidHeaders, DidEnd
    <3>3. CASE DidBlock(p)  BY <3>3 DEF DidBlock, Past, Alike, Fields
    <3>4. CASE DidHeader(p)  BY <3>4 DEF DidHeader, Past, Alike, Fields
    <3>5. CASE DidMessage(p)  BY <3>5 DEF DidMessage, Past, Alike, Fields
    <3>6. QED  BY <3>1, <3>2, <3>3, <3>4, <3>5 DEF Did
  <2>2. QED  BY <1>1, <1>2, <2>1, ShownAfter
<1> HIDE DEF sh, sh2
<1>5. ResultLeft(r2, sh2)
  <2>1. CASE r.inv.cmd \in Writers  BY <1>2, <1>3, <2>1, ResultGoesOn
  <2>2. QED  BY <1>1, <2>1 DEF ResultLeft
<1>6. MessageLeft(r2, sh2)
  <2>1. CASE r.inv.cmd = "encrypt"  BY <1>2, <1>3, <2>1, MessageGoesOn
  <2>2. QED  BY <1>1, <2>1 DEF MessageLeft
<1>7. TextLeft(r2, sh2)
  <2>1. CASE r.inv.cmd = "decrypt"  BY <1>2, <1>3, <2>1, TextGoesOn
  <2>2. QED  BY <1>1, <2>1 DEF TextLeft
<1>8. QED  BY <1>4, <1>5, <1>6, <1>7 DEF LeftOK, sh2
LEMMA LeavesInductive ==
  ASSUME MemoriesOK, Known, AllLeave, [Next]_vars
  PROVE  AllLeave'
<1> SUFFICES ASSUME NEW p \in Procs, Running(p)', proc'[p].inv.output # NoPath
             PROVE  LeftOK(proc'[p], file'[proc'[p].inv.output])
  BY DEF AllLeave, Leaves, LeftOK, HeldBack, Shown, ResultLeft, MessageLeft, TextLeft, Cleared,
         BlocksLeft, MessageRead
<1>1. CASE Running(p) /\ Did(p)
  <2>1. proc'[p].inv = proc[p].inv  BY <1>1, DidKeep DEF Kept
  <2>2. QED  BY <1>1, <2>1, LeavesGoesOn DEF AllLeave
<1>2. CASE Untouched(p)  BY <1>2 DEF AllLeave, Leaves, Untouched
<1>3. CASE Starts(p)
  <2>1. PICK inv \in Invocations :
          proc'[p] = Begun(runs + 1, inv) /\ (inv.output = Pipe => file'[Pipe] = << >>)
    BY <1>3 DEF Starts
  <2> DEFINE r2 == proc'[p]
             sh2 == Shown(r2, file'[r2.inv.output])
  <2>2. /\ r2.inv = inv /\ r2.pos = 1 /\ r2.got = << >> /\ r2.held = << >> /\ r2.touched = FALSE
    BY <2>1 DEF Begun
  <2>3. HeldBack(r2)  BY <2>2 DEF HeldBack
  <2>4. Cleared(r2) => sh2 = << >>
    <3>1. Cleared(r2) => file'[r2.inv.output] = << >>  BY <2>1, <2>2 DEF Cleared
    <3>2. << >> \o << >> = << >>  OBVIOUS
    <3>3. QED  BY <2>2, <3>1, <3>2 DEF Shown
  <2>5. LastCall(r2.inv) \in Nat /\ LastCall(r2.inv) >= 2
    BY <2>2, InvocationAssumption, PlanLengths DEF LastCall
  <2> HIDE DEF r2, sh2
  <2>6. ResultLeft(r2, sh2)  BY <2>2, <2>4, <2>5 DEF ResultLeft
  <2>7. MessageLeft(r2, sh2)  BY <2>2, <2>4 DEF MessageLeft
  <2>8. TextLeft(r2, sh2)  BY <2>2, <2>4 DEF TextLeft
  <2>9. QED  BY <2>3, <2>6, <2>7, <2>8 DEF LeftOK, r2, sh2
<1>4. QED  BY <1>1, <1>2, <1>3, Turns

LEMMA LeavesHold == Spec => [](MemoriesOK /\ Known /\ AllLeave)
<1>1. Init => AllLeave  BY DEF Init, AllLeave, Running
<1>2. MemoriesOK /\ Known /\ AllLeave /\ [Next]_vars => AllLeave'  BY LeavesInductive
<1>3. QED  BY <1>1, <1>2, KnownHolds, PTL DEF Spec

\* What main flushes when it returns.
LEMMA ExitFlushes ==
  ASSUME MemoriesOK, Known, NEW p \in Procs, Exit(p), ~ended'.lost,
         proc[p].inv.output \in Paths
  PROVE  file'[proc[p].inv.output] = Shown(proc[p], file[proc[p].inv.output])
<1> DEFINE r == proc[p]
           path == r.inv.output
           c == file[path]
<1>1. PICK left \in {<< >>, r.held} : Ends(p, "ok", NoPath, left)
  BY DEF Exit, Fails, FailsAt
<1>2. ~(r.held # << >> /\ left = << >>)  BY <1>1 DEF Ends, Ending
<1>3. left = r.held  BY <1>1, <1>2
<1>4. PICK P : c \in Seq(P)  BY DEF Known, KnownBy, Contents
<1>5. CASE left = << >>
  <2>1. file' = file  BY <1>1, <1>5 DEF Ends
  <2>2. c \o << >> = c  BY <1>4, ConcatEmptySeq
  <2>3. QED  BY <1>3, <1>5, <2>1, <2>2 DEF Shown
<1>6. CASE left # << >>
  <2>1. file' = [file EXCEPT ![path] = @ \o left] /\ DOMAIN file = Paths
    BY <1>1, <1>6 DEF Ends, MemoriesOK, TypeOK
  <2>2. QED  BY <1>3, <2>1 DEF Shown
<1>7. QED  BY <1>5, <1>6

\* All blocks of the text it read, for all its receivers.
LEMMA MessagePromised ==
  ASSUME NEW r, NEW c, NEW P, r.got \in Seq(P), BlocksLeft(r, c, 1),
         c[Len(r.got) + 2] = Sealed(r, "end", << >>, Len(r.got) + 1)
  PROVE  /\ \A to \in Receivers(r) : IsMessage(c, K!pub_key(r.key).encoded, to)
         /\ TextOf(c) = r.got
<1> DEFINE n == Len(r.got)
           from == K!pub_key(r.key).encoded
<1>1. n \in Nat /\ Len(c) = n + 2  BY DEF BlocksLeft
<1>2. ASSUME NEW j \in 1..Len(c), NEW to \in Receivers(r)
      PROVE  /\ c[j].kind = IF j = 1 THEN "headers" ELSE IF j = Len(c) THEN "end" ELSE "block"
             /\ c[j].whole /\ c[j].to[1] = from /\ to \in c[j].to[2]
             /\ c[j].run = c[1].run /\ c[j].at = j - 1
  <2>1. ASSUME NEW kind, NEW of, NEW at, NEW x, x = Sealed(r, kind, of, at)
        PROVE  /\ x.kind = kind /\ x.of = of /\ x.at = at /\ x.whole /\ x.run = r.run
               /\ x.to[1] = from /\ to \in x.to[2]
    BY <2>1 DEF Sealed, Piece, Route
  <2>2. c[1] = Sealed(r, "headers", << >>, 0)  BY DEF BlocksLeft
  <2>3. c[1].run = r.run  BY <2>1, <2>2
  <2>4. CASE j = 1  BY <2>1, <2>2, <2>4
  <2>5. CASE j = Len(c)
    <3>1. c[j] = Sealed(r, "end", << >>, n + 1)  BY <1>1, <2>5
    <3>2. j # 1 /\ j - 1 = n + 1  BY <1>1, <2>5
    <3>3. QED  BY <2>1, <2>3, <2>5, <3>1, <3>2
  <2>6. CASE j # 1 /\ j # Len(c)
    <3> DEFINE k == j - 1
    <3>1. k \in 1..n /\ k + 1 = j  BY <1>1, <2>6
    <3>2. c[j] = Sealed(r, "block", <<r.got[k]>>, k)  BY <3>1 DEF BlocksLeft
    <3>3. QED  BY <2>1, <2>3, <2>6, <3>2
  <2>7. QED  BY <2>4, <2>5, <2>6
<1>3. ASSUME NEW j \in 1..n PROVE c[j + 1].of[1] = r.got[j]
  <2>1. c[j + 1] = Sealed(r, "block", <<r.got[j]>>, j)  BY <1>3 DEF BlocksLeft
  <2>2. QED  BY <2>1 DEF Sealed, Piece
<1>4. TextOf(c) = r.got
  <2>1. Len(c) - 2 = n  BY <1>1
  <2>2. TextOf(c) = [j \in 1..n |-> r.got[j]]  BY <1>3, <2>1 DEF TextOf
  <2>3. r.got = [j \in 1..n |-> r.got[j]]  OBVIOUS
  <2>4. QED  BY <2>2, <2>3
<1>5. ASSUME NEW to \in Receivers(r) PROVE IsMessage(c, from, to)
  <2>1. Len(c) >= 2  BY <1>1
  <2>2. QED  BY <1>2, <2>1 DEF IsMessage
<1>6. QED  BY <1>4, <1>5
\* The text of one message, from the sender and for the key that decrypt was given.
WholeText(r, c) ==
  /\ r.got[Len(r.got)].kind = "end" /\ MessageRead(r)
  /\ Len(c) = Len(r.got) - 2
  /\ \A j \in 1..Len(c) : c[j] = r.got[j + 1].of[1]

TextMade(r, c) ==
  \E m \in made : /\ m[1] = "message" /\ m[2][1] = r.peers[1].encoded
                  /\ K!pub_key(r.key).encoded \in m[2][2] /\ m[3] = c

LEMMA TextPromised ==
  ASSUME NEW r, NEW P, NEW log, Sound(P, log, runs, made), r.got \in Seq(P),
         NEW c \in Seq(P), WholeText(r, c)
  PROVE  TextMade(r, c)
<1> DEFINE got == r.got
           n == Len(got)
           x == got[n]
           m == log[x.run]
<1>0. /\ x.kind = "end" /\ MessageRead(r) /\ Len(c) = n - 2
      /\ \A j \in 1..Len(c) : c[j] = got[j + 1].of[1]
  BY DEF WholeText
<1>1. n \in Nat /\ n >= 2 /\ n \in 2..n /\ 1 \in 1..n /\ n \in 1..n
  <2>1. n \in Nat /\ n >= 1 /\ got[1].kind = "headers"  BY <1>0 DEF MessageRead
  <2>2. n # 1  BY <1>0, <2>1
  <2> HIDE DEF n
  <2>3. QED  BY <2>1, <2>2
<1>2. \A j \in 2..n :
        /\ got[j].kind \in {"block", "end"} /\ got[j].whole
        /\ got[j].run = got[1].run /\ got[j].at = j - 1
        /\ got[j].kind = "end" => j = n
  BY <1>0 DEF MessageRead
<1>3. \A j \in 1..n : got[j] \in P  BY <1>1
<1>4. \A j \in 1..n : OfMessage(got[j]) => PieceOf(got[j], log[got[j].run])
  BY <1>3 DEF Sound, PieceOK
<1>5. x.run = got[1].run /\ x.at = n - 1 /\ x.kind = "end" /\ OfMessage(x)
  BY <1>0, <1>1, <1>2 DEF OfMessage
<1>6. m \in made /\ m[1] = "message" /\ m[3] \in Seq(P) /\ x.at = Len(m[3]) + 1
  <2>1. PieceOK(x, P, log, runs, made)  BY <1>1, <1>3 DEF Sound
  <2>2. PieceOf(x, m) /\ m[1] = "message" /\ m[3] \in Seq(P) /\ m \in made
    BY <1>5, <2>1 DEF PieceOK
  <2>3. QED  BY <1>5, <2>2 DEF PieceOf
<1>7. m[2][1] = r.peers[1].encoded /\ K!pub_key(r.key).encoded \in m[2][2]
  <2>1. OfMessage(got[1])  BY <1>0 DEF MessageRead
  <2>2. got[1].to = m[2]  BY <1>1, <1>4, <1>5, <2>1 DEF PieceOf
  <2>3. QED  BY <1>0, <2>2 DEF MessageRead
<1>8. Len(m[3]) \in Nat /\ Len(m[3]) = n - 2
  <2> DEFINE text == m[3]
  <2>1. text \in Seq(P) /\ n - 1 = Len(text) + 1 /\ n \in Nat  BY <1>1, <1>5, <1>6
  <2> HIDE DEF text, n
  <2>2. Len(text) \in Nat  BY <2>1, LenProperties
  <2>3. Len(text) = n - 2  BY <2>1, <2>2
  <2>4. QED  BY <2>2, <2>3 DEF text
<1>9. ASSUME NEW j \in 1..Len(c) PROVE c[j] = m[3][j]
  <2> DEFINE y == got[j + 1]
  <2>1. j + 1 \in 2..n /\ j + 1 \in 1..n /\ j + 1 # n /\ j + 1 - 1 = j  BY <1>0, <1>1
  <2>2. y.kind = "block" /\ OfMessage(y) /\ y.run = x.run /\ y.at = j
    BY <1>2, <1>5, <2>1 DEF OfMessage
  <2>3. PieceOf(y, m)  BY <1>4, <2>1, <2>2
  <2>4. y.of = <<m[3][j]>>  BY <2>2, <2>3 DEF PieceOf
  <2>5. QED  BY <1>0, <2>4
<1>10. m[3] = c
  <2> DEFINE text == m[3]
  <2>1. text \in Seq(P) /\ Len(text) = Len(c) /\ \A j \in 1..Len(c) : c[j] = text[j]
    BY <1>0, <1>6, <1>8, <1>9
  <2> HIDE DEF text, m
  <2>2. text = c  BY <2>1, SeqEqual
  <2>3. QED  BY <2>2 DEF text
<1>11. QED  BY <1>6, <1>7, <1>10 DEF TextMade

\* decrypt past its last call has read a whole message, and its text is what it left.
LEMMA TextRead ==
  ASSUME NEW r, NEW c, TextLeft(r, c), r.inv.cmd = "decrypt", r.pos \in Nat, r.pos > 6
  PROVE  WholeText(r, c)
<1>1. r.pos > 5  OBVIOUS
<1>2. r.got[Len(r.got)].kind = "end"  BY DEF TextLeft
<1>3. QED  BY <1>1, <1>2 DEF TextLeft, WholeText

LEMMA PromiseKept ==
  ASSUME MemoriesOK, Known, NEW p \in Procs, Running(p), Leaves(p), Done(p),
         proc[p].inv.output # NoPath,
         NEW c, c = Shown(proc[p], file[proc[p].inv.output])
  PROVE  Promised(proc[p], c)
<1> DEFINE r == proc[p]
<1>1. /\ r.inv \in Invocations /\ r.inv.cmd \in Cmds /\ r.inv.output \in Paths
      /\ r.pos \in Nat /\ r.pos > LastCall(r.inv)
  BY InvocationAssumption, CliAssumption DEF MemoriesOK, MemoryOK, Done, LastCall
<1>2. /\ r.inv.cmd = "encrypt" => r.pos > 7
      /\ r.inv.cmd = "decrypt" => r.pos > 6
  <2>1. Len(Plan["encrypt"]) = 7 /\ Len(Plan["decrypt"]) = 6  BY Plans
  <2>2. QED  BY <1>1, <2>1 DEF LastCall
<1>3. ResultLeft(r, c) /\ MessageLeft(r, c) /\ TextLeft(r, c)  BY DEF Leaves, LeftOK
<1>4. PICK P, log : KnownBy(P, log)  BY DEF Known
<1>5. /\ Sound(P, log, runs, made)
      /\ r.got \in Seq(P) /\ r.held \in Seq(P) /\ file[r.inv.output] \in Seq(P)
  BY <1>1, <1>4 DEF KnownBy, Contents, Holding
<1>6. c \in Seq(P)  BY <1>5, ConcatProperties DEF Shown
<1>7. CASE r.inv.cmd = "encrypt"
  <2>1. /\ BlocksLeft(r, c, 1)
        /\ c[Len(r.got) + 2] = Sealed(r, "end", << >>, Len(r.got) + 1)
    BY <1>1, <1>2, <1>3, <1>7 DEF MessageLeft
  <2>2. /\ \A to \in Receivers(r) : IsMessage(c, K!pub_key(r.key).encoded, to)
        /\ TextOf(c) = r.got
    BY <1>5, <2>1, MessagePromised
  <2>3. QED  BY <1>7, <2>2 DEF Promised
<1>8. CASE r.inv.cmd = "decrypt"
  <2>1. r.pos \in Nat /\ r.pos > 6  BY <1>1, <1>2, <1>8
  <2>2. r.got \in Seq(P) /\ TextLeft(r, c)  BY <1>3, <1>5
  <2>3. r.inv.cmd = "decrypt"  BY <1>8
  <2> HIDE DEF r
  <2>4. WholeText(r, c)  BY <2>1, <2>2, <2>3, TextRead
  <2>5. TextMade(r, c)
    BY <1>5, <1>6, <2>2, <2>4, TextPromised
  <2>6. QED  BY <2>3, <2>5 DEF Promised, TextMade, r
<1>9. CASE r.inv.cmd \in Writers
  <2>1. c = <<Result(r)>>  BY <1>1, <1>3, <1>9 DEF ResultLeft
  <2>2. QED  BY <1>9, <2>1 DEF Promised, Writers
<1>10. r.inv.cmd \notin {"verify", "check"}  BY <1>1, NoOutput
<1>11. QED  BY <1>1, <1>7, <1>8, <1>9, <1>10 DEF Cmds, Writers

\* A command that ends with status 0 has left at its path what it was asked for: one
\* key, signature or digest; a message of all it read, for all its receivers; or the
\* whole text of one message that the sender wrote for this key.  Unless the last flush
\* of stdout failed (each `run' in cli.rs, and main, which looks at no flush).
THEOREM OutputCorrect == Spec => OutputIsComplete
<1> DEFINE Complete ==
      \A p \in Procs :
        (EndsWith(p, {"ok"}) /\ ~ended'.lost /\ proc[p].inv.output # NoPath)
          => Promised(proc[p], file'[proc[p].inv.output])
<1>1. ASSUME MemoriesOK, Known, AllLeave, [Next]_vars, NEW p \in Procs, EndsWith(p, {"ok"}),
             ~ended'.lost, proc[p].inv.output # NoPath
      PROVE  Promised(proc[p], file'[proc[p].inv.output])
  <2>1. Running(p) /\ ~Running(p)' /\ ended'.exit = "ok"  BY <1>1 DEF EndsWith
  <2>2. Exit(p)  BY <1>1, <2>1, EndIsStep, OkIsDone
  <2>3. proc[p].inv.output \in Paths
    BY <1>1, <2>1, CliAssumption DEF MemoriesOK, MemoryOK
  <2>4. file'[proc[p].inv.output] = Shown(proc[p], file[proc[p].inv.output])
    BY <1>1, <2>2, <2>3, ExitFlushes
  <2>5. QED  BY <1>1, <2>1, <2>2, <2>4, PromiseKept DEF Exit, AllLeave
<1>2. MemoriesOK /\ Known /\ AllLeave /\ [Next]_vars => [Complete]_vars  BY <1>1
<1>3. QED  BY <1>2, LeavesHold, PTL DEF Spec, OutputIsComplete
-----------------------------------------------------------------------------
(* What is complete is accepted.                                           *)

\* The piece at each place of a message.
LEMMA MessagePiece ==
  ASSUME NEW c, NEW from, NEW to, IsMessage(c, from, to), NEW j \in 1..Len(c)
  PROVE  /\ c[j].kind = (IF j = 1 THEN "headers" ELSE IF j = Len(c) THEN "end" ELSE "block")
         /\ c[j].whole /\ c[j].to[1] = from /\ to \in c[j].to[2]
         /\ c[j].run = c[1].run /\ c[j].at = j - 1
BY DEF IsMessage

\* The header for its key is where decrypt looks for it.
LEMMA HeaderIsFound ==
  ASSUME NEW p, DecryptHeader(p), ended'.exit \in Verdicts,
         Len(proc[p].got) = 0, NEW c, c = file[proc[p].inv.input], Len(c) \in Nat
  PROVE  ~IsMessage(c, proc[p].peers[1].encoded, K!pub_key(proc[p].key).encoded)
<1> DEFINE from == proc[p].peers[1].encoded
           to == K!pub_key(proc[p].key).encoded
<1>1. SUFFICES ASSUME IsMessage(c, from, to) PROVE FALSE  OBVIOUS
<1>2. Len(c) >= 2 /\ 1 \in 1..Len(c)
  <2>1. Len(c) >= 2  BY <1>1 DEF IsMessage
  <2>2. QED  BY <2>1
<1>3. NextPiece(p) = c[1]  BY DEF NextPiece
<1>4. /\ NextPiece(p).kind = "headers" /\ NextPiece(p).whole
      /\ to \in NextPiece(p).to[2] /\ NextPiece(p).to[1] = from
  BY <1>1, <1>2, <1>3, MessagePiece
<1>5. ~AtEnd(p)  BY <1>2 DEF AtEnd
<1>6. ~InputFails(p)
  BY FaultIsNoVerdict DEF InputFails, Verdicts
<1>7. ended' # None  BY NoneIsNoVerdict
<1>8. QED  BY <1>4, <1>5, <1>6, <1>7 DEF DecryptHeader, GoesOn

\* It has not read what is there now.
Departs(got, c) == \E j \in 1..Len(got) : j > Len(c) \/ got[j] # c[j]

\* And so is each piece whose turn it is, up to the end.
LEMMA PieceIsOpened ==
  ASSUME NEW p, DecryptBlock(p), ended'.exit \in Verdicts,
         NEW got, got = proc[p].got, Len(got) \in Nat, Len(got) >= 1,
         NEW c, c = file[proc[p].inv.input], Len(c) \in Nat,
         NEW from, NEW to, IsMessage(c, from, to)
  PROVE  Departs(got, c)
<1> DEFINE n == Len(got)
<1>1. SUFFICES ASSUME \A j \in 1..n : j <= Len(c) /\ got[j] = c[j] PROVE FALSE  BY DEF Departs
<1>2. /\ n \in 1..n /\ 1 \in 1..n /\ n <= Len(c) /\ n \in 1..Len(c)
      /\ got[n] = c[n] /\ got[1] = c[1]
  BY <1>1
<1>3. Len(c) >= 2  BY DEF IsMessage
<1>4. ASSUME Ready(p) PROVE Follows(NextPiece(p), got) /\ NextPiece(p).whole /\ got[n].kind # "end"
  <2>1. n + 1 \in 1..Len(c) /\ n + 1 # 1 /\ n # Len(c) /\ n + 1 - 1 = n
    BY <1>2, <1>4 DEF Ready
  <2>2. NextPiece(p) = c[n + 1]  BY DEF NextPiece
  <2>3. /\ NextPiece(p).kind \in {"block", "end"} /\ NextPiece(p).whole
        /\ NextPiece(p).run = c[1].run /\ NextPiece(p).at = n
    BY <2>1, <2>2, MessagePiece
  <2>4. c[n].kind \in {"headers", "block"}  BY <1>2, <2>1, MessagePiece
  <2>5. QED  BY <1>2, <2>3, <2>4 DEF Follows
<1>5. ASSUME AtEnd(p) PROVE Ended(p)
  <2>1. n = Len(c) /\ n # 1  BY <1>2, <1>3, <1>5 DEF AtEnd
  <2>2. c[n].kind = "end"
    <3>1. Len(c) \in 1..Len(c) /\ Len(c) # 1
      <4>1. \A k \in Nat : k >= 2 => k \in 1..k /\ k # 1  OBVIOUS
      <4>2. QED  BY <1>3, <4>1
    <3>2. c[Len(c)].kind = "end"  BY <3>1, MessagePiece
    <3>3. QED  BY <2>1, <3>2
  <2>3. QED  BY <1>2, <1>5, <2>2 DEF Ended
<1>6. ~InputFails(p)  BY FaultIsNoVerdict DEF InputFails, Verdicts
<1>7. ASSUME NEW piece, WriteIo(p, piece) PROVE FALSE
  <2>1. "WriteIo" \notin Verdicts  BY DEF Verdicts
  <2>2. QED  BY <1>7, <2>1, FaultIsNoVerdict DEF WriteIo
<1>8. ended' # None  BY NoneIsNoVerdict
<1>9. QED  BY <1>4, <1>5, <1>6, <1>7, <1>8 DEF DecryptBlock, GoesOn, Writes

LEMMA MessageIsAccepted ==
  ASSUME MemoriesOK, Known, NEW p \in Procs, Running(p), Leaves(p), Step(p) \/ Kill(p),
         ended'.exit \in {"InvalidCiphertext", "UnexpectedEof", "panic"},
         proc[p].inv.cmd = "decrypt",
         IsMessage(file[proc[p].inv.input], proc[p].peers[1].encoded,
                   K!pub_key(proc[p].key).encoded)
  PROVE  Departs(proc[p].got, file[proc[p].inv.input])
<1> DEFINE r == proc[p]
           c == file[r.inv.input]
<1>1. ended'.exit \in Verdicts /\ ended'.exit # "ok"  BY DEF Verdicts
<1>2. r.inv \in Invocations /\ r.inv.output \in Paths /\ r.inv.input \in Paths
  <2>1. r.inv \in Invocations  BY DEF MemoriesOK, MemoryOK
  <2>2. QED  BY <2>1, OutputPath, InvocationAssumption
<1>3. Len(c) \in Nat /\ Len(r.got) \in Nat
  BY <1>2 DEF Known, KnownBy, Contents, Holding
<1>4. TextLeft(r, Shown(r, file[r.inv.output]))
  BY <1>2, CliAssumption DEF Leaves, LeftOK
<1>5. DecryptHeader(p) \/ DecryptBlock(p)
  <2>1. ~Exit(p)  BY <1>1, FailsWith DEF Exit, Fails
  <2>2. ~Compare(p)
    <3>1. SUFFICES ASSUME At(p, "compare") PROVE FALSE  BY DEF Compare
    <3>2. QED  BY <3>1, StandsAt, Places
  <2>3. QED  BY <1>1, <2>1, <2>2, VerdictCall
<1>6. CASE DecryptHeader(p)
  <2>1. r.pos = 5  BY <1>6, StandsAt, Places DEF DecryptHeader
  <2>2. Len(r.got) = 0  BY <1>4, <2>1 DEF TextLeft
  <2>3. QED  BY <1>1, <1>3, <1>6, <2>2, HeaderIsFound
<1>7. CASE DecryptBlock(p)
  <2>1. r.pos = 6  BY <1>7, StandsAt, Places DEF DecryptBlock
  <2>2. Len(r.got) >= 1
    <3>1. MessageRead(r)  BY <1>4, <2>1 DEF TextLeft
    <3>2. QED  BY <3>1 DEF MessageRead
  <2>3. QED  BY <1>1, <1>3, <1>7, <2>2, PieceIsOpened
<1>8. QED  BY <1>5, <1>6, <1>7

\* What was signed verifies, and a digest is that of its text.
LEMMA MismatchWasNotMade ==
  ASSUME MemoriesOK, Known, NEW p \in Procs, Judged(proc[p]), Step(p) \/ Kill(p),
         ended'.exit \in {"BadSignature", "DigestMismatch"}, proc[p].other[1].whole
  PROVE  <<proc[p].other[1].kind, Whose(proc[p]), proc[p].got, proc[p].other[1].of[1]>> \notin made
<1> DEFINE r == proc[p]
           x == r.other[1]
           m == <<x.kind, Whose(r), r.got, x.of[1]>>
<1>1. At(p, "compare") /\ ~Matches(r)  BY MismatchIsCompared
<1>2. \/ r.inv.cmd = "verify" /\ r.pos = 5
      \/ r.inv.cmd = "check" /\ r.pos = 4
  BY <1>1, StandsAt, Places
<1>3. SUFFICES ASSUME m \in made PROVE FALSE  OBVIOUS
<1>4. CASE r.inv.cmd = "verify"
  <2> DEFINE key == r.peers[1]
  <2>1. Len(r.peers) >= 1 /\ x.kind = "signature"  BY <1>2, <1>4 DEF Judged
  <2>2. key = K!Decoded(key.encoded)
    <3>1. 1 \in 1..Len(r.peers)  BY <2>1 DEF MemoriesOK, MemoryOK
    <3>2. QED  BY <3>1 DEF Judged
  <2>3. x.of[1] = S!sign(K!Decoded(Whose(r)), r.got)
    BY <1>3, <2>1 DEF Known, MadeOK
  <2>4. x.of[1] = S!sign(key, r.got)  BY <1>4, <2>2, <2>3 DEF Whose
  <2>5. S!verify(key, r.got, x.of[1])
    BY <2>4 DEF S!verify, S!sign, S!verify_protocol, S!sign_protocol, S!Opens, S!Ciphertext
  <2>6. QED  BY <1>1, <1>4, <2>5 DEF Matches
<1>5. CASE r.inv.cmd = "check"
  <2>1. x.kind = "digest" /\ Whose(r) = r.inv.metadata  BY <1>2, <1>5 DEF Judged, Whose
  <2>2. x.of[1] = D!NewDigest(r.inv.metadata, r.got)
    BY <1>3, <2>1 DEF Known, MadeOK
  <2>3. QED  BY <1>1, <1>5, <2>2 DEF Matches
<1>6. QED  BY <1>2, <1>4, <1>5

\* A complete message that does not change while decrypt reads it is never refused, nor
\* does it make decrypt panic; and verify and digest --check turn down no text of which
\* this very signature or digest was made (DecryptArgs::run, VerifyArgs::run and
\* DigestArgs::run in cli.rs).
THEOREM CompletenessCorrect == Spec => CompleteIsAccepted
<1> DEFINE Accepts ==
      \A p \in Procs :
        LET r == proc[p]
            c == file[r.inv.input]
            to == K!pub_key(r.key).encoded
        IN  /\ (/\ EndsWith(p, {"InvalidCiphertext", "UnexpectedEof", "panic"})
                /\ r.inv.cmd = "decrypt" /\ r.peers # << >>
                /\ IsMessage(c, r.peers[1].encoded, to))
                 => \E j \in 1..Len(r.got) : j > Len(c) \/ r.got[j] # c[j]
            /\ (EndsWith(p, {"BadSignature", "DigestMismatch"}) /\ r.other[1].whole)
                 => <<r.other[1].kind, Whose(r), r.got, r.other[1].of[1]>> \notin made
<1>1. ASSUME MemoriesOK, [Next]_vars, NEW p \in Procs, NEW exits, EndsWith(p, exits)
      PROVE  Running(p) /\ (Step(p) \/ Kill(p)) /\ ended'.exit \in exits
  BY <1>1, EndIsStep DEF EndsWith
<1>2. ASSUME MemoriesOK, Known, AllJudged, AllLeave, [Next]_vars PROVE Accepts
  <2>1. TAKE p \in Procs
  <2>2. Running(p) => Leaves(p) /\ Judged(proc[p])  BY <1>2 DEF AllJudged, AllLeave
  <2>3. QED  BY <1>1, <1>2, <2>2, MessageIsAccepted, MismatchWasNotMade DEF Departs
<1>3. MemoriesOK /\ Known /\ AllJudged /\ AllLeave /\ [Next]_vars => [Accepts]_vars  BY <1>2
<1>4. QED  BY <1>3, JudgedHolds, LeavesHold, PTL DEF Spec, CompleteIsAccepted
=============================================================================
