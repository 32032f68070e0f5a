---------------------------------- MODULE Cli ----------------------------------
(***************************************************************************)
(* cli.rs: commands that run at the same time over the same files.  Each   *)
(* does the calls of its `run' in order, any of which may fail, and may be *)
(* killed between two of them.  A failed write leaves a part of what it    *)
(* wrote, and nobody removes it.                                           *)
(*                                                                         *)
(* A file is a sequence of pieces.  A piece is what one write puts there:  *)
(* a key, a signature, a digest, a block of a text, or the headers, a      *)
(* block or the end of a message.  What the commands call in the library   *)
(* is in Keys, Sig and Digest, and for messages and stored keys what       *)
(* VeilMessage and Pbenc show of it.                                       *)
(***************************************************************************)
EXTENDS Integers, Sequences

CONSTANTS
  Procs,         \* the commands that can run at the same time
  Paths,         \* of files; one of them is Pipe
  Pipe,          \* `-': the output of one command, the input of another, or a terminal
  NoPath,        \* the output of a command that has none
  InitialFiles,  \* what the files hold at first
  InitialMade,   \* the messages, signatures and digests among it
  Invocations,   \* command lines
  MaxRuns        \* bound: how many commands are run

K == INSTANCE Keys
S == INSTANCE Sig WITH SIG_LEN <- 3309
D == INSTANCE Digest

\* Its contents; made by which run of a command, for whom (or under which
\* passphrase), and its number in a message.
Piece(kind, of, run, to, at) ==
  [kind |-> kind, of |-> of, run |-> run, to |-> to, at |-> at, whole |-> TRUE]

\* The beginning of a piece, as a failed write leaves it.
Torn(piece) == [piece EXCEPT !.whole = FALSE]

Absent == <<Piece("absent", << >>, 0, {}, 0)>>

ASSUME CliAssumption ==
  /\ Pipe \in Paths /\ NoPath \notin Paths
  /\ DOMAIN InitialFiles = Paths
  /\ MaxRuns \in Nat
  /\ \A inv \in Invocations : inv.output \in Paths \union {NoPath}
  /\ \A inv \in Invocations : inv.input = Pipe => inv.output # Pipe

VARIABLES
  file,  \* what is at each path
  proc,  \* what each command has in memory
  runs,  \* how many were begun
  ended, \* how the command did that ended in the last step, if one did
  made   \* messages written to their end, signatures and digests (history)

vars == <<file, proc, runs, ended, made>>

\* A command that has just been started.
Begun(run, inv) ==
  [run     |-> run,
   inv     |-> inv,
   pos     |-> 1,         \* the call it is at
   key     |-> 0,         \* the seed of the secret key it has
   peers   |-> << >>,     \* the public keys it has
   other   |-> << >>,     \* the signature or the digest it has
   got     |-> << >>,     \* what it has read of its input
   held    |-> << >>,     \* what stdout holds back
   was     |-> << >>,     \* what its input held, if it is its output too (history)
   touched |-> FALSE]     \* it has truncated its output (history)

\* Nothing is left of its memory when it has ended.
Gone == [run |-> 0]

\* Its status or error, the path in that, and whether what stdout held back is lost.
Ending(exit, blamed, lost) == [exit |-> exit, blamed |-> blamed, lost |-> lost]

None == Ending("none", NoPath, FALSE)

-----------------------------------------------------------------------------
\* A mutation of EncryptPlan: the output is created first.
EncryptPlanEager == <<"create", "key", "open", "peers", "headers", "blocks", "end">>

EncryptPlan == <<"key", "open", "create", "peers", "headers", "blocks", "end">>

\* A mutation of DigestPlan: the output is created before the input is read.
DigestPlanEager == <<"open", "create", "read", "write">>

DigestPlan == <<"open", "read", "create", "write">>

Cmds == {"secret-key", "public-key", "encrypt", "decrypt", "sign", "verify", "digest", "check",
         "complete"}

\* The calls of each `run', in order; "check" is digest with --check.
Plan ==
  [cmd \in Cmds |->
     CASE cmd = "secret-key" -> <<"passphrase", "create", "write">>
       [] cmd = "public-key" -> <<"key", "create", "write">>
       [] cmd = "encrypt"    -> EncryptPlan
       [] cmd = "decrypt"    -> <<"open", "create", "key", "peers", "header", "message">>
       [] cmd = "sign"       -> <<"open", "create", "key", "read", "write">>
       [] cmd = "verify"     -> <<"open", "peers", "other", "read", "compare">>
       [] cmd = "digest"     -> DigestPlan
       [] cmd = "check"      -> <<"other", "open", "read", "compare">>
       [] cmd = "complete"   -> <<"create", "write">>]

\* Their outputs are opened with `binary'.
Binary == {"secret-key", "encrypt", "decrypt"}

Calls(inv, call) == \E j \in 1..Len(Plan[inv.cmd]) : Plan[inv.cmd][j] = call

\* What clap makes sure of: a command that opens public keys is given one, and one
\* that creates an output its path.  (Arguments that a command does not have name a
\* path that nothing is at.)
ASSUME InvocationAssumption ==
  \A inv \in Invocations :
    /\ inv.cmd \in Cmds
    /\ {inv.input, inv.key, inv.other} \subseteq Paths
    /\ inv.peers \in Seq(Paths) /\ (Calls(inv, "peers") => inv.peers # << >>)
    /\ inv.output # NoPath <=> Calls(inv, "create")
    /\ inv.metadata \in Seq(Seq(Nat))

Running(p) == proc[p] # Gone

Done(p) == proc[p].pos > Len(Plan[proc[p].inv.cmd])

At(p, call) == Running(p) /\ ~Done(p) /\ Plan[proc[p].inv.cmd][proc[p].pos] = call

Advanced(r) == [r EXCEPT !.pos = @ + 1]

-----------------------------------------------------------------------------
InitialPieces ==
  UNION {{InitialFiles[path][j] : j \in 1..Len(InitialFiles[path])} : path \in Paths}

InitialTexts == {x.of[1] : x \in {y \in InitialPieces : y.kind = "block"}}

\* Is x a whole piece of a message?
OfMessage(x) == x.kind \in {"headers", "block", "end"} /\ x.whole

\* Is it one of the message m, as `made' has it?
PieceOf(x, m) ==
  /\ x.to = m[2]
  /\ x.kind = "block" => x.at \in 1..Len(m[3]) /\ x.of = <<m[3][x.at]>>
  /\ x.kind = "end" => x.at = Len(m[3]) + 1

\* Signatures, digests and messages that are there at first are of earlier commands,
\* whose runs have the numbers from 0 down.
ASSUME InitialAssumption ==
  /\ InitialFiles \in [Paths -> Seq(InitialPieces)]
  /\ \A m \in InitialMade :
       /\ m[1] = "signature" => m[4] = S!sign(K!Decoded(m[2]), m[3])
       /\ m[1] = "digest" => m[2] \in Seq(Seq(Nat)) /\ m[4] = D!NewDigest(m[2], m[3])
       /\ m[1] = "message" => m[3] \in Seq(InitialTexts)
  /\ \A x \in InitialTexts : x.kind = "text"
  /\ \A x \in InitialPieces \union InitialTexts :
       /\ DOMAIN x = {"kind", "of", "run", "to", "at", "whole"}
       /\ x.run \in Int /\ x.run <= 0
       /\ (x.kind \in {"signature", "digest"} /\ x.whole)
            => \E m \in InitialMade : m[1] = x.kind /\ m[4] = x.of[1]
       /\ OfMessage(x) =>
            \E m \in InitialMade :
              /\ m[1] = "message"
              /\ \A y \in InitialPieces : OfMessage(y) /\ y.run = x.run => PieceOf(y, m)

-----------------------------------------------------------------------------
Init ==
  /\ file = InitialFiles
  /\ proc = [p \in Procs |-> Gone]
  /\ runs = 0
  /\ ended = None
  /\ made = InitialMade

\* A command is started, by somebody who lets no two of them write to one path at
\* once.  A pipe is new.
Start(p) ==
  /\ ~Running(p) /\ runs < MaxRuns
  /\ \E inv \in Invocations :
       /\ \A q \in Procs : (Running(q) /\ inv.output # NoPath) => proc[q].inv.output # inv.output
       /\ proc' = [proc EXCEPT ![p] = Begun(runs + 1, inv)]
       /\ file' = IF inv.output = Pipe THEN [file EXCEPT ![Pipe] = << >>] ELSE file
  /\ runs' = runs + 1
  /\ ended' = None
  /\ UNCHANGED made

\* Goes on as r, and nothing else changes.
GoesOn(p, r) ==
  /\ proc' = [proc EXCEPT ![p] = r]
  /\ ended' = None
  /\ UNCHANGED <<file, runs, made>>

\* Process p ends, and the pieces `left' still reach its output.
Ends(p, exit, blamed, left) ==
  /\ ended' = Ending(exit, blamed, proc[p].held # << >> /\ left = << >>)
  /\ proc' = [proc EXCEPT ![p] = Gone]
  /\ file' = IF left = << >> THEN file ELSE [file EXCEPT ![proc[p].inv.output] = @ \o left]
  /\ UNCHANGED <<runs, made>>

\* exit(-1) after an error with this path, or a panic.  Stdout is flushed, without a
\* look at whether that succeeds.
FailsAt(p, exit, blamed) == \E left \in {<< >>, proc[p].held} : Ends(p, exit, blamed, left)

Fails(p, exit) == FailsAt(p, exit, NoPath)

\* main returns, and so is stdout flushed.
Exit(p) ==
  /\ Running(p) /\ Done(p)
  /\ Fails(p, "ok")

Kill(p) == Running(p) /\ Ends(p, "killed", NoPath, << >>)

\* A mutation of Writes: what was held back stays there too.
WritesUncleared(p, piece, r) ==
  LET piped == r.inv.output = Pipe
  IN  /\ proc' = [proc EXCEPT ![p] =
                    [r EXCEPT !.held = IF piped THEN Append(@, piece) ELSE << >>]]
      /\ file' = [file EXCEPT ![r.inv.output] = IF piped THEN @ \o r.held ELSE Append(@, piece)]
      /\ ended' = None /\ UNCHANGED runs

\* write_all, after which p goes on as r.  What goes to stdout is held back there
\* until something follows.
Writes(p, piece, r) ==
  LET piped == r.inv.output = Pipe
  IN  /\ proc' = [proc EXCEPT ![p] = [r EXCEPT !.held = IF piped THEN <<piece>> ELSE << >>]]
      /\ file' = [file EXCEPT ![r.inv.output] = IF piped THEN @ \o r.held ELSE Append(@, piece)]
      /\ ended' = None /\ UNCHANGED runs

\* A mutation of WriteBlames: the input is named, whatever the command.
WriteBlamesInput(r) == r.inv.input

\* The path in a WriteIo: that of decrypt is its input's.
WriteBlames(r) == IF r.inv.cmd = "decrypt" THEN r.inv.input ELSE r.inv.output

WriteFails(p, piece, exit, blamed) ==
  \E left \in {<< >>, proc[p].held, Append(proc[p].held, Torn(piece))} :
    Ends(p, exit, blamed, left)

WriteIo(p, piece) == WriteFails(p, piece, "WriteIo", WriteBlames(proc[p]))

-----------------------------------------------------------------------------
\* What the machine may do to a command and never owes it.  (FdIo, EmptyPassphrase and
\* the TermIo of a prompt are "Passphrase".)
Faults == {"Passphrase", "StdinTty", "StdoutTty", "ReadIo", "WriteIo", "TermIo"}

\* The other errors; a ReadIo of a file that is not there or ends too soon among them.
CliErrors ==
  Faults \union {"NotFound", "UnexpectedEof", "BadPassphrase", "DigestMismatch", "Invalid",
                 "BadSignature", "InvalidCiphertext", "InvalidPublicKey"}

\* A ReadIo, of what is there or is not.
ReadIo(p, path) ==
  FailsAt(p, IF file[path] = Absent THEN "NotFound" ELSE "ReadIo", path)

\* read_passphrase: FdIo, TermIo, EmptyPassphrase.
ReadPassphrase(p) ==
  /\ At(p, "passphrase")
  /\ Fails(p, "Passphrase") \/ GoesOn(p, Advanced(proc[p]))

\* SecretKeyInput::decrypt
DecryptKey(p) ==
  LET path == proc[p].inv.key
      c == file[path]
      opens == /\ Len(c) = 1 /\ c[1].kind = "secret" /\ c[1].whole
               /\ c[1].to = {proc[p].inv.pass}
  IN  /\ At(p, "key")
      /\ \/ Fails(p, "Passphrase")
         \/ ReadIo(p, path)
         \/ c # Absent /\ Fails(p, "BadPassphrase")
         \/ opens /\ GoesOn(p, [Advanced(proc[p]) EXCEPT !.key = c[1].of[1]])

\* A terminal is no input.
OpenInput(p) ==
  LET inv == proc[p].inv
      c == file[inv.input]
  IN  /\ At(p, "open")
      /\ \/ inv.input = Pipe /\ Fails(p, "StdinTty")
         \/ inv.input # Pipe /\ ReadIo(p, inv.input)
         \/ /\ c # Absent
            /\ GoesOn(p, [Advanced(proc[p]) EXCEPT
                            !.was = IF inv.input = inv.output THEN c ELSE << >>])

\* A file is truncated or created; a pipe is there already, and a terminal is no
\* output for what is binary.
OpenOutput(p) ==
  LET inv == proc[p].inv
  IN  /\ At(p, "create")
      /\ \/ inv.output = Pipe /\ inv.cmd \in Binary /\ Fails(p, "StdoutTty")
         \/ inv.output # Pipe /\ FailsAt(p, "WriteIo", inv.output)
         \/ /\ proc' = [proc EXCEPT ![p] = [Advanced(@) EXCEPT !.touched = TRUE]]
            /\ file' = IF inv.output = Pipe THEN file ELSE [file EXCEPT ![inv.output] = << >>]
            /\ ended' = None /\ UNCHANGED <<runs, made>>

\* One artefact of this kind, whole.
Parses(c, kind) == Len(c) = 1 /\ c[1].kind = kind /\ c[1].whole

\* open_public_key, for one after another.
OpenPublicKey(p) ==
  LET r == proc[p]
      path == r.inv.peers[Len(r.peers) + 1]
      c == file[path]
      more == [r EXCEPT !.peers = Append(@, K!Decoded(c[1].of))]
  IN  /\ At(p, "peers")
      /\ \/ ReadIo(p, path)
         \/ c # Absent /\ ~Parses(c, "public") /\ FailsAt(p, "InvalidPublicKey", path)
         \/ /\ Parses(c, "public")
            /\ GoesOn(p, IF Len(r.peers) + 1 = Len(r.inv.peers) THEN Advanced(more) ELSE more)

\* open_signature, or the digest that is an argument.  A torn one may still decode to
\* the right number of bytes, if not to the right ones.
OpenOther(p) ==
  LET path == proc[p].inv.other
      c == file[path]
      kind == IF proc[p].inv.cmd = "verify" THEN "signature" ELSE "digest"
      fits == Len(c) = 1 /\ c[1].kind = kind
  IN  /\ At(p, "other")
      /\ \/ ReadIo(p, path)
         \/ c # Absent /\ ~Parses(c, kind) /\ FailsAt(p, "Invalid", path)
         \/ fits /\ GoesOn(p, [Advanced(proc[p]) EXCEPT !.other = c])

-----------------------------------------------------------------------------
\* A mutation of AtEnd: no pipe ever ends.
AtEndUnknown(p) ==
  proc[p].inv.input # Pipe /\ Len(proc[p].got) >= Len(file[proc[p].inv.input])

\* Nothing more to read, and nobody to write more to a pipe.
AtEnd(p) ==
  /\ Len(proc[p].got) >= Len(file[proc[p].inv.input])
  /\ proc[p].inv.input = Pipe => \A q \in Procs : Running(q) => proc[q].inv.output # Pipe

\* The next piece is there.
Ready(p) == Len(proc[p].got) < Len(file[proc[p].inv.input])

NextPiece(p) == file[proc[p].inv.input][Len(proc[p].got) + 1]

Got(p) == [proc[p] EXCEPT !.got = Append(@, NextPiece(p))]

InputFails(p) == FailsAt(p, "ReadIo", proc[p].inv.input)

\* io::copy into the protocol, of sign, verify and Digest::new.
Read(p) ==
  /\ At(p, "read")
  /\ \/ InputFails(p)
     \/ Ready(p) /\ GoesOn(p, Got(p))
     \/ AtEnd(p) /\ GoesOn(p, Advanced(proc[p]))

\* What the command writes at once.
Result(r) ==
  CASE r.inv.cmd = "secret-key" -> Piece("secret", <<r.run>>, r.run, {r.inv.pass}, 1)
    [] r.inv.cmd = "public-key" -> Piece("public", K!pub_key(r.key).encoded, r.run, {}, 1)
    [] r.inv.cmd = "sign"       -> Piece("signature", <<S!sign(K!pub_key(r.key), r.got)>>, r.run, {}, 1)
    [] r.inv.cmd = "digest"     -> Piece("digest", <<D!NewDigest(r.inv.metadata, r.got)>>, r.run, {}, 1)
    [] r.inv.cmd = "complete"   -> Piece("script", << >>, r.run, {}, 1)

\* What a signature or a digest is of, the key or the metadata and the text, and what
\* it is.
Made(r) ==
  CASE r.inv.cmd = "sign"   ->
         {<<"signature", K!pub_key(r.key).encoded, r.got, Result(r).of[1]>>}
    [] r.inv.cmd = "digest" ->
         {<<"digest", r.inv.metadata, r.got, Result(r).of[1]>>}
    [] OTHER                -> {}

\* A script that cannot be written is a panic of its generator.
WriteResult(p) ==
  LET r == proc[p]
  IN  /\ At(p, "write")
      /\ \/ /\ r.inv.cmd \in {"secret-key", "public-key", "sign"}
            /\ WriteIo(p, Result(r))
         \/ r.inv.cmd = "digest" /\ WriteFails(p, Result(r), "TermIo", NoPath)
         \/ r.inv.cmd = "complete" /\ WriteFails(p, Result(r), "panic", NoPath)
         \/ Writes(p, Result(r), Advanced(r)) /\ made' = made \union Made(r)

\* verify, or the comparison of digests.
Matches(r) ==
  /\ r.other[1].whole
  /\ IF r.inv.cmd = "verify" THEN S!verify(r.peers[1], r.got, r.other[1].of[1])
     ELSE r.other[1].of[1] = D!NewDigest(r.inv.metadata, r.got)

Compare(p) ==
  /\ At(p, "compare")
  /\ IF Matches(proc[p]) THEN GoesOn(p, Advanced(proc[p]))
     ELSE Fails(p, IF proc[p].inv.cmd = "verify" THEN "BadSignature" ELSE "DigestMismatch")

-----------------------------------------------------------------------------
Receivers(r) == {r.peers[j].encoded : j \in 1..Len(r.peers)}

\* Whose message it is, from whom to whom, in every piece of it.
Route(r) == <<K!pub_key(r.key).encoded, Receivers(r)>>

\* A piece of the message that this command writes.
Sealed(r, kind, of, at) == Piece(kind, of, r.run, Route(r), at)

\* SecretKey::encrypt, up to the first block.
WriteHeaders(p) ==
  LET headers == Sealed(proc[p], "headers", << >>, 0)
  IN  /\ At(p, "headers")
      /\ \/ WriteIo(p, headers)
         \/ Writes(p, headers, Advanced(proc[p])) /\ UNCHANGED made

\* Shorter than a block, after which encrypt_message does not read again: what is not
\* a block of a text.
Short(piece) == piece.kind # "text" \/ ~piece.whole

\* A block is read and written.
EncryptBlock(p) ==
  LET r == proc[p]
      block == Sealed(r, "block", <<NextPiece(p)>>, Len(r.got) + 1)
  IN  /\ At(p, "blocks")
      /\ \/ InputFails(p)
         \/ Ready(p) /\ WriteIo(p, block)
         \/ /\ Ready(p) /\ UNCHANGED made
            /\ Writes(p, block, IF Short(NextPiece(p)) THEN Advanced(Got(p)) ELSE Got(p))
         \/ AtEnd(p) /\ GoesOn(p, Advanced(r))

\* The padding and the signature.
EncryptEnd(p) ==
  LET r == proc[p]
      end == Sealed(r, "end", << >>, Len(r.got) + 1)
  IN  /\ At(p, "end")
      /\ \/ WriteIo(p, end)
         \/ /\ Writes(p, end, Advanced(r))
            /\ made' = made \union {<<"message", Route(r), r.got>>}

\* SecretKey::decrypt finds the header for its key, by its sender.
DecryptHeader(p) ==
  LET mine == /\ NextPiece(p).kind = "headers" /\ NextPiece(p).whole
              /\ K!pub_key(proc[p].key).encoded \in NextPiece(p).to[2]
              /\ NextPiece(p).to[1] = proc[p].peers[1].encoded
  IN  /\ At(p, "header")
      /\ \/ InputFails(p)
         \/ AtEnd(p) /\ Fails(p, "InvalidCiphertext")
         \/ Ready(p) /\ ~mine /\ Fails(p, "InvalidCiphertext")
         \/ Ready(p) /\ mine /\ GoesOn(p, Advanced(Got(p)))

\* The block or the end whose turn it is, of the message that was begun.
Follows(piece, got) ==
  /\ piece.kind \in {"block", "end"} /\ piece.whole
  /\ piece.run = got[1].run /\ piece.at = Len(got)

\* A mutation of Ended: the end of the input will do.
EndedEarly(p) == AtEnd(p)

\* The end of the message, and of the input.
Ended(p) == AtEnd(p) /\ proc[p].got[Len(proc[p].got)].kind = "end"

\* Each block is written when it is opened; the end is looked at when all is read.
DecryptBlock(p) ==
  LET r == proc[p]
      piece == NextPiece(p)
      more == Ready(p) /\ r.got[Len(r.got)].kind # "end"
  IN  /\ At(p, "message")
      /\ \/ InputFails(p)
         \/ /\ more /\ Follows(piece, r.got) /\ piece.kind = "block"
            /\ WriteIo(p, piece.of[1])
         \/ /\ more /\ Follows(piece, r.got) /\ piece.kind = "block"
            /\ Writes(p, piece.of[1], Got(p)) /\ UNCHANGED made
         \/ more /\ Follows(piece, r.got) /\ piece.kind = "end" /\ GoesOn(p, Got(p))
         \/ more /\ ~Follows(piece, r.got) /\ Fails(p, "InvalidCiphertext")
         \/ more /\ ~piece.whole /\ (FailsAt(p, "UnexpectedEof", r.inv.input) \/ Fails(p, "panic"))
         \/ Ready(p) /\ ~more /\ Fails(p, "panic")
         \/ AtEnd(p) /\ ~Ended(p) /\ FailsAt(p, "UnexpectedEof", r.inv.input)
         \/ Ended(p) /\ GoesOn(p, Advanced(r))

-----------------------------------------------------------------------------
Step(p) ==
  \/ ReadPassphrase(p) \/ DecryptKey(p) \/ OpenInput(p) \/ OpenOutput(p) \/ OpenPublicKey(p)
  \/ OpenOther(p) \/ Read(p) \/ WriteResult(p) \/ Compare(p)
  \/ WriteHeaders(p) \/ EncryptBlock(p) \/ EncryptEnd(p) \/ DecryptHeader(p) \/ DecryptBlock(p)
  \/ Exit(p)

Next == \E p \in Procs : Start(p) \/ Step(p) \/ Kill(p)

Spec == Init /\ [][Next]_vars

\* A step that no fault of the machine ends.
NoFault(p) == Step(p) /\ ended'.exit \notin Faults

FairSpec == Spec /\ \A p \in Procs : WF_vars(NoFault(p))

-----------------------------------------------------------------------------
\* The types; a command holds back at most its last piece.
TypeOK ==
  /\ DOMAIN file = Paths
  /\ ended.exit \in CliErrors \union {"none", "ok", "killed", "panic"}
  /\ ended.blamed \in Paths \union {NoPath}
  /\ runs \in 0..MaxRuns
  /\ \A p \in Procs :
       LET r == proc[p]
       IN  Running(p) =>
           /\ r.inv \in Invocations /\ r.run \in 1..runs
           /\ Len(r.peers) <= Len(r.inv.peers) /\ Len(r.held) <= 1

\* What p does in this step is to end so.
EndsWith(p, exits) == Running(p) /\ ~Running(p)' /\ ended'.exit \in exits

\* A complete message by the owner of the key `from' for the owner of `to', and its
\* text.
IsMessage(c, from, to) ==
  /\ Len(c) >= 2
  /\ \A j \in 1..Len(c) :
       /\ c[j].kind = IF j = 1 THEN "headers" ELSE IF j = Len(c) THEN "end" ELSE "block"
       /\ c[j].whole /\ c[j].to[1] = from /\ to \in c[j].to[2]
       /\ c[j].run = c[1].run /\ c[j].at = j - 1

TextOf(c) == [j \in 1..(Len(c) - 2) |-> c[j + 1].of[1]]

\* What a command with this memory is asked to leave.
Promised(r, c) ==
  CASE r.inv.cmd = "encrypt" ->
         /\ \A to \in Receivers(r) : IsMessage(c, K!pub_key(r.key).encoded, to)
         /\ TextOf(c) = r.got
    [] r.inv.cmd = "decrypt" ->
         \E m \in made : /\ m[1] = "message" /\ m[2][1] = r.peers[1].encoded
                         /\ K!pub_key(r.key).encoded \in m[2][2] /\ m[3] = c
    [] OTHER -> c = <<Result(r)>>

\* A command that ends with status 0 has left what it was asked for at its path, all
\* of it and made of what it read, unless the last flush of stdout failed (main does
\* not look at that).
OutputIsComplete ==
  [][\A p \in Procs :
       (EndsWith(p, {"ok"}) /\ ~ended'.lost /\ proc[p].inv.output # NoPath)
         => Promised(proc[p], file'[proc[p].inv.output])]_vars

\* Whose signature verify looks for, or over which metadata the digest.
Whose(r) == IF r.inv.cmd = "verify" THEN r.peers[1].encoded ELSE r.inv.metadata

\* verify ends with status 0 only over a text that the owner of the key signed, and
\* digest --check over one of which a digest was made with this metadata, value by
\* value: the text as it was read then, whatever happened to the files meanwhile.
AcceptedWasMade ==
  [][\A p \in Procs :
       LET r == proc[p]
       IN  (EndsWith(p, {"ok"}) /\ r.inv.cmd \in {"verify", "check"}) =>
             \E m \in made : m[1] = r.other[1].kind /\ m[2] = Whose(r) /\ m[3] = r.got]_vars

\* Neither a complete message that does not change while it is read nor an untorn
\* signature or digest of what is read is refused, whoever wrote the keys' files.
CompleteIsAccepted ==
  [][\A p \in Procs :
       LET r == proc[p]
           c == file[r.inv.input]
           to == K!pub_key(r.key).encoded
       IN  /\ (/\ EndsWith(p, {"InvalidCiphertext", "UnexpectedEof", "panic"})
               /\ r.inv.cmd = "decrypt" /\ r.peers # << >>
               /\ IsMessage(c, r.peers[1].encoded, to))
                => \E j \in 1..Len(r.got) : j > Len(c) \/ r.got[j] # c[j]
           /\ (EndsWith(p, {"BadSignature", "DigestMismatch"}) /\ r.other[1].whole)
                => <<r.other[1].kind, Whose(r), r.got, r.other[1].of[1]>> \notin made]_vars

\* Without its passphrase a command costs nobody what was at its output, but for
\* decrypt and sign, which truncate it first.
OutputOutlivesBadKey ==
  [][\A p \in Procs :
       (EndsWith(p, {"Passphrase", "BadPassphrase"}) /\ proc[p].touched)
         => proc[p].inv.cmd \in {"decrypt", "sign"}]_vars

\* A command over its own input that ends with status 0 has read what was there, but
\* for encrypt and sign, which truncate it first and have read nothing of it: their
\* message is of its own headers, their signature of nothing.
OwnInputIsRead ==
  [][\A p \in Procs :
       LET r == proc[p]
       IN  (EndsWith(p, {"ok"}) /\ r.inv.input = r.inv.output) =>
             IF r.inv.cmd \in {"encrypt", "sign"}
             THEN \A j \in 1..Len(r.got) : r.got[j].run = r.run
             ELSE r.got = r.was]_vars

\* The path in an error is at fault: nothing is there, or no key or signature, or it
\* is the one that cannot be read or written.  A failed write of decrypt alone names
\* a path that was never written, its input.
ErrorsNameTheirFile ==
  [][\A p \in Procs :
       LET inv == proc[p].inv
           blamed == ended'.blamed
       IN  /\ EndsWith(p, {"NotFound"}) => file[blamed] = Absent
           /\ EndsWith(p, {"InvalidPublicKey"}) => ~Parses(file[blamed], "public")
           /\ EndsWith(p, {"Invalid"}) =>
                ~Parses(file[blamed], IF inv.cmd = "verify" THEN "signature" ELSE "digest")
           /\ EndsWith(p, {"WriteIo"}) =>
                blamed = IF inv.cmd = "decrypt" /\ proc[p].touched THEN inv.input
                         ELSE inv.output]_vars

\* Every command ends: none waits for a pipe that nobody writes to, nor reads for
\* ever what it writes itself.
EveryCommandEnds == \A p \in Procs : Running(p) ~> ~Running(p)
=============================================================================
