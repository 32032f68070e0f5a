--------------------------------- MODULE MCCli ---------------------------------
(***************************************************************************)
(* Alice and Bob have keys, under the passphrases 1 and 2; there are a     *)
(* text of two blocks, a message, a signature and a digest of it, and      *)
(* another text that commands have for input and output.                   *)
(***************************************************************************)
EXTENDS Cli

CONSTANTS p1, p2

Alice == -1
Bob == -2
NoFile == "none"

PublicKey(seed) == K!pub_key(seed)
Split  == <<<<1>>, <<2>>>>
Joined == <<<<1, 2>>>>

Secret(seed, pass) == <<Piece("secret", <<seed>>, 0, {pass}, 1)>>
Public(seed) == <<Piece("public", PublicKey(seed).encoded, 0, {}, 1)>>
Text == <<Piece("text", << >>, 0, {}, 1), Piece("text", << >>, 0, {}, 2)>>
ToBoth == <<PublicKey(Alice).encoded, {PublicKey(Alice).encoded, PublicKey(Bob).encoded}>>
Message ==
  <<Piece("headers", << >>, 0, ToBoth, 0),
    Piece("block", <<Text[1]>>, 0, ToBoth, 1),
    Piece("end", << >>, 0, ToBoth, 2)>>
Signed   == S!sign(PublicKey(Alice), Text)
Digested == D!NewDigest(Split, Text)

MCPaths == {"ka", "kb", "pa", "pb", "text", "own", "message", "out", "sig", "digest", "-", NoFile}
MCInitialFiles ==
  [path \in MCPaths |->
     CASE path = "ka"              -> Secret(Alice, 1)
       [] path = "kb"              -> Secret(Bob, 2)
       [] path = "pa"              -> Public(Alice)
       [] path = "pb"              -> Public(Bob)
       [] path \in {"text", "own"} -> Text
       [] path = "message"         -> Message
       [] path = "sig"             -> <<Piece("signature", <<Signed>>, 0, {}, 1)>>
       [] path = "digest"          -> <<Piece("digest", <<Digested>>, 0, {}, 1)>>
       [] path = "-"               -> << >>
       [] OTHER                    -> Absent]
MCInitialMade ==
  {<<"message", ToBoth, <<Text[1]>>>>,
   <<"signature", PublicKey(Alice).encoded, Text, Signed>>,
   <<"digest", Split, Text, Digested>>}

Invocation(cmd, key, pass, input, output, peers, other, metadata) ==
  [cmd |-> cmd, key |-> key, pass |-> pass, input |-> input, output |-> output,
   peers |-> peers, other |-> other, metadata |-> metadata]

Encrypt(input, output, peers) ==
  Invocation("encrypt", "ka", 1, input, output, peers, NoFile, << >>)
Decrypt(input, output) ==
  Invocation("decrypt", "kb", 2, input, output, <<"pa">>, NoFile, << >>)
Sign(input, output) ==
  Invocation("sign", "ka", 1, input, output, << >>, NoFile, << >>)
Verify(input) ==
  Invocation("verify", NoFile, 0, input, NoPath, <<"pa">>, "sig", << >>)
Digest(input, output, metadata) ==
  Invocation("digest", NoFile, 0, input, output, << >>, NoFile, metadata)
Check(input, metadata) ==
  Invocation("check", NoFile, 0, input, NoPath, << >>, "digest", metadata)
Make(cmd, key, output) ==
  Invocation(cmd, key, 1, NoFile, output, << >>, NoFile, << >>)

MCInvocations ==
  {Encrypt("text", "message", <<"pa", "pb">>), Encrypt("text", "-", <<"pb">>),
   Encrypt("own", "own", <<"pb">>),
   Decrypt("message", "text"), Decrypt("-", "out"),
   Sign("text", "sig"), Sign("own", "own"), Verify("text"),
   Digest("text", "digest", Split), Digest("own", "own", << >>),
   Check("text", Split), Check("text", Joined),
   Make("secret-key", NoFile, "ka"), Make("public-key", "ka", "pa"), Make("complete", NoFile, "out")}
=============================================================================
