SPECIFICATION BatchSpec
CONSTANTS
  alice = alice
  bob = bob
  Keys = {alice, bob}
  Sessions = {s1}
  Noise = Noise
  Fake = Fake
  NoDek = NoDek
  MaxEdits = 1
  Reach = 3
  Byte <- MCByte
  Plaintexts <- Single
  ReceiverLists <- JustBob
  Fakes <- NoFakes
  MAX_PLAINTEXT = 4
  PaddingLen <- MCPaddingLen
  BLOCK_LEN = 2
  TAG_LEN = 1
  BLOCK_HEADER_LEN = 1
  HEADER_LEN = 1
  ENC_CT_LEN = 1
  SIG_LEN = 2
  LEN_LIMIT = 16
  IoErrors = FALSE
  U64_MAX = 1000
INVARIANT NeverPanics
CHECK_DEADLOCK FALSE
