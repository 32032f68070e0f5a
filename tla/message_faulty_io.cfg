SPECIFICATION Spec
CONSTANTS
  alice = alice
  bob = bob
  Keys = {alice, bob}
  Sessions = {s1}
  Noise = Noise
  Fake = Fake
  NoDek = NoDek
  MaxEdits = 0
  Reach = 3
  Byte <- MCByte
  Plaintexts <- ShortFullEmpty
  ReceiverLists <- AnyList
  Fakes <- NoneOrOne
  MAX_PLAINTEXT = 4
  PaddingLen <- MCPaddingLen
  BLOCK_LEN = 2
  TAG_LEN = 1
  BLOCK_HEADER_LEN = 1
  HEADER_LEN = 1
  ENC_CT_LEN = 1
  SIG_LEN = 2
  LEN_LIMIT = 16
  IoErrors = TRUE
  U64_MAX = 1000
INVARIANTS
  TypeOK
  BlocksTileThePlaintext
  EncryptCountsItsBytes
  RoundTrip
  StrangersAreRefused
CHECK_DEADLOCK FALSE
