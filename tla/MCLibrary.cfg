SPECIFICATION LibrarySpec
CONSTANTS
  P = 967
  B = 7
  Beta = 824
  N = 907
  GX = 1
  GY = 88
  Half = 5
  Lambda = 384
  G1 = 253
  G2 = 939
  MinusB1 = 26
  MinusB2 = 900
  Shift = 15
  K1Bound = 21
  K2Bound = 18
  WindowA = 4
  WindowG = 3
  PippengerThreshold = 3
  GroupSize = 4
  CombBlocks = 2
  CombTeeth = 3
  CombSpacing = 2
  C1 = 142
  Logs <- MCLogs
  Zs <- MCZs
  Scalars <- MCScalars
  Seeds <- MCSeeds
  Us <- MCUs
  MaxSteps = 2
  WideStrings <- MCWideStrings
  NarrowStrings <- MCNarrowStrings
  Ints <- MCInts
  WideNumbers <- MCWideNumbers
  NarrowNumbers <- MCNarrowNumbers
  HalfBits = 3
  AccWords = {0, 1, 8, 31, 32, 63}
  MaxLimbSteps = 2
  Compress <- MCCompress
  StartState <- MCStartState
  Digest <- MCDigest
  XorByte <- MCXorByte
  BlockSize = 8
  DigestSize = 4
  SizeBytes = 2
  MaxText = 26
  Chunks <- MCChunks
  HashKeys <- MCHashKeys
  OutLengths = {0, 3, 4, 9}
  MaxHashSteps = 3
  Radix = 4
  ScalarOrder = 6
  Strings32 <- MCStrings32
  Strings33 <- MCStrings33
  Strings64 <- MCStrings64
  MessageHashes <- MCMessageHashes
  Messages <- MCMessages
  Algos <- MCAlgos
  MaxPublicKeys = 3
  Counts = {0, 1, 2}
  Order = 907
  Base = 32
  Width = 2
  SeqTag = 12
  IntTag = 2
  SizeOfSize = 2
  MaxLen = 12
  EditBytes = {0, 1, 2, 16, 17, 31}
  DerSeeds <- MCDerSeeds
  MaxEdits = 2
  HexChars <- MCHexChars
  MaxHex = 4
  MaxIter = 4
  MaxSkip = 2
  MaxSorted = 6
  MaxKey = 3
  Xs <- MCXs
  Ys <- MCYs
  Tags = {0, 1, 2, 3, 4, 5, 6, 7}
  SecretKeys = {0, 1, 2, 600, 906, 907, 908, 1023}
  Nonces = {0, 1, 906, 35}
  MaxConversions = 2
INVARIANTS PointIsMultiple MagnitudesFit TestsDecide EncodingsWork
  LimbsAgree HashesAgree InputsSeparate CodingsAgree ObjectsHold
CHECK_DEADLOCK FALSE
