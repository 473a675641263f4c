CONSTANTS
  Q = 13
  Scalars <- MCScalars
  Zero = 0
  One = 1
  Add <- MCAdd
  Neg <- MCNeg
  Mul <- MCMul
  Odd <- MCOdd
  KeyLists <- MCKeyLists
  KeyAggHash <- MCKeyAggHash
  Tweaks = {2}
  Signers = {"alice", "bob"}
  Keypairs <- WithNegated
  Secrands <- OneSecrand
  Messages = {3}
  Exporters = {"bob"}
  KeyList <- RepeatedKey
  MaxTweaks = 2
  NonceHash <- MCNonceHash
  NonceCoefHash <- MCNonceCoefHash
  ChallengeHash <- MCChallengeHash
SPECIFICATION Spec
INVARIANTS KeyAccounted NonceSignsOnce HonestPartialsVerify AggregateVerifies OneBadPartialIsCaught
