CONSTANTS
  Q = 11
  Scalars <- MCScalars
  Zero = 0
  One = 1
  Add <- MCAdd
  Neg <- MCNeg
  Mul <- MCMul
  Odd <- MCOdd
  Parties = {"alice", "bob"}
  BaseKey <- MCBaseKey
  TweakScalars = {0, 3, 9}
  MaxSteps = 2
  Error = Error
  Messages = {1}
  AuxRands = {3, 8}
  NoAuxRand = NoAuxRand
  NonceHash <- MCAuxHash
  Panicked = Panicked
  ChallengeHash <- MCChallengeHash
SPECIFICATION Spec
INVARIANTS ViewsFollow ChecksBind KeypairsWork
CHECK_DEADLOCK FALSE
