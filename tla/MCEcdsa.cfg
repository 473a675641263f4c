CONSTANTS
  Q = 23
  Scalars <- MCScalars
  Zero = 0
  One = 1
  Add <- MCAdd
  Neg <- MCNeg
  Mul <- MCMul
  Odd <- MCOdd
  SecretKeys = {1, 4, 9, 22}
  Messages = {0, 1, 7, 22, 24}
  NonceData = {1, 5}
  BytesToGrind = {0, 1, 2}
  MaxCounter = 30
  MaxCount = 4
  Inv <- MCInv
  IsHigh <- MCIsHigh
  XCoord <- MCXCoord
  MsgScalar <- MCMsgScalar
  NonceBytes <- MCNonceBytes
  Invalid = Invalid
  LowR <- MCLowR
  DerLength <- MCDerLength
SPECIFICATION LiveSpec
INVARIANTS OnlyTheMadeVerifies OneIdRecovers RecoveredVerifies GrindIsFirst
PROPERTY CallsReturn
