SPECIFICATION FuzzSpec
CONSTANTS
  Procs = {p1, p2, p3}
  Order = 13
  ByteBits = 2
  NumBytes = 2
  FirstKey = 3
  MessageHashes = {0, 6, 15}
  Tweaks = {0, 1, 5, 10, 14}
  SchnorrMessages <- MCSchnorrMessages
  KeyLists <- MCKeyLists
  Error = Error
  Panics = Panics
  XorOf <- MCXor
INVARIANTS
  SingleBuilder
  AssertionsHold
  CopiesBuilt
  DummiesKeepPromises
PROPERTY CallersReturn
