CONSTANTS
  o1 = o1
  o2 = o2
  o3 = o3
  b1 = b1
  b2 = b2
  b3 = b3
  Objs = {o1, o2, o3}
  Blocks = {b1, b2, b3}
  Buffers = {"long", "short"}
  BufLen <- MCBufLen
  ContextSize = 5
  WordSize = 2
SPECIFICATION Spec
SYMMETRY MCSymmetry
INVARIANT AllocatedByTheUser
