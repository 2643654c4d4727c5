SPECIFICATION Spec
CONSTANTS
  NicIrq = 11
  Chars = {1}
  MaxDepth = 3
INVARIANTS InServiceOwed HeapLockHeld
PROPERTY RequestsServed
