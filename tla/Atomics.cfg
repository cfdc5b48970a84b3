\* riscv64's W forms: the register is wider than the word.
CONSTANTS
  p1 = p1
  p2 = p2
  Procs = {p1, p2}
  HalfWord = 2
  HalfReg = 4
  Ops <- MCOps
  MaxCalls = 2
SPECIFICATION LockFairSpec
INVARIANTS LongReturn NoStaleStore MutualExclusion
PROPERTIES Linearizable CallsReturn
