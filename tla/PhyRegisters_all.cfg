SPECIFICATION Spec
CONSTANTS
  Phys = {p1, p2}
  p1 = p1
  p2 = p2
  Kinds = {"combo", "dkl", "mn", "c10", "c20"}
  IndexOf <- MCSharedIndex
  NoPhy = NoPhy
  Radix = 4
  IntMax = 3
  Sub = 4
  Boot <- MCBoot
  Changes <- MCChanges
INVARIANTS TypeOK HoldsTarget RestoredExactly
PROPERTIES WritesArrive
