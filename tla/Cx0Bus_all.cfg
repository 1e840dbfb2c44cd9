SPECIFICATION Spec
CONSTANTS
  Kinds = {"c10", "c20"}
  Devices <- MCDevices
  Boot <- MCBoot
  Goals <- MCGoals
  Overlapping = {"c10"}
INVARIANTS NoForeignByte TriesSuffice RestoredExactly
