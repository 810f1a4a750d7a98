SPECIFICATION Spec
CONSTANTS
  Versions = 2
  MaxCode = 2
  Interrupts = TRUE
  CleanFails = TRUE
  Edits = TRUE
INVARIANTS CoherentUnlessDisturbed FitsUnlessDisturbed NoStaleDeps GuardReadsItsLimit
