SPECIFICATION Spec
CONSTANTS
  Sectors = 3
  Big = 2
  Parts = 3
  MaxWait = 4
  MaxProgram = 3
  MaxErase = 3
  EraseTicks = 2
  ProgramTicks = 3
  Preempt = TRUE
INVARIANTS
  TypeOK
  ReadIsRight
  ProgramTook
  EraseTook
  NeverRefused
PROPERTY CallsReturn
