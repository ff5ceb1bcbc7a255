CONSTANTS
  Levels <- MCLevels
  Slots <- MCSlots
  StepSize <- MCStepSize
SPECIFICATION FairSpec
INVARIANTS
  TypeOK
  FoundBesideLastRecord
  RepairsTheLastRecord
  EvenUnclosedIsProbed
  LogarithmicProbes
PROPERTY Terminates
\* the loop stops
CHECK_DEADLOCK FALSE
