SPECIFICATION Spec
CONSTANTS
  MaxWrites = 8
  Main = 1
  WordBits = 6
  Rounds = 3
  MaxStack = 60
  Programs <- MCPrograms
INVARIANTS WritesRight GeneratorsMatch FramesSound NoLeak
PROPERTIES LinkedRight Finishes
CHECK_DEADLOCK FALSE
