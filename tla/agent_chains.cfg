\* Two processes at one run, a crash in any place, a clock that may be set.
SPECIFICATION Spec
CONSTANTS
  Procs = {p1, p2}
  Runs = {1}
  Plans <- SomePlans
  Entries <- Contested
  MaxReceipt = 5
  Times = {0, 3}
  MaxCrash = 1
SYMMETRY Interchangeable
INVARIANTS
  TypeOK
  SummaryTruthful
  IdleChainValid
PROPERTIES
  BrokenIsFrozen
  ImmutableReceipts
CHECK_DEADLOCK FALSE
