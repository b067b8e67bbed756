\* A tree somebody edits, file operations that fail without a trace.
SPECIFICATION Spec
CONSTANTS
  Files = {"override", "config", "schema"}
  Receipts <- SomeReceipts
  MaxEdits = 2
  MaxFaults = 2
  TornWrites = FALSE
INVARIANTS
  TypeOK
  AllOrNothing
  RefusalWritesNothing
