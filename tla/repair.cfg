\* Every playbook, remediation and suggestion, over a world that may change once.
SPECIFICATION FairSpec
CONSTANTS
  Worlds <- SomeWorlds
  Later <- LaterWorlds
  MaxChanges = 1
  Options <- SomeOptions
  Suggestions <- SomeSuggestions
INVARIANTS
  TypeOK
  PlaybooksAreSafe
  ConsentedCommand
  NoStaleReceipt
  ReceiptTellsTheTruth
  BootAttemptRecorded
PROPERTY
  CommandNeverHolds
