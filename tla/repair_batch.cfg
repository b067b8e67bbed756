\* A batch in which a registered remediation runs its command.
SPECIFICATION Spec
CONSTANTS
  Worlds <- SomeWorlds
  Later <- LaterWorlds
  MaxChanges = 0
  Options <- SomeOptions
  Suggestions <- SomeSuggestions
INVARIANT
  BatchRunsNoRepair
