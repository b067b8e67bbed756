\* A failure of an external health check, repaired by the suggestion of an AI.
SPECIFICATION Spec
CONSTANTS
  Worlds <- SomeWorlds
  Later <- LaterWorlds
  MaxChanges = 0
  Options <- SomeOptions
  Suggestions <- SomeSuggestions
INVARIANT
  EveryAttemptRecorded
