\* Every kind of repository, and three commands around changes of the world.
SPECIFICATION Spec
CONSTANTS
  Sights <- SomeSights
  Tools = {"java", "kind"}
  UpResults <- SomeResults
  GivenUrls = {"page", "elsewhere", "starred"}
  MaxCommands = 3
INVARIANTS
  PlansAskFirst
  ExternalIsNotABoot
PROPERTIES
  EditedIsIgnored
  FailsOnlyOverQuotes
CHECK_DEADLOCK FALSE
