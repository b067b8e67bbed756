SPECIFICATION FairSpec
CONSTANTS
  InputSet <- QuietApps
  Urls = {"inferred", "printed"}
  Inferred = {"inferred"}
  ComposeUrls = {"inferred"}
  Advertised = {"printed"}
  OtherPort = {"printed"}
  ForeignUrls = {"inferred"}
  Statuses = {"accepted", "error5xx", "hang"}
  ForeignStatuses = {"accepted", "error5xx"}
  Churn = FALSE
  Leftover = FALSE
  NoUrl = "no url"
INVARIANTS
  BootedByThisRun
  BootedMeansEveryStepOk
  ClassMatchesEvidence
  NoLeaderSurvives
PROPERTIES
  KeepsPromise
  ExitConcludes
  DeadlineHonoured
