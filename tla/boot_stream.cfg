SPECIFICATION FairSpec
CONSTANTS
  InputSet <- LocalApp
  Urls = {"inferred"}
  Inferred = {"inferred"}
  ComposeUrls = {}
  Advertised = {"inferred"}
  OtherPort = {}
  ForeignUrls = {}
  Statuses = {"accepted", "stream"}
  ForeignStatuses = {"accepted", "stream"}
  Churn = FALSE
  Leftover = FALSE
  NoUrl = "no url"
PROPERTIES
  DeadlineHonoured
