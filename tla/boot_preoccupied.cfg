SPECIFICATION Spec
CONSTANTS
  InputSet <- LocalApp
  Urls = {"inferred", "printed"}
  Inferred = {"inferred"}
  ComposeUrls = {}
  Advertised = {"printed"}
  OtherPort = {"printed"}
  ForeignUrls = {"printed"}
  Statuses = {"accepted", "error5xx"}
  ForeignStatuses = {"accepted", "error5xx"}
  Churn = FALSE
  Leftover = FALSE
  NoUrl = "no url"
INVARIANTS
  PreexistingRefused
