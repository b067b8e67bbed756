SPECIFICATION Spec
CONSTANTS
  InputSet <- GateInputs
  Urls = {"inferred"}
  Inferred = {"inferred"}
  ComposeUrls = {"inferred"}
  Advertised = {}
  OtherPort = {}
  ForeignUrls = {"inferred"}
  Statuses = {"accepted"}
  ForeignStatuses = {"accepted"}
  Churn = TRUE
  Leftover = FALSE
  NoUrl = "no url"
INVARIANTS
  TypeOK
  AttributedBoot
  HostConsent
  OutcomeRecorded
