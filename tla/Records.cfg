SPECIFICATION Spec
CONSTANTS
  DefaultServices <- MCServices
  WindowsControls <- MCControls
  Tabs = {t1, t2}
  Assets = {"pc", "old"}
  Results <- MCResults
  Screens <- MCScreens
  Policies <- MCPolicies
  Reports <- MCReports
  Analyses <- MCAnalyses
  Criteria <- MCCriteria
  Capability <- MCCapability
  Evidence <- MCEvidence
  KeptBefore <- MCKeptBefore
  RemoteApproved = FALSE
  MaxRequests = 3
  MaxFaults = 1
INVARIANTS
  AcceptedResultIsStored
  VersionsAreConsecutive
  OnlyTheFirstPolicyRaces
  StartRecordIsWhatThePageShowed
  AnalysisIsRestorable
CHECK_DEADLOCK FALSE
