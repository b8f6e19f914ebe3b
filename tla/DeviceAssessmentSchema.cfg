SPECIFICATION Spec
CONSTANTS
  Runs = {r1, r2}
  Users = {u1, u2}
  None = None
  Profiles <- MCProfiles
  Answers <- MCAnswers
  Version = "10.13"
  Username = "admin"
  EventTypes = {"RUN_STARTED", "RUN_COMPLETED", "RUN_FAILED"}
  MaxFaults = 0
  MaxCrashes = 0
  Releases <- MCReleases
  Machine = "X86_64"
  ServerOutputs <- MCServerOutputs
  UnixProfiles <- MCUnixProfiles
SYMMETRY Symmetry
INVARIANT FailureHasACause
CHECK_DEADLOCK FALSE
