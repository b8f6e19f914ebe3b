SPECIFICATION Spec
CONSTANTS
  Runs = {r1, r2}
  Users = {u1, u2}
  None = None
  Profiles <- MCProfiles
  Answers <- MCAnswers
  Version = "10.13"
  Username = "admin"
  EventTypes = {"RUN_STARTED", "PLATFORM_IDENTIFIED", "RUN_COMPLETED", "RUN_FAILED"}
  MaxFaults = 2
  MaxCrashes = 1
  Releases <- MCReleases
  Machine = "X86_64"
  ServerOutputs <- MCServerOutputs
  UnixProfiles <- MCUnixProfiles
SYMMETRY Symmetry
INVARIANTS RunEndsWhole OmissionNeverPasses
CHECK_DEADLOCK FALSE
