SPECIFICATION LauncherSpec
CONSTANTS
  Null = Null
  Contents = {ContentA, ContentB}
  Criteria <- MCCriteria
  StandardRuns <- MCStandardRuns
  StorageRuns <- MCStorageRuns
  InventoryRuns <- MCInventoryRuns
  SnapshotRuns <- MCSnapshotRuns
  AdministratorRuns <- MCAdministratorRuns
  Consents <- MCConsents
  Bundle <- MCBundle
  Host <- MCHost
  Script <- MCScript
  SafetyPolicy <- MCPolicy
  Adapters <- MCAdapters
  ReferenceSnapshot <- MCReference
  AdapterCatalog <- MCCatalog
  MaxAttempts = 2
  MaxChanges = 2
  MaxElevations = 2
  MaxRelaunches = 1
INVARIANTS
  StoredScanIsWhole
  JudgedFromEvidence
  ResultIsOfTheConsent
PROPERTIES
  ScanIsNotReplaced
SYMMETRY ContentsSymmetry
CHECK_DEADLOCK FALSE
