CONSTANTS
  Deployments = {"call"}
  Parked <- MCParked
  None = None
  Absent = Absent
  Mask = Mask
  ssn = ssn
  note = note
  Redacted = Redacted
  Patterns <- MCPatterns
  Regulated = {ssn}
  MaxNormalizeLength = 5
  MaxPiiScanLength = 4
  Anchored <- MCAnchored
  RegExpFinds <- MCFinds
  RegExpIs <- MCIs
  Jobs <- KeepZeroJobs
  Texts <- MCTexts
  Providers <- MCProviders
  DefaultProvider = "keyed"
  Addresses <- MCAddresses
  Nil = Nil
  Sockets = {s1, s2}
  ada = ada
  bob = bob
  Asked <- MCAsked
  Tools = {"read", "write", "ping", "odd name"}
  Needs <- MCNeeds
  LegalNames = {"read", "write", "ping", "gone"}
  Subjects = {ada, bob}
  Nobody = Nobody
  Forged = Forged
  Dotted = Dotted
  Opaque = Opaque
  Suspect = {".."}
  OpenPaths <- MCOpenPaths
  Granted <- MCGranted
  MaxDeaths = 1
  NoQuery = NoQuery
  Queries = {q1}
  app1 = app1
  app2 = app2
  Apps = {app1, app2}
  NoApp = NoApp
  Anonymous = Anonymous
  Unrelated = Unrelated
  Logs <- MCLogs
  Lanes = {l1, l2}
  MaxLogs = 2
  MaxFailures = 1
SPECIFICATION Spec
CHECK_DEADLOCK FALSE
INVARIANTS RedactionCovers
