SPECIFICATION WebhookSpec
CONSTANTS
  j1 = j1  j2 = j2  j3 = j3  r1 = r1  r2 = r2
  n1 = n1  n2 = n2  n3 = n3  l1 = l1
  NoName = NoName  NoJob = NoJob
  Jobs = {j1, j2, j3}
  Runs = {r1}
  RunOf <- OneRun
  LabelOf <- SameLabel
  FlyJobs = {j1, j2}
  Names = {n1, n2, n3}
  MachineLimit = 2
  MaxAge = 0  HardMaxAge = 0  JobTimeout = 1
  MaxBackoff = 1  MaxImage = 1  MaxFaults = 1
  RegisterAtMint = TRUE
SYMMETRY NameSymmetry
INVARIANTS DestroyOnlyDeregistered NoJobKilled WorkConsistent
