SPECIFICATION FairSpec
CONSTANTS
  j1 = j1  j2 = j2  j3 = j3  r1 = r1  r2 = r2
  n1 = n1  n2 = n2  n3 = n3  l1 = l1
  NoName = NoName  NoJob = NoJob
  Jobs = {j1}
  Runs = {r1}
  RunOf <- OneRun
  LabelOf <- SameLabel
  FlyJobs = {j1}
  Names = {n1, n2}
  MachineLimit = 1
  MaxAge = 1  HardMaxAge = 2  JobTimeout = 1
  MaxBackoff = 1  MaxImage = 1  MaxFaults = 1
  RegisterAtMint = TRUE
PROPERTIES MachinesGo QueuedJobsServed
