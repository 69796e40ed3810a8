CONSTANTS
  w1 = w1
  w2 = w2
  w3 = w3
  Workers = {w1, w2, w3}
  Jobs = {1, 2, 3, 4}
  JobIds <- Overlapping
  NoJob = NoJob
  NoWorker = NoWorker
  MaxFaults = 2
SPECIFICATION FairSpec
INVARIANTS
  ProcessedOnce
  DrainedOnReturn
PROPERTIES
  JobsEnd
