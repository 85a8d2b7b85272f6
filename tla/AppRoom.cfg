SPECIFICATION Spec
CONSTANTS
  Jobs <- AppJobs
  PageRecords = 3
  RecordBytes = 4
  SigLength = 5
  BaseAddress = 16384
INVARIANT EveryAppFieldAgrees
