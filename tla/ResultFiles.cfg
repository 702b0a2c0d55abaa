SPECIFICATION LiveSpec
CONSTANTS
  b1 = b1  b2 = b2  r1 = r1  NoOne = NoOne
  Batches = {b1, b2}
  WithErrors <- MCWithErrors
  Readers = {r1}
  MaxFaults = 2
INVARIANTS MissingBlobIsDue RowsAreWhole OrphansAreFaults FailedDownloadWasDue
PROPERTIES EveryResultPurged
CHECK_DEADLOCK FALSE
