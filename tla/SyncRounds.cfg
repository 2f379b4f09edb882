SPECIFICATION Spec
CONSTANTS
  Handles = {1, 2}
  UuidOf <- MCUuidOf
  Refused = {1}
  Rounds = {1, 2}
  DryRuns = {FALSE}
  Reprocess = TRUE
  MaxItems = 0
  Batch = 2
  Overlap = 1
  Lateness = 1
  MaxTries = 2
  MaxTime = 3
  MaxFaults = 2
INVARIANT NothingSkipped
PROPERTY NotResent EveryItemSent
CHECK_DEADLOCK FALSE
