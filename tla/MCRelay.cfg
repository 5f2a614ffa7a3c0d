CONSTANTS
  Total = 4
  Bound = 2
  Directions = {"read", "write"}
  Writes = {0, 1, 3}
  Reads = {0, 1, 3}
  MayCancel = TRUE
  MayLeave = TRUE
SPECIFICATION FairSpec
INVARIANTS TypeOK WithinBound BytesConserved DenialAfterDrain DenialOutranks NoLostWakeup
PROPERTIES PipeSpec DenialReachesReader StreamCompletes
CHECK_DEADLOCK FALSE
