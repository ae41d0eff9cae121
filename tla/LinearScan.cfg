SPECIFICATION Spec
CONSTANTS
  LiveRanges <- MCLiveRanges
  RegCounts <- MCRegCounts
INVARIANTS ConcurrentApart RegistersConserved
PROPERTY SpillsTheLongest
CHECK_DEADLOCK FALSE
