SPECIFICATION Spec
CONSTANTS
  SignBit = 16
  MsInNs = 3
  Lower <- LowerCase
  Studies <- BothStudies
INVARIANTS
  SnapshotsAreFirstSpans
  PoliciesMeanWhatTheySay
  StoredAsJudged
CHECK_DEADLOCK FALSE
