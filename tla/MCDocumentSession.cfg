SPECIFICATION FairSpec
CONSTANTS
  plain = plain
  headered = headered
  Image = {plain, headered}
  Plain = {plain}
  WithHeader <- MCWithHeader
  Path = {p}
  Absent = Absent
  NoProject = NoProject
  NoPath = NoPath
  NoRequest = NoRequest
  MaxSaves = 2
  MaxOpens = 1
  MaxRevision = 2
INVARIANTS
  PendingSaveIsServed
  PendingSaveIsOfThisDocument
  PendingOpenIsServed
  FollowUpHasItsSave
PROPERTIES
  NoSilentLoss
  OpensOnlyWhatWasSeen
  SavedMeansWritten
  SaveIsAnswered
  OpenIsAnswered
CHECK_DEADLOCK FALSE
