SPECIFICATION Spec
CONSTANTS
  plain = plain
  headered = headered
  Image = {plain, headered, edited}
  Plain = {plain}
  WithHeader <- MCWithHeader
  Path = {p}
  Absent = Absent
  NoProject = NoProject
  NoPath = NoPath
  NoRequest = NoRequest
  MaxSaves = 1
  MaxOpens = 2
  MaxRevision = 2
PROPERTY HeaderReplacesOnlyItsOriginal
CHECK_DEADLOCK FALSE
