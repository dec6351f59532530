CONSTANTS
  Calls = {c1, c2, c3}
  Uploads = {u1}
  PartNumbers = {1}
  Kinds = {"uploadPart", "complete", "abort"}
  Absent = Absent
  None = None
SPECIFICATION MultipartSpec
CHECK_DEADLOCK FALSE
INVARIANT PointedPartsKept
