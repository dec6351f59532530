CONSTANTS
  Calls = {c1, c2, c3, c4}
  Uploads = {u1, u2}
  PartNumbers = {1, 2}
  Kinds = {"uploadPart", "complete", "abort", "put", "delete", "get"}
  Absent = Absent
  None = None
  Blank = Blank
SPECIFICATION MultipartSpec
SYMMETRY Symmetry
CHECK_DEADLOCK FALSE
INVARIANTS
  PointedPartsExist
  ReadersServed
  NoGarbage
