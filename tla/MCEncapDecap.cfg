CONSTANTS
  SHIFT_WIDTH = 2
  TYPE_WIDTH = 1
  TypesPerUnit = 2
  CANDI_NUM = 3
  TYPE_NUM = 1
  KEY_FILED_NUM = 1
  RULE_NUM = 1
  SliceNumMod = 3
  DataInputs <- MCData
  HeadInputs <- MCHeads
  Requests <- MCRequests
  MaxSlices = 4
SPECIFICATION Spec
INVARIANTS
  TypeOK
  FieldInserted
  UnitsRemoved
