CONSTANTS
  SHIFT_WIDTH = 1
  TYPE_WIDTH = 1
  TypesPerUnit = 1
  CANDI_NUM = 3
  TYPE_NUM = 1
  KEY_FILED_NUM = 2
  RULE_NUM = 1
  DataInputs <- MCData
  MetaInputs <- MCMetas
  FieldInputs <- MCFields
  MaxSlices = 3
SPECIFICATION HeadSpec
INVARIANTS
  HeadTypeOK
  StreamShifted
  MetaExtended
