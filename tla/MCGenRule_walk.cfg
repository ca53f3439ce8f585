CONSTANTS
  SHIFT_WIDTH = 4
  TYPE_WIDTH = 2
  TypesPerUnit = 2
  CANDI_NUM = 2
  TYPE_NUM = 2
  KEY_FILED_NUM = 2
  RULE_NUM = 3
  DEPARSER = TRUE
  Tables <- MCTables
  None = None
  LastLayer = 3
  MaxRules = 20
SPECIFICATION FairSpec
CHECK_DEADLOCK FALSE
INVARIANTS
  ChainsParsed
  RulesNumbered
PROPERTIES
  Terminates
