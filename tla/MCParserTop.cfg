CONSTANTS
  SHIFT_WIDTH = 1
  TYPE_WIDTH = 1
  TypesPerUnit = 1
  CANDI_NUM = 4
  TYPE_NUM = 1
  KEY_FILED_NUM = 2
  RULE_NUM = 2
  DEPARSER = FALSE
  NUM_LAYER = 3
  Configs <- TwoConfigs
  DataInputs <- FewData
  ConfInputs <- TestWords
  MaxSlices = 3
  MaxPackets = 2
  MaxWords = 2
SPECIFICATION Spec
INVARIANTS
  TypeOK
  HeadParsed
  MetaParsed
