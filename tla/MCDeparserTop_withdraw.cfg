CONSTANTS
  SHIFT_WIDTH = 2
  TYPE_WIDTH = 1
  TypesPerUnit = 2
  CANDI_NUM = 4
  TYPE_NUM = 1
  KEY_FILED_NUM = 2
  RULE_NUM = 2
  DEPARSER = TRUE
  NUM_LAYER = 2
  Configs <- ReconfConfigs
  HeadInputs <- OneHead
  MetaInputs <- OneMeta
  ConfInputs <- WithdrawWords
  MaxSlices = 3
  MaxPackets = 1
  MaxWords = 3
SPECIFICATION Spec
INVARIANTS
  InvalidKeyRests

