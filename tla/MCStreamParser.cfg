CONSTANTS
  SHIFT_WIDTH = 1
  TYPE_WIDTH = 1
  TypesPerUnit = 1
  CANDI_NUM = 4
  TYPE_NUM = 1
  KEY_FILED_NUM = 1
  RULE_NUM = 1
  DEPARSER = FALSE
  PKT_NUM = 2
  CntHeadMod = 4
  FifoWords = 8
  Tokens <- MCTokens
  Blank = blank
  MaxLen = 3
  NUM_LAYER = 2
  Configs <- MCConfigs
  MaxPackets = 2
  MaxResets = 1
SPECIFICATION Spec
INVARIANTS
  ParsedAsTold
