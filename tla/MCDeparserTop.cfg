CONSTANTS
  SHIFT_WIDTH = 2
  TYPE_WIDTH = 1
  TypesPerUnit = 2
  CANDI_NUM = 4
  TYPE_NUM = 1
  KEY_FILED_NUM = 2
  RULE_NUM = 2
  DEPARSER = TRUE
  NUM_LAYER = 4
  Configs <- ReplaceConfigs
  HeadInputs <- TwoHeads
  MetaInputs <- OneMeta
  ConfInputs <- ReconfWords
  MaxSlices = 4
  MaxPackets = 2
  MaxWords = 1
SPECIFICATION Spec
INVARIANTS
  TypeOK
  FieldsReplaced
