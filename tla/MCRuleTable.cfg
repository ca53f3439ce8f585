CONSTANTS
  SHIFT_WIDTH = 2
  TYPE_WIDTH = 1
  TypesPerUnit = 2
  CANDI_NUM = 2
  TYPE_NUM = 1
  KEY_FILED_NUM = 1
  RULE_NUM = 2
  DEPARSER = TRUE
  ConfInputs <- MCAllWords
  PowerUp <- MCPowerUp
  Junk <- MCJunk
SPECIFICATION Spec
INVARIANTS
  TypeOK
  CompleteDraftIsOwn
PROPERTIES
  ImplementsStore
