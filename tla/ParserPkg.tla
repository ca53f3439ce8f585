------------------------------ MODULE ParserPkg ------------------------------
(***************************************************************************)
(* The widths, tags and record types of parser_pkg.sv, and the two field   *)
(* movers every layer is built from: Extract_Field and the placement of    *)
(* the extracted fields into the metadata slice.                           *)
(*                                                                         *)
(* A w-bit word is the set of the positions of its one bits, so OR is      *)
(* union, AND is intersection and zero is the empty set.  A slice of       *)
(* head or metadata is a function from unit numbers (a unit is SHIFT_WIDTH *)
(* bits; unit 0 is the most significant one, the first on the wire) to     *)
(* units.                                                                  *)
(***************************************************************************)
EXTENDS Integers

CONSTANTS
  SHIFT_WIDTH,    \* bits of a unit, and of a key field
  TYPE_WIDTH,     \* bits of a type field
  TypesPerUnit,   \* type fields of a unit (SHIFT_WIDTH / TYPE_WIDTH)
  CANDI_NUM,      \* units of a slice: HEAD_CANDI_NUM, KEY_CANDI_NUM, META_CANDI_NUM
  TYPE_NUM,       \* type fields extracted by a layer
  KEY_FILED_NUM,  \* key fields extracted by a layer
  RULE_NUM        \* rules of a layer

ASSUME WidthAssumption ==
  /\ TYPE_WIDTH \in Nat \ {0} /\ TypesPerUnit \in Nat \ {0}
  /\ SHIFT_WIDTH = TYPE_WIDTH * TypesPerUnit
  /\ CANDI_NUM \in Nat \ {0}

ASSUME NumAssumption ==
  /\ TYPE_NUM \in Nat \ {0} /\ KEY_FILED_NUM \in Nat \ {0} /\ RULE_NUM \in Nat \ {0}
  /\ KEY_FILED_NUM <= CANDI_NUM
  /\ RULE_NUM <= 8      \* RULE_W_PRIORITY: "no more than 8 rules"

-----------------------------------------------------------------------------
Word(w) == SUBSET (0 .. w - 1)
Zero == {}

Unit == Word(SHIFT_WIDTH)
Type == Word(TYPE_WIDTH)

TypeCandiNum == CANDI_NUM * TypesPerUnit

UnitIds == 0 .. CANDI_NUM - 1         \* a KEY/HEAD_SHIFT/META_SHIFT offset
TypeOffsets == 0 .. TypeCandiNum - 1
TypeIds == 0 .. TYPE_NUM - 1
KeyIds == 0 .. KEY_FILED_NUM - 1
RuleIds == 0 .. RULE_NUM - 1

Data == [UnitIds -> Unit]
ZeroData == [u \in UnitIds |-> Zero]

(* A slice with its tag.  "shift" is TAG_SHIFT_BIT, "offset" the low tag   *)
(* bits: in a metadata slice, the number of the first free unit.           *)
Slice == [data : Data, valid : BOOLEAN, start : BOOLEAN, tail : BOOLEAN,
          shift : BOOLEAN, offset : UnitIds]

ZeroSlice == [data |-> ZeroData, valid |-> FALSE, start |-> FALSE,
              tail |-> FALSE, shift |-> FALSE, offset |-> 0]

-----------------------------------------------------------------------------
(* What a layer needs to know of the header in front of it: where to find  *)
(* its type fields and key fields and how far head and metadata move.      *)
LookupRst ==
  [typeOffset  : [TypeIds -> TypeOffsets],
   keyOffset_v : [KeyIds -> BOOLEAN],
   keyOffset   : [KeyIds -> UnitIds],
   headShift   : UnitIds,
   metaShift   : UnitIds]

ZeroRst ==
  [typeOffset  |-> [i \in TypeIds |-> 0],
   keyOffset_v |-> [j \in KeyIds |-> FALSE],
   keyOffset   |-> [j \in KeyIds |-> 0],
   headShift   |-> 0,
   metaShift   |-> 0]

(* Candidate "off" of the type fields: TYPE_WIDTH bits of a unit, the      *)
(* first candidate of a unit being its most significant bits.              *)
TypeField(data, off) ==
  LET low == TYPE_WIDTH * (TypesPerUnit - 1 - (off % TypesPerUnit))
  IN  {b \in 0 .. TYPE_WIDTH - 1 : low + b \in data[off \div TypesPerUnit]}

(* The type fields and key fields a layer extracts (a disabled key field   *)
(* reads as zero).                                                         *)
ExtractTypes(data, info) ==
  [i \in TypeIds |-> TypeField(data, info.typeOffset[i])]

ExtractKeys(data, info) ==
  [j \in KeyIds |-> IF info.keyOffset_v[j] THEN data[info.keyOffset[j]] ELSE Zero]

(* The key fields moved to unit "at" of a metadata slice, field 0 first;   *)
(* a field that would lie beyond the slice is cut off.                     *)
PlaceFields(field, at) ==
  [u \in UnitIds |-> IF u - at \in KeyIds THEN field[u - at] ELSE Zero]

(* The CANDI_NUM units that start at unit "shift" of the pair pre, next.   *)
ShiftedData(pre, next, shift) ==
  [u \in UnitIds |-> IF u + shift < CANDI_NUM THEN pre[u + shift]
                                              ELSE next[u + shift - CANDI_NUM]]

MergeData(d, e) == [u \in UnitIds |-> d[u] \cup e[u]]
=============================================================================
