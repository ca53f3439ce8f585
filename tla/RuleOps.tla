------------------------------- MODULE RuleOps -------------------------------
(***************************************************************************)
(* The rule path of a layer as operators on its registers: Rule_Conf       *)
(* (configuration words assemble a rule in the staging register            *)
(* o_type_rule, then commit it) and Lookup_Type (the rule RAM and the      *)
(* prioritised masked match).                                              *)
(***************************************************************************)
EXTENDS ParserPkg

CONSTANT DEPARSER   \* the parameter of Rule_Conf and Lookup_Type

ASSUME DeparserAssumption == DEPARSER \in BOOLEAN

(* Ids are the five address bits B_EXTR_ID; the type offset is selected by *)
(* four of them.                                                           *)
ExtrIds == 0 .. 31
TypeOffsetIdMod == 16

TypeRule ==
  [valid         : BOOLEAN,
   typeData      : [TypeIds -> Type],
   typeMask      : [TypeIds -> Type],
   typeOffset    : [TypeIds -> TypeOffsets],
   keyOffset_v   : [KeyIds -> BOOLEAN],
   keyOffset     : [KeyIds -> UnitIds],
   keyReplaceOffset : [KeyIds -> UnitIds],
   headShift     : UnitIds,
   metaShift     : UnitIds]

-----------------------------------------------------------------------------
(* A configuration word: the decoded address (layer byte, information      *)
(* type, id) and the write data its information type reads.  A key-offset  *)
(* word has the offset in bits [4:0], the replace offset in [12:8] and the *)
(* valid bit in [16].                                                      *)
Kinds == {"rule", "type", "typeOffset", "keyOffset", "headShift", "metaShift", "reserved"}

ConfWord ==
       [layer : Nat, kind : {"rule"}, id : ExtrIds, valid : BOOLEAN]
  \cup [layer : Nat, kind : {"type"}, id : ExtrIds, data : Type, mask : Type]
  \cup [layer : Nat, kind : {"typeOffset"}, id : ExtrIds, offset : Nat]
  \cup [layer : Nat, kind : {"keyOffset"}, id : ExtrIds, valid : BOOLEAN, offset : Nat,
        replace : Nat]
  \cup [layer : Nat, kind : {"headShift", "metaShift"}, id : ExtrIds, offset : Nat]
  \cup [layer : Nat, kind : {"reserved"}, id : ExtrIds]

(* What Rule_Conf does to the staging register on one word: the word's     *)
(* field of the rule, under the word's id, takes the word's data.          *)
Staged(stage, w) ==
  [valid       |-> IF w.kind = "rule" THEN w.valid ELSE stage.valid,
   typeData    |-> [i \in TypeIds |->
      IF w.kind = "type" /\ w.id = i THEN w.data ELSE stage.typeData[i]],
   typeMask    |-> [i \in TypeIds |->
      IF w.kind = "type" /\ w.id = i THEN w.mask ELSE stage.typeMask[i]],
   typeOffset  |-> [i \in TypeIds |->
      IF w.kind = "typeOffset" /\ w.id % TypeOffsetIdMod = i
        THEN w.offset % TypeCandiNum ELSE stage.typeOffset[i]],
   keyOffset_v |-> [j \in KeyIds |->
      IF w.kind = "keyOffset" /\ w.id = j THEN w.valid ELSE stage.keyOffset_v[j]],
   keyOffset   |-> [j \in KeyIds |->
      IF w.kind = "keyOffset" /\ w.id = j THEN w.offset % CANDI_NUM ELSE stage.keyOffset[j]],
   keyReplaceOffset |-> [j \in KeyIds |->
      IF w.kind = "keyOffset" /\ w.id = j
        THEN IF DEPARSER THEN w.offset % CANDI_NUM ELSE 0
        ELSE stage.keyReplaceOffset[j]],
   headShift   |-> IF w.kind = "headShift" THEN w.offset % CANDI_NUM ELSE stage.headShift,
   metaShift   |-> IF w.kind = "metaShift" THEN w.offset % CANDI_NUM ELSE stage.metaShift]

(* Mutation of Committing: the id is not compared with the rule numbers.   *)
CommittingAnyId(w) == IF w.kind = "rule" THEN {w.id} ELSE {}

(* o_typeRule_wren after one word: the rule the word commits, for a clock. *)
Committing(w) == IF w.kind = "rule" THEN {w.id} \cap RuleIds ELSE {}

(* Lookup_Type's rule registers: each takes the staged rule on its wren.   *)
Written(table, wren, stage) ==
  [i \in RuleIds |-> IF i \in wren THEN stage ELSE table[i]]

(* Reset clears the valid bits and nothing else.                           *)
Invalidated(table) == [i \in RuleIds |-> [table[i] EXCEPT !.valid = FALSE]]

(* What an invalid rule amounts to.                                        *)
NoRule == [valid |-> FALSE]
Shown(rule) == IF rule.valid THEN rule ELSE NoRule

-----------------------------------------------------------------------------
(* w_hit_rule, and the one rule the priority encoder keeps of it.          *)
HitRules(table, type) ==
  {i \in RuleIds :
     /\ table[i].valid
     /\ \A j \in TypeIds : table[i].typeMask[j] \cap type[j] = table[i].typeData[j]}

RstOf(rule) ==
  [typeOffset  |-> rule.typeOffset,
   keyOffset_v |-> rule.keyOffset_v,
   keyOffset   |-> rule.keyOffset,
   headShift   |-> rule.headShift,
   metaShift   |-> rule.metaShift]

(* The result is the hit rule of the lowest number; a miss ORs nothing     *)
(* together and reads as all zeros, not as "no result".                    *)
FirstHit(table, type) ==
  LET hits == HitRules(table, type) IN CHOOSE i \in hits : \A k \in hits : i <= k

LookupType(table, type) ==
  IF HitRules(table, type) = {} THEN ZeroRst ELSE RstOf(table[FirstHit(table, type)])

(* The select mask of the replace offsets is REP_OFFSET_WIDTH + 1 bits     *)
(* wide, one bit more than a key number: higher bits of an offset are lost.*)
RepOffsetMod == 2 * KEY_FILED_NUM

(* k_replaceOffset: where the keys of the hit rule's header are written.   *)
LookupReplace(table, type) ==
  [j \in KeyIds |->
     IF ~DEPARSER \/ HitRules(table, type) = {} THEN 0
     ELSE table[FirstHit(table, type)].keyReplaceOffset[j] % RepOffsetMod]
=============================================================================
