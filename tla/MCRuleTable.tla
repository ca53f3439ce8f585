---------------------------- MODULE MCRuleTable ----------------------------
(* Instances of RuleTable: one type field and one key field, units of two  *)
(* bits, slices of two units.                                              *)
EXTENDS RuleTable

(* Two power-up values that differ in every field.                         *)
Rule0 ==
  [valid |-> FALSE,
   typeData |-> [i \in TypeIds |-> {}], typeMask |-> [i \in TypeIds |-> {}],
   typeOffset |-> [i \in TypeIds |-> 0],
   keyOffset_v |-> [j \in KeyIds |-> FALSE], keyOffset |-> [j \in KeyIds |-> 0],
   keyReplaceOffset |-> [j \in KeyIds |-> 0],
   headShift |-> 0, metaShift |-> 0]

Rule1 ==
  [valid |-> TRUE,
   typeData |-> [i \in TypeIds |-> {0}], typeMask |-> [i \in TypeIds |-> {0}],
   typeOffset |-> [i \in TypeIds |-> 1],
   keyOffset_v |-> [j \in KeyIds |-> TRUE], keyOffset |-> [j \in KeyIds |-> 1],
   keyReplaceOffset |-> [j \in KeyIds |-> 1],
   headShift |-> 1, metaShift |-> 1]

MCPowerUp == {Rule0, Rule1}
MCJunk == Rule1

CommitWords ==
  [layer : {1}, kind : {"rule"}, id : {0}, valid : BOOLEAN]
    \cup [layer : {1}, kind : {"rule"}, id : {1, 31}, valid : {TRUE}]

(* Every field of a rule, the type offset also under its alias; ids that   *)
(* name no field and an information type that names nothing.               *)
DraftWords ==
       [layer : {1}, kind : {"type"}, id : {0, 16}, data : {{}}, mask : {{0}}]
  \cup [layer : {1}, kind : {"typeOffset"}, id : {0, 16}, offset : {2}]
  \cup [layer : {1}, kind : {"keyOffset"}, id : {0}, valid : {TRUE}, offset : {2},
        replace : {0}]
  \cup [layer : {1}, kind : {"headShift", "metaShift"}, id : {0}, offset : {2}]
  \cup [layer : {1}, kind : {"reserved"}, id : {0}]

MCAllWords == CommitWords \cup DraftWords
=============================================================================
