---------------------------- MODULE MCParserTop ----------------------------
(* An instance of ParserTop: units of one bit, which is also a type field; *)
(* two key fields.                                                         *)
EXTENDS ParserTop

Info(t, keys, hs, ms) ==
  [typeOffset  |-> [i \in TypeIds |-> t],
   keyOffset_v |-> [j \in KeyIds |-> j < Len(keys)],
   keyOffset   |-> [j \in KeyIds |-> IF j < Len(keys) THEN keys[j + 1] ELSE 0],
   headShift   |-> hs, metaShift |-> ms]

(* A rule for type fields equal to "data" where "mask" is set.             *)
Rule(valid, data, mask, info) ==
  [valid |-> valid,
   typeData |-> [i \in TypeIds |-> data], typeMask |-> [i \in TypeIds |-> mask],
   typeOffset |-> info.typeOffset,
   keyOffset_v |-> info.keyOffset_v, keyOffset |-> info.keyOffset,
   keyReplaceOffset |-> [j \in KeyIds |-> 0],
   headShift |-> info.headShift, metaShift |-> info.metaShift]

Table(first, second) == [i \in RuleIds |-> IF i = 0 THEN first ELSE second]

(* Two headers behind the first: which one follows is in the type field,   *)
(* and rule 1 matches every type, so that only the priority keeps it from  *)
(* a packet of type one.                                                   *)
Chain ==
  [info0  |-> Info(0, <<1, 2>>, 2, 2),
   tables |-> [k \in Layers |->
     Table(Rule(TRUE, {0}, {0}, Info(1, <<0, 3>>, 3, IF k = 1 THEN 1 ELSE 0)),
           Rule(k = 1, {}, {}, Info(2, <<3>>, 1, 0)))]]

(* The second layer knows no header: a packet of the first one's type zero *)
(* is a miss there, and every packet of layer two.                         *)
Missing ==
  [info0  |-> Info(1, <<0>>, 3, 1),
   tables |-> [k \in Layers |->
     Table(Rule(k = 1, {0}, {0}, Info(0, <<1, 0>>, 2, 2)),
           Rule(FALSE, {}, {}, Info(0, <<>>, 0, 0)))]]

TwoConfigs == {Chain, Missing}

Bits(ones) == [u \in UnitIds |-> IF u \in ones THEN {0} ELSE Zero]

FewData == {Bits({0, 2}), Bits({1})}

(* The host makes rule 0 of layer 1 a copy of rule 1, and stops layer 0    *)
(* from moving the head, under traffic; a rule 7 there is not, and layer 4 *)
(* is layer 0 to the two bits of the id that are looked at.                *)
TestWords ==
       [layer : {1}, kind : {"rule"}, id : {0, 7}, valid : {TRUE}]
  \cup [layer : {4}, kind : {"headShift"}, id : {0}, offset : {0}]
=============================================================================
