--------------------------- MODULE MCDeparserTop ---------------------------
(* Instances of DeparserTop: units of two bits, of which the type field is *)
(* one: field values are told apart from the packet's own units.           *)
EXTENDS DeparserTop

(* What a layer is told: the type in the second candidate of unit t, the   *)
(* keys at these units.                                                    *)
Info(t, keys, hs, ms) ==
  [typeOffset  |-> [i \in TypeIds |-> 2 * t + 1],
   keyOffset_v |-> [j \in KeyIds |-> j < Len(keys)],
   keyOffset   |-> [j \in KeyIds |-> IF j < Len(keys) THEN keys[j + 1] ELSE 0],
   headShift   |-> hs, metaShift |-> ms]

Places(seq) == [j \in KeyIds |-> IF j < Len(seq) THEN seq[j + 1] ELSE 0]

(* A rule as the test benches load them, with replace offsets of its own.  *)
Rule(valid, data, mask, info, replace) ==
  [valid |-> valid,
   typeData |-> [i \in TypeIds |-> data], typeMask |-> [i \in TypeIds |-> mask],
   typeOffset |-> info.typeOffset,
   keyOffset_v |-> info.keyOffset_v, keyOffset |-> info.keyOffset,
   keyReplaceOffset |-> Places(replace),
   headShift |-> info.headShift, metaShift |-> info.metaShift]

Table(first, second) == [i \in RuleIds |-> IF i = 0 THEN first ELSE second]

NoneRule == Rule(FALSE, {}, {}, Info(0, <<>>, 0, 0), <<>>)

(* Three headers whose fields lie in the first slice and, by carry, in the *)
(* second; the second header's rule depends on a type field.               *)
Crossing ==
  [rst |-> Info(0, <<1, 2>>, 1, 2), replace |-> Places(<<3, 1>>),
   tables |-> [k \in Layers |->
     Table(Rule(TRUE, {0}, {0}, Info(1, <<0, 2>>, 2, 0), IF k = 1 THEN <<3, 0>> ELSE <<2, 1>>),
           Rule(k = 1, {}, {}, Info(2, <<3>>, 1, 1), <<2>>))]]

(* The meta shifts of the first two headers fill a slice, so the third     *)
(* layer moves the base slice on.  The fields of the fourth header lie in  *)
(* the second slice and, by carry, in the third.                           *)
Moving ==
  [rst |-> Info(0, <<0, 3>>, 1, 3), replace |-> Places(<<3, 0>>),
   tables |-> [k \in Layers |->
     Table(IF k = 3 THEN Rule(TRUE, {}, {}, Info(0, <<0, 1>>, 0, 0), <<1, 3>>)
                    ELSE Rule(TRUE, {0}, {0}, Info(0, <<>>, 1, IF k = 1 THEN 3 ELSE 0), <<>>),
           Rule(k < 3, {}, {}, Info(0, <<>>, 2, IF k = 1 THEN 2 ELSE 0), <<>>))]]

ReplaceConfigs == {Crossing, Moving}

(* Bit 0 of a unit is the type field, bit 1 marks a field value.           *)
Values(ones) == [u \in UnitIds |-> IF u \in ones THEN {0, 1} ELSE {1}]
Packet(ones) == [u \in UnitIds |-> IF u \in ones THEN {0} ELSE Zero]

TwoHeads == {Values({0, 2}), Values({1})}
OneMeta == {Packet({1})}
OneHead == {Values({0, 2})}

-----------------------------------------------------------------------------
(* Rule 0 of layer 1 becomes a copy of rule 1 or goes, under traffic, or a *)
(* rule it does not have is written; the first key of layer 0 is taken     *)
(* from another unit, to where it was put.                                 *)
ReconfWords ==
       [layer : {1}, kind : {"rule"}, id : {0}, valid : BOOLEAN]
  \cup [layer : {1}, kind : {"rule"}, id : {7}, valid : {FALSE}]
  \cup [layer : {0}, kind : {"keyOffset"}, id : {0}, valid : {TRUE}, offset : {2}, replace : {3}]

(* For a run that withdraws the keys of layer 0.                           *)
ReconfConfigs == {Crossing}
WithdrawWords ==
  [layer : {0}, kind : {"keyOffset"}, id : KeyIds, valid : {FALSE}, offset : {0}, replace : {0}]
=============================================================================
