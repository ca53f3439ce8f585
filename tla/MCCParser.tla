------------------------------ MODULE MCCParser ------------------------------
(* Instances of CParser: units of two bits, the lower one a type field;    *)
(* three layers of two rules; fields that overlap, fit and leave a hole.   *)
EXTENDS CParser

Bits(ones, twos) ==
  [u \in 0 .. HeadLen - 1 |-> (IF u \in ones THEN {0} ELSE {}) \cup (IF u \in twos THEN {1} ELSE {})]

MCHeads == {Bits({0, 3, 4}, {1, 4, 6}), Bits({1, 2, 6}, {0, 3}), Bits({}, {2, 5, 7})}

Rule(data, mask, hs, ms) ==
  [valid |-> TRUE,
   typeData |-> [i \in TypeIds |-> data], typeMask |-> [i \in TypeIds |-> mask],
   typeOffset |-> [i \in TypeIds |-> 1], keyOffset |-> [j \in KeyIds |-> j + 1],
   headShift |-> hs, metaShift |-> ms]
Off(rule) == [rule EXCEPT !.valid = FALSE]

Tables ==
  {[i \in RuleIds |-> IF i = 0 THEN r ELSE s] :
     r \in {Rule({}, {0}, 2, 1), Rule({}, {}, 1, 2)},
     s \in {Rule({0}, {0}, 3, 3), Rule({}, {0}, 1, 0), Off(Rule({}, {}, 0, 0))}}

(* The rules of layer 1 and those of the others.                           *)
MCPrograms ==
  {[k \in 0 .. NUM_LAYER - 1 |-> IF k = 1 THEN s ELSE t] : s, t \in Tables}

MCCallers ==
  [typeOffset : {[i \in TypeIds |-> 0], [i \in TypeIds |-> 2]},
   keyOffset : {[j \in KeyIds |-> 2 * j]}, headShift : {0, 1}, metaShift : {0, 1}]

(* These programs leave room for all calls.                                *)
ASSUME MCRoomy == Roomy(3, 5)
=============================================================================
