---------------------------- MODULE MCHeadStream ----------------------------
(* Instances of HeadStream: units of one or two bits, small slices.        *)
EXTENDS HeadStream

(* Slices that tell every unit of a packet from its neighbours: all ones,  *)
(* all zeros, and a slice whose first unit alone is set.                   *)
Ones == [u \in UnitIds |-> 0 .. SHIFT_WIDTH - 1]
Front == [u \in UnitIds |-> IF u = 0 THEN {0} ELSE Zero]

Back == [u \in UnitIds |-> IF u = CANDI_NUM - 1 THEN {0} ELSE Zero]

MCData == {Ones, Front, Back}

MCMetas ==
  {[data |-> Front, valid |-> TRUE, start |-> TRUE, tail |-> TRUE,
    shift |-> o # 2, offset |-> o] : o \in UnitIds}

MCFields == {[j \in KeyIds |-> {0}], [j \in KeyIds |-> IF j = 0 THEN Zero ELSE {0}]}
=============================================================================
