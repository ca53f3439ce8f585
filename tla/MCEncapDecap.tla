---------------------------- MODULE MCEncapDecap ----------------------------
(* An instance of EncapDecap: slices of three units, packets of up to four *)
(* slices and a slice counter that counts to two.                          *)
EXTENDS EncapDecap

Row(a, b, c) == [u \in UnitIds |-> CASE u = 0 -> a [] u = 1 -> b [] u = 2 -> c]

MCData == {Row({0}, {}, {0}), Row({}, {0}, {})}
MCHeads == {Row({}, {1}, {0})}
FieldData == Row({1}, {0, 1}, {1})

MCRequests ==
  [sliceOffset : 0 .. SliceNumMod - 1, dataOffset : UnitIds, length : UnitIds,
   en : {TRUE}, field : {FieldData}, headShift : {1}]
  \cup [sliceOffset : {0}, dataOffset : {1}, length : {0, 2}, en : {FALSE},
        field : {FieldData}, headShift : {2}]
=============================================================================
