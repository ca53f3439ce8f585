-------------------------- MODULE ShiftReplaceHead --------------------------
(***************************************************************************)
(* Shift_Replace_Head as an operator on its registers: the head moves as   *)
(* in Shift_Head; units of the metadata stream (in the deparser, the       *)
(* packet) are replaced by the extracted fields.  Fields are aimed at a    *)
(* base slice, or with their carry set at the slice after it; a layer that *)
(* is told so clears the shift flag of the base slice, which makes the     *)
(* slice behind it the base of the layers that follow.                     *)
(***************************************************************************)
EXTENDS ParserPkg

(* Key numbers are REP_OFFSET_WIDTH bits, enough for KEY_FILED_NUM keys.   *)
ASSUME KeyNumAssumption == KEY_FILED_NUM \in {1, 2, 4, 8}

(* For every unit of a slice: whether a field replaces it, whether that is *)
(* in the slice after the base slice, and the number of the field.         *)
Targets == [v : [UnitIds -> BOOLEAN], carry : [UnitIds -> BOOLEAN], key : [UnitIds -> KeyIds]]

NoTargets ==
  [v |-> [u \in UnitIds |-> FALSE], carry |-> [u \in UnitIds |-> FALSE],
   key |-> [u \in UnitIds |-> 0]]

(* The bitwise OR of a set of key numbers.                                 *)
OrOf(keys) ==
  LET Bit(n) == IF \E k \in keys : (k \div n) % 2 = 1 THEN n ELSE 0
  IN  Bit(1) + Bit(2) + Bit(4)

(* The targets of the valid keys, key k aimed at place[k] counted from the *)
(* start of the base slice.  Keys aimed at one unit OR their numbers.      *)
TargetsOf(valid, place) ==
  LET At(u) == {k \in KeyIds : valid[k] /\ place[k] % CANDI_NUM = u}
  IN  [v     |-> [u \in UnitIds |-> At(u) # {}],
       carry |-> [u \in UnitIds |-> \E k \in At(u) : place[k] >= CANDI_NUM],
       key   |-> [u \in UnitIds |-> OrOf(At(u))]]

ShiftReplaceRegs ==
  [preHead   : Slice, preMeta : Slice,   \* the input, one clock old
   head      : Slice, meta    : Slice,   \* the output, two clocks old
   headShift : UnitIds,                  \* i_headShift of the last start slice
   startBit  : BOOLEAN,                  \* r_startBit_metaTag: preMeta is the base
   startBitCarry : BOOLEAN,              \* the slice before it was
   toShift   : BOOLEAN,                  \* i_metaShift of the last start slice
   field     : [KeyIds -> Unit],         \* i_extField of the last start slice
   target    : Targets]                  \* i_replaceOffset of the last start slice

(* w_startBit_metaTag.                                                     *)
BaseSlice(sr, iMeta) == (iMeta.shift /\ ~sr.preMeta.shift) \/ iMeta.tail

(* r_head: preHead, shifted if it is a slice of a packet.                  *)
MovedHead(sr, iHead) ==
  IF sr.preHead.valid
    THEN [sr.preHead EXCEPT !.data = ShiftedData(sr.preHead.data, iHead.data, sr.headShift)]
    ELSE sr.preHead

(* Mutation of ReplacedMeta: the slice after the base takes its fields     *)
(* from the targets without carry.                                         *)
ReplacedMetaCarryLost(sr) ==
  LET Replace(carry) ==
        [u \in UnitIds |->
           IF sr.target.v[u] /\ sr.target.carry[u] = carry
             THEN sr.field[sr.target.key[u]] ELSE sr.preMeta.data[u]]
  IN  IF sr.startBit
        THEN [sr.preMeta EXCEPT !.data = Replace(FALSE), !.shift = ~sr.toShift]
      ELSE IF sr.startBitCarry THEN [sr.preMeta EXCEPT !.data = Replace(FALSE)]
      ELSE sr.preMeta

(* r_meta: preMeta, with the fields aimed at it.                           *)
ReplacedMeta(sr) ==
  LET Replace(carry) ==
        [u \in UnitIds |->
           IF sr.target.v[u] /\ sr.target.carry[u] = carry
             THEN sr.field[sr.target.key[u]] ELSE sr.preMeta.data[u]]
  IN  IF sr.startBit
        THEN [sr.preMeta EXCEPT !.data = Replace(FALSE), !.shift = ~sr.toShift]
      ELSE IF sr.startBitCarry THEN [sr.preMeta EXCEPT !.data = Replace(TRUE)]
      ELSE sr.preMeta

ShiftReplaceClock(sr, iHead, iMeta, iHeadShift, iMetaShift, iExtField, iTarget) ==
  [preHead   |-> iHead,
   preMeta   |-> iMeta,
   head      |-> MovedHead(sr, iHead),
   meta      |-> ReplacedMeta(sr),
   headShift |-> IF iHead.start THEN iHeadShift ELSE sr.headShift,
   startBit  |-> BaseSlice(sr, iMeta),
   startBitCarry |-> sr.startBit,
   toShift   |-> IF iHead.start THEN iMetaShift ELSE sr.toShift,
   field     |-> IF iHead.start THEN iExtField ELSE sr.field,
   target    |-> IF iHead.start THEN iTarget ELSE sr.target]
=============================================================================
