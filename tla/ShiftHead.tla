------------------------------ MODULE ShiftHead ------------------------------
(***************************************************************************)
(* Shift_Head (Head_Shift.sv) as an operator on its registers: on every    *)
(* clock, the head slices are moved to the left by the shift sampled with  *)
(* the start slice, across the border of two slices, and the metadata      *)
(* slice that comes with the start slice takes the extracted fields.       *)
(***************************************************************************)
EXTENDS ParserPkg

ShiftHeadRegs ==
  [preHead   : Slice, preMeta : Slice,   \* the input, one clock old
   head      : Slice, meta    : Slice,   \* the output, two clocks old
   headShift : UnitIds,                  \* i_headShift of the last start slice
   metaShift : UnitIds,                  \* the first free unit after this layer
   startBit  : BOOLEAN,                  \* preMeta takes the fields
   toShift   : BOOLEAN,                  \* i_metaShift was all ones
   extMeta   : Data]                     \* the fields at their place

AllOnes == CANDI_NUM - 1                 \* &i_metaShift

(* w_startBit_metaTag: the slice in which metadata fields are placed is    *)
(* the first to ask for a shift after one that did not, or the tail.       *)
StartBitMetaTag(sh, iMeta) == (iMeta.shift /\ ~sh.preMeta.shift) \/ iMeta.tail

(* Mutations of MetaShiftSum: the sum is not cut to its width; the meta    *)
(* shift of the packet before is used.                                     *)
MetaShiftSumUncut(sh, iHead, iMeta, iMetaShift) ==
  (IF iHead.start THEN iMetaShift ELSE sh.metaShift) + iMeta.offset

MetaShiftSumStale(sh, iHead, iMeta, iMetaShift) ==
  (sh.metaShift + iMeta.offset) % CANDI_NUM

(* w_metaShift: the shift of this layer on top of the metadata's offset.   *)
MetaShiftSum(sh, iHead, iMeta, iMetaShift) ==
  ((IF iHead.start THEN iMetaShift ELSE sh.metaShift) + iMeta.offset) % CANDI_NUM

NextMetaShift(sh, iHead, iMeta, iMetaShift) ==
  IF StartBitMetaTag(sh, iMeta) THEN MetaShiftSum(sh, iHead, iMeta, iMetaShift)
  ELSE IF iHead.start THEN iMetaShift ELSE sh.metaShift

(* Mutation of NextHead: the tail, behind which nothing follows, is not    *)
(* shifted.                                                                *)
NextHeadButTail(sh, iHead) ==
  IF sh.preHead.valid /\ ~sh.preHead.tail
    THEN [sh.preHead EXCEPT !.data = ShiftedData(sh.preHead.data, iHead.data, sh.headShift)]
    ELSE sh.preHead

(* r_head: preHead, shifted if it is a slice of a packet.                  *)
NextHead(sh, iHead) ==
  IF sh.preHead.valid
    THEN [sh.preHead EXCEPT !.data = ShiftedData(sh.preHead.data, iHead.data, sh.headShift)]
    ELSE sh.preHead

(* r_meta: preMeta, with the fields and the new offset where they belong.  *)
NextMeta(sh) ==
  IF sh.startBit
    THEN [sh.preMeta EXCEPT !.data = MergeData(sh.preMeta.data, sh.extMeta),
                            !.shift = ~sh.toShift,
                            !.offset = sh.metaShift]
    ELSE sh.preMeta

ShiftHeadClock(sh, iHead, iMeta, iHeadShift, iMetaShift, iExtField) ==
  [preHead   |-> iHead,
   preMeta   |-> iMeta,
   head      |-> NextHead(sh, iHead),
   meta      |-> NextMeta(sh),
   headShift |-> IF iHead.start THEN iHeadShift ELSE sh.headShift,
   metaShift |-> NextMetaShift(sh, iHead, iMeta, iMetaShift),
   startBit  |-> StartBitMetaTag(sh, iMeta),
   toShift   |-> IF iHead.start THEN iMetaShift = AllOnes ELSE sh.toShift,
   extMeta   |-> IF iHead.start THEN PlaceFields(iExtField, iMeta.offset) ELSE sh.extMeta]
=============================================================================
