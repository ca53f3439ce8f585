----------------------------- MODULE ParserLayer -----------------------------
(***************************************************************************)
(* Parser_Layer as an operator on its registers.  Stage p1 extracts the    *)
(* type and key fields of the arriving slice; the lookup of the types runs *)
(* beside Shift_Head and is delayed to leave with the slice it belongs to, *)
(* so that it tells the next layer where the next header's fields are.     *)
(***************************************************************************)
EXTENDS RuleOps, ShiftHead

LayerInfo == [head : Slice, meta : Slice, info : LookupRst]

LayerRegs ==
  [type      : [TypeIds -> Type],         \* r_extract_data of extract_type_field
   key       : [KeyIds -> Unit],          \* r_extract_data of extract_key_field
   head      : Slice, meta : Slice,       \* l_head, l_meta
   headShift : UnitIds, metaShift : UnitIds,
   s1        : LookupRst, s2 : LookupRst, \* lookup_rst_s1, lookup_rst_s2
   sh        : ShiftHeadRegs,
   stage     : TypeRule,
   wren      : SUBSET RuleIds,
   table     : [RuleIds -> TypeRule]]

(* Mutation of LayerOut: the lookup result is not delayed (lookup_rst_s1). *)
LayerOutEarly(layer) ==
  [head |-> layer.sh.head, meta |-> layer.sh.meta, info |-> layer.s1]

(* o_layer_info.                                                           *)
LayerOut(layer) ==
  [head |-> layer.sh.head, meta |-> layer.sh.meta, info |-> layer.s2]

(* One clock, with the configuration word the layer is selected for, or a  *)
(* word of kind "none".                                                    *)
LayerClock(layer, in, w) ==
  [type      |-> ExtractTypes(in.head.data, in.info),
   key       |-> ExtractKeys(in.head.data, in.info),
   head      |-> in.head,
   meta      |-> in.meta,
   headShift |-> in.info.headShift,
   metaShift |-> in.info.metaShift,
   s1        |-> LookupType(layer.table, layer.type),
   s2        |-> layer.s1,
   sh        |-> ShiftHeadClock(layer.sh, layer.head, layer.meta,
                                layer.headShift, layer.metaShift, layer.key),
   stage     |-> Staged(layer.stage, w),
   wren      |-> Committing(w),
   table     |-> Written(layer.table, layer.wren, layer.stage)]

(* i_rst_n reaches the rule path only.                                     *)
LayerReset(layer) ==
  [layer EXCEPT !.wren = {}, !.table = Invalidated(layer.table)]
=============================================================================
