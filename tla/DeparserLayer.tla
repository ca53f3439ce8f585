---------------------------- MODULE DeparserLayer ----------------------------
(***************************************************************************)
(* Deparser_Layer as an operator on its registers: as Parser_Layer, with   *)
(* the running total of the meta shifts and the targets of the next        *)
(* header's fields computed behind the lookup, in the two clocks the slice *)
(* spends in Shift_Replace_Head.                                           *)
(***************************************************************************)
EXTENDS RuleOps, ShiftReplaceHead

(* The fields of layer_info_t beside head and meta.                        *)
DepInfo == [rst : LookupRst, target : Targets, total : UnitIds, totalCarry : BOOLEAN]

DepLayerInfo == [head : Slice, meta : Slice, info : DepInfo]

DepLayerRegs ==
  [type      : [TypeIds -> Type],
   key       : [KeyIds -> Unit],
   head      : Slice, meta : Slice,       \* l_head, l_meta
   info      : DepInfo,                   \* the other l_ registers
   s1        : [rst : LookupRst, replace : [KeyIds -> UnitIds],
                total : UnitIds, totalCarry : BOOLEAN],
   s2        : DepInfo,                   \* lookup_rst_s2
   sr        : ShiftReplaceRegs,
   stage     : TypeRule,
   wren      : SUBSET RuleIds,
   table     : [RuleIds -> TypeRule]]

(* o_layer_info.                                                           *)
DepLayerOut(layer) ==
  [head |-> layer.sr.head, meta |-> layer.sr.meta, info |-> layer.s2]

(* Where the fields of the layer after this one start.                     *)
Total(info) == info.rst.metaShift + info.total

(* One clock, with the configuration word the layer is selected for, or a  *)
(* word of kind "none".                                                    *)
DepLayerClock(layer, in, w) ==
  [type  |-> ExtractTypes(in.head.data, in.info.rst),
   key   |-> ExtractKeys(in.head.data, in.info.rst),
   head  |-> in.head,
   meta  |-> in.meta,
   info  |-> in.info,
   s1    |-> [rst        |-> LookupType(layer.table, layer.type),
              replace    |-> LookupReplace(layer.table, layer.type),
              total      |-> Total(layer.info) % CANDI_NUM,
              totalCarry |-> Total(layer.info) >= CANDI_NUM],
   s2    |-> [rst        |-> layer.s1.rst,
              target     |-> TargetsOf(layer.s1.rst.keyOffset_v,
                               [k \in KeyIds |-> layer.s1.replace[k] + layer.s1.total]),
              total      |-> layer.s1.total,
              totalCarry |-> layer.s1.totalCarry],
   sr    |-> ShiftReplaceClock(layer.sr, layer.head, layer.meta, layer.info.rst.headShift,
                               layer.info.totalCarry, layer.key, layer.info.target),
   stage |-> Staged(layer.stage, w),
   wren  |-> Committing(w),
   table |-> Written(layer.table, layer.wren, layer.stage)]

(* i_rst_n reaches the rule path only.                                     *)
DepLayerReset(layer) ==
  [layer EXCEPT !.wren = {}, !.table = Invalidated(layer.table)]
=============================================================================
