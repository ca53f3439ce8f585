----------------------------- MODULE HeadStream -----------------------------
(***************************************************************************)
(* One Shift_Head fed with the stream the pipeline carries: packets of     *)
(* contiguous slices, start to tail, with at least one empty slice between *)
(* two packets (the gap Gen_PHV_and_Conf_Parser leaves), and a single      *)
(* metadata slice beside the start slice.  The shifts and fields beside    *)
(* the other slices are whatever the lookup of a slice without a header    *)
(* produced: any value.                                                    *)
(***************************************************************************)
EXTENDS ShiftHead, Sequences

CONSTANTS
  DataInputs,    \* the contents a slice may have
  MetaInputs,    \* the metadata slices that come with a start slice
  FieldInputs,   \* the key fields a layer may have extracted
  MaxSlices      \* bound: slices of a packet

(* All the metadata of a packet is in one slice, at first empty; the layers*)
(* before this one have moved its offset and set its shift flag.           *)
MetaSlices == {m \in Slice : m.valid /\ m.start /\ m.tail}

ASSUME InputAssumption ==
  /\ DataInputs \subseteq Data
  /\ MetaInputs \subseteq MetaSlices
  /\ FieldInputs \subseteq [KeyIds -> Unit]
  /\ MaxSlices \in Nat \ {0}

VARIABLES
  sh,       \* the registers of Shift_Head
  slices,   \* history: the slices of the last packet that entered
  request   \* history: what came with its start slice

headVars == <<sh, slices, request>>

Requests == [meta : Slice, headShift : UnitIds, metaShift : UnitIds,
             field : [KeyIds -> Unit]]

HeadSlice(d, start, tail) ==
  [data |-> d, valid |-> TRUE, start |-> start, tail |-> tail, shift |-> TRUE,
   offset |-> CANDI_NUM - 1]

-----------------------------------------------------------------------------
(* The slice registers have flushed; nothing else has a reset.             *)
HeadInit ==
  /\ \E hs, ms \in UnitIds, ts \in BOOLEAN, d \in DataInputs :
       sh = [preHead |-> ZeroSlice, preMeta |-> ZeroSlice,
             head |-> ZeroSlice, meta |-> ZeroSlice,
             headShift |-> hs, metaShift |-> ms,
             startBit |-> FALSE, toShift |-> ts, extMeta |-> d]
  /\ slices = <<>>
  /\ request = [meta |-> ZeroSlice, headShift |-> 0, metaShift |-> 0,
                field |-> [j \in KeyIds |-> Zero]]

(* An empty slice: only between packets.                                   *)
Gap(hs, ms, field) ==
  /\ sh.preHead.valid => sh.preHead.tail
  /\ sh' = ShiftHeadClock(sh, ZeroSlice, ZeroSlice, hs, ms, field)
  /\ UNCHANGED <<slices, request>>

StartSlice(d, tail, meta, hs, ms, field) ==
  /\ ~sh.preHead.valid
  /\ MaxSlices = 1 => tail
  /\ sh' = ShiftHeadClock(sh, HeadSlice(d, TRUE, tail), meta, hs, ms, field)
  /\ slices' = <<d>>
  /\ request' = [meta |-> meta, headShift |-> hs, metaShift |-> ms, field |-> field]

NextSlice(d, tail, hs, ms, field) ==
  /\ sh.preHead.valid /\ ~sh.preHead.tail
  /\ Len(slices) + 1 >= MaxSlices => tail
  /\ sh' = ShiftHeadClock(sh, HeadSlice(d, FALSE, tail), ZeroSlice, hs, ms, field)
  /\ slices' = Append(slices, d)
  /\ UNCHANGED request

HeadNext ==
  \E hs, ms \in UnitIds, field \in FieldInputs :
    \/ Gap(hs, ms, field)
    \/ \E d \in DataInputs, tail \in BOOLEAN :
         \/ NextSlice(d, tail, hs, ms, field)
         \/ \E meta \in MetaInputs : StartSlice(d, tail, meta, hs, ms, field)

HeadSpec == HeadInit /\ [][HeadNext]_headVars

-----------------------------------------------------------------------------
(* The registers keep their widths.                                        *)
HeadTypeOK ==
  /\ sh \in ShiftHeadRegs
  /\ slices \in Seq(Data)
  /\ request \in Requests

(* Unit i, counted from the first unit of slice k, of the packet q laid    *)
(* out as one row of units; past its tail there is nothing but zeros.      *)
UnitAt(q, k, i) ==
  IF i < CANDI_NUM
    THEN IF k <= Len(q) THEN q[k][i] ELSE Zero
    ELSE IF k + 1 <= Len(q) THEN q[k + 1][i - CANDI_NUM] ELSE Zero

(* The slice of the last packet that is in the output register: the output *)
(* is one slice behind the input.                                          *)
OutIndex == IF sh.preHead.valid THEN Len(slices) - 1 ELSE Len(slices)

(* The output is the packet moved to the left by the shift of its own      *)
(* start slice: no unit is lost or repeated where two slices meet, zeros   *)
(* follow the tail, and nothing of a neighbouring packet or of the shifts  *)
(* that lookups produce for later slices gets in (r_head of Head_Shift.sv).*)
StreamShifted ==
  sh.head.valid =>
    /\ OutIndex \in 1 .. Len(slices)
    /\ sh.head.start <=> OutIndex = 1
    /\ \A u \in UnitIds : sh.head.data[u] = UnitAt(slices, OutIndex, u + request.headShift)

(* The metadata slice leaves beside the start slice of its own packet,     *)
(* with this layer's fields at the offset it came with, cut at the slice's *)
(* end, everything before that offset untouched, and the offset moved on   *)
(* by this packet's own meta shift (r_meta of Head_Shift.sv).              *)
MetaExtended ==
  /\ sh.meta.valid <=> (sh.head.valid /\ sh.head.start)
  /\ sh.meta.valid =>
       /\ sh.meta.offset = (request.meta.offset + request.metaShift) % CANDI_NUM
       /\ \A u \in UnitIds :
            u < request.meta.offset => sh.meta.data[u] = request.meta.data[u]
       /\ \A j \in KeyIds : request.meta.offset + j \in UnitIds =>
            LET u == request.meta.offset + j
            IN  sh.meta.data[u] = request.meta.data[u] \cup request.field[j]
=============================================================================
