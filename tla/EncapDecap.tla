----------------------------- MODULE EncapDecap -----------------------------
(***************************************************************************)
(* Encap_Head and Decap_Head beside each other, given the same stream and  *)
(* the same requests.  Encap_Head inserts the units of a field into the    *)
(* metadata stream (the packet) at a unit of one of its slices and moves   *)
(* the units behind it to the right; the head beside it moves to the left. *)
(* Decap_Head removes units at the same place and moves the units behind   *)
(* them to the left; the head passes as it is.  A request is sampled with  *)
(* the packet's start slice.  Packets may follow each other without a gap. *)
(***************************************************************************)
EXTENDS PacketRef

CONSTANTS
  SliceNumMod,   \* r_cnt_slice and i_metaSliceOffset are four bits wide: 16
  DataInputs,    \* the contents a slice of a packet may have
  HeadInputs,    \* the contents the head slice may have
  Requests,      \* what may be asked for a packet
  MaxSlices      \* bound: slices of a packet

(* length is the number of units that Decap_Head removes and one less than *)
(* the number that Encap_Head inserts; the field is given at the place it  *)
(* has in its slice (ENCAP_WIDTH = META_WIDTH).                            *)
Request ==
  [sliceOffset : 0 .. SliceNumMod - 1, dataOffset : UnitIds, length : UnitIds,
   en : BOOLEAN, field : Data, headShift : UnitIds]

ASSUME RequestAssumption ==
  /\ SliceNumMod \in Nat \ {0}
  /\ DataInputs \subseteq Data /\ HeadInputs \subseteq Data
  /\ Requests \subseteq Request /\ Requests # {}
  /\ MaxSlices \in Nat \ {0}

VARIABLES
  enc,     \* the registers of Encap_Head
  dec,     \* the registers of Decap_Head
  cur,     \* history: the packet whose slice entered last, and its request
  prev     \* history: cur, one clock ago

vars == <<enc, dec, cur, prev>>

EncapRegs ==
  [preHead : Slice, head : Slice,
   prePreMeta : Slice, preMeta : Slice, meta : Slice,
   cntSlice : 0 .. SliceNumMod - 1,       \* the number of preMeta in its packet
   request : Request,                     \* r_metaSliceOffset to r_encapEn
   offsetAddLen : 0 .. 2 * CANDI_NUM - 2] \* the last unit of the field

DecapRegs ==
  [preHead : Slice, head : Slice, preMeta : Slice, meta : Slice,
   cntSlice : 0 .. SliceNumMod - 1,
   request : Request]                     \* r_metaSliceOffset to r_decapEn

(* Mutation of NextCnt: the counter does not wrap.                         *)
NextCntWide(cnt, iMeta) == IF iMeta.start \/ ~iMeta.valid THEN 0 ELSE 1 + cnt

(* r_cnt_slice.                                                            *)
NextCnt(cnt, iMeta) ==
  IF iMeta.start \/ ~iMeta.valid THEN 0 ELSE (1 + cnt) % SliceNumMod

-----------------------------------------------------------------------------
(* l_meta of Encap_Head: the window that moves the packet to the right by  *)
(* the length of the field (r_rvs_encapLength is ~i_encapLength).          *)
MovedRight ==
  ShiftedData(enc.prePreMeta.data, enc.preMeta.data, CANDI_NUM - 1 - enc.request.length)

(* Mutation of EncapMeta: the comparison with the last unit of the field   *)
(* is off by one.                                                          *)
EncapMetaOneMore ==
  LET r == enc.request
  IN  IF ~enc.preMeta.valid \/ ~r.en \/ enc.cntSlice < r.sliceOffset THEN enc.preMeta
      ELSE IF enc.cntSlice = r.sliceOffset
        THEN [enc.preMeta EXCEPT !.data =
                [u \in UnitIds |-> IF enc.offsetAddLen <= u THEN MovedRight[u]
                                   ELSE IF r.dataOffset <= u THEN r.field[u] ELSE @[u]]]
        ELSE [enc.preMeta EXCEPT !.data = MovedRight, !.start = FALSE]

(* r_meta of Encap_Head.                                                   *)
EncapMeta ==
  LET r == enc.request
  IN  IF ~enc.preMeta.valid \/ ~r.en \/ enc.cntSlice < r.sliceOffset THEN enc.preMeta
      ELSE IF enc.cntSlice = r.sliceOffset
        THEN [enc.preMeta EXCEPT !.data =
                [u \in UnitIds |-> IF enc.offsetAddLen < u THEN MovedRight[u]
                                   ELSE IF r.dataOffset <= u THEN r.field[u] ELSE @[u]]]
        ELSE [enc.preMeta EXCEPT !.data = MovedRight, !.start = FALSE]

EncapHeadOut(iHead) ==
  IF enc.preHead.valid
    THEN [enc.preHead EXCEPT !.data =
            ShiftedData(enc.preHead.data, iHead.data, enc.request.headShift)]
    ELSE enc.preHead

EncapClock(iHead, iMeta, request) ==
  [preHead    |-> iHead,
   head       |-> EncapHeadOut(iHead),
   prePreMeta |-> enc.preMeta,
   preMeta    |-> iMeta,
   meta       |-> EncapMeta,
   cntSlice   |-> NextCnt(enc.cntSlice, iMeta),
   request    |-> IF iHead.start THEN request ELSE enc.request,
   offsetAddLen |-> IF iHead.start THEN request.dataOffset + request.length
                                   ELSE enc.offsetAddLen]

-----------------------------------------------------------------------------
(* l_meta of Decap_Head: the window that moves the packet to the left.     *)
MovedLeft(iMeta) == ShiftedData(dec.preMeta.data, iMeta.data, dec.request.length)

(* Mutation of DecapMeta: the slices behind the one cut in stay where they *)
(* are.                                                                    *)
DecapMetaOneSlice(iMeta) ==
  LET r == dec.request
  IN  IF ~dec.preMeta.valid \/ ~r.en \/ dec.cntSlice # r.sliceOffset THEN dec.preMeta
      ELSE [dec.preMeta EXCEPT !.data =
              [u \in UnitIds |-> IF r.dataOffset <= u THEN MovedLeft(iMeta)[u] ELSE @[u]]]

(* r_meta of Decap_Head.                                                   *)
DecapMeta(iMeta) ==
  LET r == dec.request
  IN  IF ~dec.preMeta.valid \/ ~r.en \/ dec.cntSlice < r.sliceOffset THEN dec.preMeta
      ELSE IF dec.cntSlice = r.sliceOffset
        THEN [dec.preMeta EXCEPT !.data =
                [u \in UnitIds |-> IF r.dataOffset <= u THEN MovedLeft(iMeta)[u] ELSE @[u]]]
        ELSE [dec.preMeta EXCEPT !.data = MovedLeft(iMeta), !.start = FALSE]

DecapClock(iHead, iMeta, request) ==
  [preHead  |-> iHead,
   head     |-> dec.preHead,
   preMeta  |-> iMeta,
   meta     |-> DecapMeta(iMeta),
   cntSlice |-> NextCnt(dec.cntSlice, iMeta),
   request  |-> IF iHead.start THEN request ELSE dec.request]

-----------------------------------------------------------------------------
TaggedSlice(d, start, tail) ==
  [data |-> d, valid |-> TRUE, start |-> start, tail |-> tail, shift |-> TRUE, offset |-> 0]

(* The pipelines have flushed and nothing else is known.                   *)
Init ==
  \E r \in Requests :
    /\ enc = [preHead |-> ZeroSlice, head |-> ZeroSlice, prePreMeta |-> ZeroSlice,
              preMeta |-> ZeroSlice, meta |-> ZeroSlice, cntSlice |-> 0,
              request |-> r, offsetAddLen |-> r.dataOffset + r.length]
    /\ dec = [preHead |-> ZeroSlice, head |-> ZeroSlice, preMeta |-> ZeroSlice,
              meta |-> ZeroSlice, cntSlice |-> 0, request |-> r]
    /\ cur = [slices |-> <<>>, request |-> r]
    /\ prev = cur

(* A clock edge of both.                                                   *)
Clock(iHead, iMeta, request) ==
  /\ enc' = EncapClock(iHead, iMeta, request)
  /\ dec' = DecapClock(iHead, iMeta, request)
  /\ prev' = cur

Gap ==
  /\ enc.preMeta.valid => enc.preMeta.tail
  /\ Clock(ZeroSlice, ZeroSlice, cur.request)
  /\ UNCHANGED cur

(* The first slice, with the packet's one slice of head.                   *)
StartSlice(head, d, tail, request) ==
  /\ enc.preMeta.valid => enc.preMeta.tail
  /\ MaxSlices = 1 => tail
  /\ Clock(TaggedSlice(head, TRUE, TRUE), TaggedSlice(d, TRUE, tail), request)
  /\ cur' = [slices |-> <<d>>, request |-> request]

NextSlice(d, tail) ==
  /\ enc.preMeta.valid /\ ~enc.preMeta.tail
  /\ Len(cur.slices) + 1 >= MaxSlices => tail
  /\ Clock(ZeroSlice, TaggedSlice(d, FALSE, tail), cur.request)
  /\ cur' = [cur EXCEPT !.slices = Append(@, d)]

Next ==
  \/ Gap
  \/ \E d \in DataInputs, tail \in BOOLEAN :
       \/ NextSlice(d, tail)
       \/ \E head \in HeadInputs, r \in Requests : StartSlice(head, d, tail, r)

Spec == Init /\ [][Next]_vars

-----------------------------------------------------------------------------
(* The registers keep their widths.                                        *)
TypeOK ==
  /\ enc \in EncapRegs /\ dec \in DecapRegs
  /\ cur \in [slices : Seq(Data), request : Request]
  /\ prev \in [slices : Seq(Data), request : Request]

(* The packet and the slice in the output registers, counted from 0: the   *)
(* output is one slice behind the input, which may have gone on to the     *)
(* next packet.                                                            *)
LeavingSlice == Len(prev.slices) - 1
Leaving == IF dec.preMeta.start THEN prev ELSE cur

(* The place of the request in the packet as one row of units.             *)
Place(request) == request.sliceOffset * CANDI_NUM + request.dataOffset

(* r_cnt_slice starts again behind SliceNumMod slices: the place of a unit *)
(* among the units of as many slices is all that is known of it.           *)
InBlock(i) == i % (SliceNumMod * CANDI_NUM)

(* The packet after the insertion: units up to a position depend on the    *)
(* packet's own units up to it only.  In a packet of more than SliceNumMod *)
(* slices the field is put in again in each further block of them, and the *)
(* last units of the block before it are lost.                             *)
Encapsulated(p, i) ==
  LET num == p.request.length + 1
  IN  IF ~p.request.en \/ InBlock(i) < Place(p.request) THEN Flat(p.slices, i)
      ELSE IF InBlock(i) < Place(p.request) + num THEN p.request.field[i % CANDI_NUM]
      ELSE Flat(p.slices, i - num)

(* The field fits in the slice it is inserted in.                          *)
FieldFits(r) == r.dataOffset + r.length < CANDI_NUM

(* The metadata output of Encap_Head: each packet with the field asked for *)
(* with its own start slice inserted, and every unit behind the field      *)
(* moved by exactly its length, across slice borders, whatever packet      *)
(* follows on the next clock, and anew in every block of slices that the   *)
(* counter of four bits tells apart.  What is moved past the tail is lost. *)
FieldInserted ==
  (enc.meta.valid /\ FieldFits(prev.request)) =>
    /\ enc.meta.start <=> LeavingSlice = 0
    /\ \A u \in UnitIds : enc.meta.data[u] = Encapsulated(prev, LeavingSlice * CANDI_NUM + u)

(* Where unit i of what leaves Decap_Head comes from: in front of the cut  *)
(* the same unit, behind it one that is "length" units further on, in each *)
(* block of slices.                                                        *)
Source(p, i) ==
  IF p.request.en /\ Place(p.request) <= InBlock(i) THEN i + p.request.length ELSE i

(* The metadata output of Decap_Head: every packet without the units that  *)
(* its own start slice asked to remove, even if they lie in two slices,    *)
(* and without those at the same place of each further block; the units a  *)
(* block's cut moves in from the next block also stay where they were.     *)
(* Behind its last unit there are zeros if a gap follows; the units of a   *)
(* packet right behind it appear there and nowhere else.                   *)
UnitsRemoved ==
  dec.meta.valid =>
    /\ dec.meta.start <=> LeavingSlice = 0
    /\ \A u \in UnitIds :
         LET s == Source(Leaving, LeavingSlice * CANDI_NUM + u)
         IN  (dec.preMeta.start => s < CANDI_NUM * Len(Leaving.slices)) =>
               dec.meta.data[u] = Flat(Leaving.slices, s)
=============================================================================
