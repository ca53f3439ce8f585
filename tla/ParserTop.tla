------------------------------ MODULE ParserTop ------------------------------
(***************************************************************************)
(* Parser_Top: NUM_LAYER layers in a row behind the configuration of       *)
(* layer 0, fed with packets as Gen_PHV_and_Conf_Parser sends them and     *)
(* configured while they pass.  Every action but Reset is one clock edge.  *)
(*                                                                         *)
(* The history variable "flight" is the reference: it parses every packet  *)
(* as one row of units with a moving position, with no slices, shifters or *)
(* pipeline registers, and reads a layer's rules at the one clock at which *)
(* the packet's type fields are looked up.                                 *)
(***************************************************************************)
EXTENDS ParserLayer, PacketRef

CONSTANTS
  NUM_LAYER,     \* layers of Parser_Top (three)
  Configs,       \* what layer 0 and the rule tables may hold at first
  DataInputs,    \* the contents a slice may have
  ConfInputs,    \* the configuration words the host writes
  MaxSlices,     \* bound: slices of a packet
  MaxPackets,    \* bound: packets
  MaxWords       \* bound: configuration words

ASSUME TopAssumption ==
  /\ NUM_LAYER \in Nat \ {0}
  /\ Configs \subseteq [info0 : LookupRst, tables : [1 .. NUM_LAYER -> [RuleIds -> TypeRule]]]
  /\ DataInputs \subseteq Data
  /\ ConfInputs \subseteq ConfWord
  /\ MaxSlices \in Nat \ {0} /\ MaxPackets \in Nat /\ MaxWords \in Nat

VARIABLES
  layer,     \* the registers of the layers
  info0,     \* layer_info_0 but its head and meta
  flight,    \* history: the packets between input and output, oldest first
  packets,   \* packets sent so far
  words      \* configuration words written so far

vars == <<layer, info0, flight, packets, words>>

Layers == 1 .. NUM_LAYER
LayerIdMod == 4                    \* B_LAYER_ID is two bits wide
Latency == 3                       \* clocks a slice spends in a layer

NoWord == [kind |-> "none", layer |-> 0]

(* i_rule_wren as layer k sees it.                                         *)
WordFor(k, w) == IF w.kind # "none" /\ w.layer % LayerIdMod = k THEN w ELSE NoWord

(* Configuration of layer 0: the fields are written where they are used.   *)
Info0Conf(info, w) ==
  [typeOffset  |-> [i \in TypeIds |->
      IF w.kind = "typeOffset" /\ w.id = i
        THEN w.offset % TypeCandiNum ELSE info.typeOffset[i]],
   keyOffset_v |-> [j \in KeyIds |->
      IF w.kind = "keyOffset" /\ w.id = j THEN w.valid ELSE info.keyOffset_v[j]],
   keyOffset   |-> [j \in KeyIds |->
      IF w.kind = "keyOffset" /\ w.id = j THEN w.offset % CANDI_NUM ELSE info.keyOffset[j]],
   headShift   |-> IF w.kind = "headShift" THEN w.offset % CANDI_NUM ELSE info.headShift,
   metaShift   |-> IF w.kind = "metaShift" THEN w.offset % CANDI_NUM ELSE info.metaShift]

-----------------------------------------------------------------------------
(* The lookup that layer k makes for packet p, with the rules it has now.  *)
Looked(p, k, table) ==
  LookupType(table, ExtractTypes(Window(p.slices, HeadPos(p.infos, k)), p.infos[k]))

(* A packet that is t clocks old is looked up in layer k.                  *)
LookupAge(k) == Latency * (k - 1) + 1

(* A packet one clock older; "more" has the slice that just arrived, if it *)
(* is one of this packet's.                                                *)
Aged(p, more) ==
  [slices |-> p.slices \o more,
   age    |-> p.age + 1,
   infos  |-> IF \E k \in Layers : p.age = LookupAge(k)
                THEN LET k == CHOOSE n \in Layers : p.age = LookupAge(n)
                     IN  Append(p.infos, Looked(p, k, layer[k].table))
                ELSE p.infos]

(* The packets fl after a clock: the newest one is the one whose slices    *)
(* are arriving; the oldest is gone when its last slice has been output.   *)
Flown(fl, more) ==
  LET last == Len(fl)
      aged == [i \in 1 .. last |-> Aged(fl[i], IF i = last THEN more ELSE <<>>)]
      Out(p) == p.age >= Latency * NUM_LAYER + Len(p.slices)
  IN  IF last > 0 /\ Out(aged[1]) THEN Tail(aged) ELSE aged

Flying(more) == Flown(flight, more)

-----------------------------------------------------------------------------
ZeroLayer(table, rule) ==
  [type |-> [i \in TypeIds |-> Zero], key |-> [j \in KeyIds |-> Zero],
   head |-> ZeroSlice, meta |-> ZeroSlice, headShift |-> 0, metaShift |-> 0,
   s1 |-> ZeroRst, s2 |-> ZeroRst,
   sh |-> [preHead |-> ZeroSlice, preMeta |-> ZeroSlice,
           head |-> ZeroSlice, meta |-> ZeroSlice, headShift |-> 0, metaShift |-> 0,
           startBit |-> FALSE, toShift |-> FALSE, extMeta |-> ZeroData],
   stage |-> rule, wren |-> {}, table |-> table]

(* The pipeline has flushed and holds a configuration; the rules were      *)
(* loaded in order, so the last one is still in the staging register.      *)
Init ==
  /\ \E c \in Configs :
       /\ info0 = c.info0
       /\ layer = [k \in Layers |-> ZeroLayer(c.tables[k], c.tables[k][RULE_NUM - 1])]
  /\ flight = <<>>
  /\ packets = 0 /\ words = 0

(* Mutation of Clock: a configuration word of layer 0 acts on the slice    *)
(* that arrives with it.                                                   *)
ClockConfThrough(head, meta, w) ==
  LET info == Info0Conf(info0, WordFor(0, w))
      in(k) == IF k = 1 THEN [head |-> head, meta |-> meta, info |-> info]
               ELSE LayerOut(layer[k - 1])
  IN  /\ layer' = [k \in Layers |-> LayerClock(layer[k], in(k), WordFor(k, w))]
      /\ info0' = info

(* One clock edge of the whole parser; layer k reads what layer k - 1 put  *)
(* out before the edge.                                                    *)
Clock(head, meta, w) ==
  LET in(k) == IF k = 1 THEN [head |-> head, meta |-> meta, info |-> info0]
               ELSE LayerOut(layer[k - 1])
  IN  /\ layer' = [k \in Layers |-> LayerClock(layer[k], in(k), WordFor(k, w))]
      /\ info0' = Info0Conf(info0, WordFor(0, w))

Write(w) ==
  IF w.kind = "none" THEN words' = words ELSE words < MaxWords /\ words' = words + 1

HeadSlice(d, start, tail) ==
  [data |-> d, valid |-> TRUE, start |-> start, tail |-> tail, shift |-> TRUE,
   offset |-> CANDI_NUM - 1]

EmptyMeta == [ZeroSlice EXCEPT !.valid = TRUE, !.start = TRUE, !.tail = TRUE, !.shift = TRUE]

(* i_head of the clock before: the slice that layer 1 has just taken in.   *)
LastIn == layer[1].head

(* Between two packets.                                                    *)
Gap(w) ==
  /\ LastIn.valid => LastIn.tail
  /\ Clock(ZeroSlice, ZeroSlice, w)
  /\ Write(w)
  /\ flight' = Flying(<<>>)
  /\ UNCHANGED packets

StartSlice(d, tail, w) ==
  /\ ~LastIn.valid
  /\ packets < MaxPackets
  /\ MaxSlices = 1 => tail
  /\ Clock(HeadSlice(d, TRUE, tail), EmptyMeta, w)
  /\ Write(w)
  /\ flight' = Append(Flying(<<>>), [slices |-> <<d>>, age |-> 1, infos |-> <<info0>>])
  /\ packets' = packets + 1

NextSlice(d, tail, w) ==
  /\ LastIn.valid /\ ~LastIn.tail
  /\ Len(flight[Len(flight)].slices) + 1 >= MaxSlices => tail
  /\ Clock(HeadSlice(d, FALSE, tail), ZeroSlice, w)
  /\ Write(w)
  /\ flight' = Flying(<<d>>)
  /\ UNCHANGED packets

Reset ==
  /\ words < MaxWords
  /\ words' = words + 1
  /\ layer' = [k \in Layers |-> LayerReset(layer[k])]
  /\ UNCHANGED <<info0, flight, packets>>

Next ==
  \/ Reset
  \/ \E w \in ConfInputs \cup {NoWord} :
       \/ Gap(w)
       \/ \E d \in DataInputs, tail \in BOOLEAN : StartSlice(d, tail, w) \/ NextSlice(d, tail, w)

Spec == Init /\ [][Next]_vars

-----------------------------------------------------------------------------
(* Every register of the pipeline keeps its width (the history has none).  *)
TypeOK ==
  /\ layer \in [Layers -> LayerRegs]
  /\ info0 \in LookupRst
  /\ packets \in Nat /\ words \in Nat

oHead == layer[NUM_LAYER].sh.head
oMeta == layer[NUM_LAYER].sh.meta

(* The packet whose slice is due at the output, and which slice that is.   *)
Due(p) == p.age - Latency * NUM_LAYER \in 0 .. Len(p.slices) - 1
DueSlice(p) == p.age - Latency * NUM_LAYER

(* The head output of Parser_Top: every slice of every packet comes out    *)
(* exactly three clocks per layer after it went in, and holds the packet   *)
(* moved by the sum of the shifts its own headers called for, whatever     *)
(* packets are around it and whatever rules change meanwhile.              *)
HeadParsed ==
  /\ oHead.valid <=> \E i \in 1 .. Len(flight) : Due(flight[i])
  /\ \A i \in 1 .. Len(flight) : Due(flight[i]) =>
       LET p == flight[i]
       IN  /\ oHead.start <=> DueSlice(p) = 0
           /\ oHead.tail <=> DueSlice(p) = Len(p.slices) - 1
           /\ oHead.data = Window(p.slices, HeadPos(p.infos, NUM_LAYER + 1)
                                              + DueSlice(p) * CANDI_NUM)

(* The fields a packet's headers name, each at its own place: those of     *)
(* layer k start where the meta shifts of the layers before it lead.       *)
Fields(p) ==
  {[at    |-> MetaPos(p.infos, kj[1]) + kj[2],
    field |-> Flat(p.slices, HeadPos(p.infos, kj[1]) + p.infos[kj[1]].keyOffset[kj[2]])] :
     kj \in {lj \in Layers \X KeyIds : p.infos[lj[1]].keyOffset_v[lj[2]]}}

(* The meta shifts do not run past the slice (the offset is a modulus).    *)
MetaFits(p) == MetaPos(p.infos, NUM_LAYER + 1) < CANDI_NUM

(* The metadata output of Parser_Top: beside the start slice, the fields   *)
(* of every header of that packet in the order of the layers, and nothing  *)
(* else; the offset says where they end.                                   *)
MetaParsed ==
  /\ oMeta.valid <=> (oHead.valid /\ oHead.start)
  /\ \A i \in 1 .. Len(flight) :
       (Due(flight[i]) /\ DueSlice(flight[i]) = 0 /\ MetaFits(flight[i])) =>
         /\ oMeta.offset = MetaPos(flight[i].infos, NUM_LAYER + 1)
         /\ \A u \in UnitIds :
              oMeta.data[u] = UNION {f.field : f \in {g \in Fields(flight[i]) : g.at = u}}
=============================================================================
