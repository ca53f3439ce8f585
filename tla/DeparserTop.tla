---------------------------- MODULE DeparserTop ----------------------------
(***************************************************************************)
(* Deparser_Top: NUM_LAYER layers in a row behind the configuration of     *)
(* layer 0.  The head input is one slice of new field values, the metadata *)
(* input the slices of the packet whose fields they replace; both start on *)
(* the same clock.  Every action but Reset is one clock edge.              *)
(*                                                                         *)
(* The history variable "flight" is the reference, as in ParserTop: it     *)
(* knows of every packet what each layer was told about it, and the        *)
(* expected output is computed on the packet as one row of units.          *)
(***************************************************************************)
EXTENDS DeparserLayer, PacketRef

CONSTANTS
  NUM_LAYER,     \* layers of Deparser_Top (three)
  Configs,       \* what layer 0 and the rule tables may hold at first
  HeadInputs,    \* the field values that may come with a packet
  MetaInputs,    \* the contents a slice of a packet may have
  ConfInputs,    \* the configuration words the host writes
  MaxSlices,     \* bound: slices of a packet
  MaxPackets,    \* bound: packets
  MaxWords       \* bound: configuration words and resets

ASSUME TopAssumption ==
  /\ DEPARSER
  /\ NUM_LAYER \in Nat \ {0}
  /\ Configs \subseteq [rst : LookupRst, replace : [KeyIds -> UnitIds],
                        tables : [1 .. NUM_LAYER -> [RuleIds -> TypeRule]]]
  /\ HeadInputs \subseteq Data /\ MetaInputs \subseteq Data
  /\ ConfInputs \subseteq ConfWord
  /\ MaxSlices \in Nat \ {0} /\ MaxPackets \in Nat /\ MaxWords \in Nat

VARIABLES
  layer,     \* the registers of the layers
  info0,     \* layer_info_0 but its head and meta
  replace0,  \* r_key_ReplaceOffset
  latch0,    \* the units whose l_key_replaceOffset_v is set
  flight,    \* history: the packets between input and output, oldest first
  packets,   \* packets sent so far
  words      \* configuration words and resets so far

vars == <<layer, info0, replace0, latch0, flight, packets, words>>

Layers == 1 .. NUM_LAYER
LayerIdMod == 4                    \* B_LAYER_ID is two bits wide
Latency == 3                       \* clocks a slice spends in a layer

NoWord == [kind |-> "none", layer |-> 0]
WordFor(k, w) == IF w.kind # "none" /\ w.layer % LayerIdMod = k THEN w ELSE NoWord

-----------------------------------------------------------------------------
(* Configuration of layer 0: the fields are written where they are used.   *)
Rst0Conf(rst, w) ==
  [typeOffset  |-> [i \in TypeIds |->
      IF w.kind = "typeOffset" /\ w.id = i
        THEN w.offset % TypeCandiNum ELSE rst.typeOffset[i]],
   keyOffset_v |-> [j \in KeyIds |->
      IF w.kind = "keyOffset" /\ w.id = j THEN w.valid ELSE rst.keyOffset_v[j]],
   keyOffset   |-> [j \in KeyIds |->
      IF w.kind = "keyOffset" /\ w.id = j THEN w.offset % CANDI_NUM ELSE rst.keyOffset[j]],
   headShift   |-> IF w.kind = "headShift" THEN w.offset % CANDI_NUM ELSE rst.headShift,
   metaShift   |-> IF w.kind = "metaShift" THEN w.offset % CANDI_NUM ELSE rst.metaShift]

Replace0Conf(replace, w) ==
  [j \in KeyIds |->
     IF w.kind = "keyOffset" /\ w.id = j THEN w.replace % CANDI_NUM ELSE replace[j]]

(* l_key_replaceOffset_v: always_comb sets its bits and never clears them, *)
(* so it holds every target it ever had.                                   *)
Latched(old, valid, replace) ==
  old \cup {u \in UnitIds : TargetsOf(valid, replace).v[u]}

(* l_key_replaceOffset and l_key_replaceOffset_v; layer 0 has no carry.    *)
Target0 ==
  [TargetsOf(info0.rst.keyOffset_v, replace0) EXCEPT !.v = [u \in UnitIds |-> u \in latch0]]

-----------------------------------------------------------------------------
ZeroInfo == [rst |-> ZeroRst, target |-> NoTargets, total |-> 0, totalCarry |-> FALSE]

ZeroDepLayer(table, rule) ==
  [type |-> [i \in TypeIds |-> Zero], key |-> [j \in KeyIds |-> Zero],
   head |-> ZeroSlice, meta |-> ZeroSlice, info |-> ZeroInfo,
   s1 |-> [rst |-> ZeroRst, replace |-> [j \in KeyIds |-> 0], total |-> 0, totalCarry |-> FALSE],
   s2 |-> ZeroInfo,
   sr |-> [preHead |-> ZeroSlice, preMeta |-> ZeroSlice,
           head |-> ZeroSlice, meta |-> ZeroSlice, headShift |-> 0,
           startBit |-> FALSE, startBitCarry |-> FALSE, toShift |-> FALSE,
           field |-> [j \in KeyIds |-> Zero], target |-> NoTargets],
   stage |-> rule, wren |-> {}, table |-> table]

(* The pipeline has flushed and holds a configuration; the rules were      *)
(* loaded in order, so the last one is still in the staging register.      *)
Init ==
  /\ \E c \in Configs :
       LET target == TargetsOf(c.rst.keyOffset_v, c.replace)
       IN  /\ info0 = [rst |-> c.rst, target |-> target, total |-> 0, totalCarry |-> FALSE]
           /\ replace0 = c.replace
           /\ latch0 = {u \in UnitIds : target.v[u]}
           /\ layer = [k \in Layers |-> ZeroDepLayer(c.tables[k], c.tables[k][RULE_NUM - 1])]
  /\ flight = <<>>
  /\ packets = 0 /\ words = 0

(* The lookup that layer k makes for packet p, with the rules it has now:  *)
(* a type is read from the field values at the header's own position.      *)
LookedAt(p, k) == ExtractTypes(Window(p.head, HeadPos(p.infos, k)), p.infos[k])

(* The replace offsets of the rule that is hit, at their full width.       *)
FullReplace(table, type) ==
  IF HitRules(table, type) = {} THEN [j \in KeyIds |-> 0]
  ELSE table[FirstHit(table, type)].keyReplaceOffset

(* A packet that is t clocks old is looked up in layer k.                  *)
LookupAge(k) == Latency * (k - 1) + 1

Aged(p, more) ==
  LET now == \E k \in Layers : p.age = LookupAge(k)
      k == CHOOSE n \in Layers : p.age = LookupAge(n)
  IN  [head     |-> p.head,
       slices   |-> p.slices \o more,
       age      |-> p.age + 1,
       infos    |-> IF now THEN Append(p.infos, LookupType(layer[k].table, LookedAt(p, k)))
                    ELSE p.infos,
       replaces |-> IF now THEN Append(p.replaces, FullReplace(layer[k].table, LookedAt(p, k)))
                    ELSE p.replaces]

(* The packets in flight after a clock: the newest one is the one whose    *)
(* slices are arriving; the oldest is gone when its last slice has been    *)
(* output.                                                                 *)
Flying(more) ==
  LET last == Len(flight)
      aged == [i \in 1 .. last |-> Aged(flight[i], IF i = last THEN more ELSE <<>>)]
      Out(p) == p.age >= Latency * NUM_LAYER + Len(p.slices)
  IN  IF last > 0 /\ Out(aged[1]) THEN Tail(aged) ELSE aged

-----------------------------------------------------------------------------
(* One clock edge of the whole deparser; layer k reads what layer k - 1    *)
(* put out before the edge.                                                *)
Clock(head, meta, w) ==
  LET in(k) == IF k = 1 THEN [head |-> head, meta |-> meta, info |-> info0]
               ELSE DepLayerOut(layer[k - 1])
      w0 == WordFor(0, w)
  IN  /\ layer' = [k \in Layers |-> DepLayerClock(layer[k], in(k), WordFor(k, w))]
      /\ info0' = [rst |-> Rst0Conf(info0.rst, w0), target |-> Target0,
                   total |-> 0, totalCarry |-> FALSE]
      /\ replace0' = Replace0Conf(replace0, w0)
      /\ latch0' = Latched(latch0, Rst0Conf(info0.rst, w0).keyOffset_v, Replace0Conf(replace0, w0))

Write(w) ==
  IF w.kind = "none" THEN words' = words ELSE words < MaxWords /\ words' = words + 1

TaggedSlice(d, start, tail) ==
  [data |-> d, valid |-> TRUE, start |-> start, tail |-> tail, shift |-> TRUE,
   offset |-> CANDI_NUM - 1]

(* i_meta of the clock before.                                             *)
LastIn == layer[1].meta

(* Between two packets.                                                    *)
Gap(w) ==
  /\ LastIn.valid => LastIn.tail
  /\ Clock(ZeroSlice, ZeroSlice, w)
  /\ Write(w)
  /\ flight' = Flying(<<>>)
  /\ UNCHANGED packets

StartSlice(fields, d, tail, w) ==
  /\ ~LastIn.valid
  /\ packets < MaxPackets
  /\ MaxSlices = 1 => tail
  /\ Clock(TaggedSlice(fields, TRUE, FALSE), TaggedSlice(d, TRUE, tail), w)
  /\ Write(w)
  /\ flight' = Append(Flying(<<>>), [head |-> <<fields>>, slices |-> <<d>>, age |-> 1,
                                     infos |-> <<info0.rst>>, replaces |-> <<replace0>>])
  /\ packets' = packets + 1

NextSlice(d, tail, w) ==
  /\ LastIn.valid /\ ~LastIn.tail
  /\ Len(flight[Len(flight)].slices) + 1 >= MaxSlices => tail
  /\ Clock(ZeroSlice, TaggedSlice(d, FALSE, tail), w)
  /\ Write(w)
  /\ flight' = Flying(<<d>>)
  /\ UNCHANGED packets

Reset ==
  /\ words < MaxWords
  /\ words' = words + 1
  /\ layer' = [k \in Layers |-> DepLayerReset(layer[k])]
  /\ UNCHANGED <<info0, replace0, latch0, flight, packets>>

Next ==
  \/ Reset
  \/ \E w \in ConfInputs \cup {NoWord} :
       \/ Gap(w)
       \/ \E d \in MetaInputs, tail \in BOOLEAN :
            \/ NextSlice(d, tail, w)
            \/ \E fields \in HeadInputs : StartSlice(fields, d, tail, w)

Spec == Init /\ [][Next]_vars

-----------------------------------------------------------------------------
(* Every register of the pipeline keeps its width, and the latches of      *)
(* layer 0 hold at least the targets that are configured.                  *)
TypeOK ==
  /\ layer \in [Layers -> DepLayerRegs]
  /\ info0 \in DepInfo
  /\ replace0 \in [KeyIds -> UnitIds]
  /\ {u \in UnitIds : TargetsOf(info0.rst.keyOffset_v, replace0).v[u]} \subseteq latch0
  /\ latch0 \subseteq UnitIds

oMeta == layer[NUM_LAYER].sr.meta

Due(p) == p.age - Latency * NUM_LAYER \in 0 .. Len(p.slices) - 1
DueSlice(p) == p.age - Latency * NUM_LAYER

(* The fields layer k of packet p puts into the packet, with their places. *)
LayerFields(p, k) ==
  {[at    |-> MetaPos(p.infos, k) + p.replaces[k][j],
    field |-> Flat(p.head, HeadPos(p.infos, k) + p.infos[k].keyOffset[j])] :
     j \in {n \in KeyIds : p.infos[k].keyOffset_v[n]}}

(* Unit i of the packet after all layers: that of the last layer that      *)
(* replaces it, or the packet's own.                                       *)
Deparsed(p, i) ==
  LET by == {k \in Layers : \E f \in LayerFields(p, k) : f.at = i}
      last == CHOOSE k \in by : \A n \in by : n <= k
  IN  IF by = {} THEN Flat(p.slices, i)
      ELSE (CHOOSE f \in LayerFields(p, last) : f.at = i).field

(* What the deparser can express: a layer's fields have targets that are   *)
(* distinct units of a slice, a header rule's replace offset has a bit     *)
(* more than a key number, the layer at which the total of the meta shifts *)
(* reaches another slice has no fields (it still aims at the old base      *)
(* slice), and the fields of a packet of one slice start in it (a tail is  *)
(* the base slice of every layer).                                         *)
Expressible(p) ==
  \A k \in Layers :
    LET valid == {j \in KeyIds : p.infos[k].keyOffset_v[j]}
    IN  valid # {} =>
          /\ \A j, n \in valid :
               p.replaces[k][j] % CANDI_NUM = p.replaces[k][n] % CANDI_NUM => j = n
          /\ k > 1 => /\ \A j \in valid : p.replaces[k][j] < RepOffsetMod
                       /\ MetaPos(p.infos, k) \div CANDI_NUM
                             = MetaPos(p.infos, k - 1) \div CANDI_NUM
          /\ Len(p.slices) = 1 => MetaPos(p.infos, k) < CANDI_NUM

(* The metadata output of Deparser_Top: the slices of every packet, three  *)
(* clocks per layer after they went in and in their order; in all of them  *)
(* but a tail that is not the only slice, each unit holds the field of the *)
(* last header that is aimed at it, whichever slice the carry of the       *)
(* accumulated meta shift puts it in, and every other unit is the packet's *)
(* own.                                                                    *)
FieldsReplaced ==
  /\ oMeta.valid <=> \E i \in 1 .. Len(flight) : Due(flight[i])
  /\ \A i \in 1 .. Len(flight) : Due(flight[i]) =>
       LET p == flight[i]
           last == DueSlice(p) = Len(p.slices) - 1
       IN  /\ oMeta.start <=> DueSlice(p) = 0
           /\ oMeta.tail <=> last
           /\ (Expressible(p) /\ (last => DueSlice(p) = 0)) =>
                \A u \in UnitIds : oMeta.data[u] = Deparsed(p, DueSlice(p) * CANDI_NUM + u)

(* What testbench_deparser.sv says of a key-offset word, "i_rule_wdata[16] *)
(* is valid info": while no key of layer 0 is valid, layer 0 has no unit   *)
(* to replace.                                                             *)
InvalidKeyRests ==
  (\A j \in KeyIds : ~info0.rst.keyOffset_v[j]) => \A u \in UnitIds : ~Target0.v[u]
=============================================================================
