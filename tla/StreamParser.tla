----------------------------- MODULE StreamParser -----------------------------
(***************************************************************************)
(* StreamParser_Top: Gen_PHV_and_Conf_Parser drives the head, metadata and *)
(* configuration inputs of Parser_Top.  Words go in, parsed packets come   *)
(* out; the words of configuration packets change the rules on the way.    *)
(* Every action but ResetEnds is one clock edge of both parts.             *)
(*                                                                         *)
(* The history is what a user expects: every configuration word acts as it *)
(* arrives ("told"), and each packet remembers what had been told when its *)
(* first word arrived.                                                     *)
(***************************************************************************)
EXTENDS RuleOps, PacketRef

CONSTANTS
  PKT_NUM, CntHeadMod, FifoWords, Tokens, Blank, MaxLen,   \* of GenPHV
  NUM_LAYER, Configs,                                      \* of ParserTop
  MaxPackets,    \* bound: packets
  MaxResets      \* bound: resets

(* A word is data of the packet, or is read as a configuration word.       *)
ASSUME StreamAssumption ==
  /\ CANDI_NUM % PKT_NUM = 0
  /\ \A t \in Tokens : /\ t.data \in [0 .. (CANDI_NUM \div PKT_NUM) - 1 -> Unit]
                       /\ t.rule \in ConfWord

VARIABLES
  cntPkt, tagConf, din, wren, oPkt, oRule,          \* of GenPHV
  fifo, rden, cntHead, oPhv, oMeta,
  rx, conf, whole, due, got,
  layer, info0,                                     \* of ParserTop
  resetting,    \* i_rst_n is low
  packets,      \* packets that have begun
  resets,       \* resets so far
  \* history
  told,         \* the configuration, every word of it in force as it arrives
  now,          \* of the packet that is arriving: what it will be in line
  line,         \* the complete packets that have not left, oldest first
  out           \* slices that have left of the first of them

phvVars == <<cntPkt, tagConf, din, wren, oPkt, oRule, fifo, rden, cntHead, oPhv, oMeta,
             rx, conf, whole, due, got>>
topVars == <<layer, info0>>
history == <<told, now, line, out>>
vars == <<phvVars, topVars, resetting, packets, resets, history>>

Phv == INSTANCE GenPHV
Top == INSTANCE ParserTop WITH
         DataInputs <- {}, ConfInputs <- {}, MaxSlices <- 1, MaxWords <- 0,
         flight <- <<>>, words <- 0

ASSUME PartsAssumption == Phv!GenAssumption /\ Top!TopAssumption

UnitsPerWord == CANDI_NUM \div PKT_NUM
Layers == 1 .. NUM_LAYER

-----------------------------------------------------------------------------
(* The wires between the two.  A word that nobody wrote reads as zero.     *)
UnitOf(cell, n) == IF cell = Blank THEN Zero ELSE cell.data[n]

SliceOf(phv) ==
  [data   |-> [u \in UnitIds |-> UnitOf(phv.data[u \div UnitsPerWord], u % UnitsPerWord)],
   valid  |-> phv.valid, start |-> phv.start, tail |-> phv.tail, shift |-> phv.valid,
   offset |-> IF phv.valid THEN CANDI_NUM - 1 ELSE 0]

MetaOf(flags) == IF flags THEN Top!EmptyMeta ELSE ZeroSlice
WordOf(rule) == IF rule.valid THEN rule.tok.rule ELSE Top!NoWord

oHead == layer[NUM_LAYER].sh.head
oMetadata == layer[NUM_LAYER].sh.meta

-----------------------------------------------------------------------------
Init ==
  /\ Phv!Init
  /\ \E c \in Configs :
       /\ info0 = c.info0
       /\ layer = [k \in Layers |-> Top!ZeroLayer(c.tables[k], c.tables[k][RULE_NUM - 1])]
       /\ told = [info0 |-> c.info0, tables |-> c.tables,
                  stages |-> [k \in Layers |-> c.tables[k][RULE_NUM - 1]]]
       /\ now = [conf |-> c, quiet |-> FALSE]
  /\ resetting = FALSE /\ packets = 0 /\ resets = 0
  /\ line = <<>> /\ out = 0

(* A configuration word in force at once.                                  *)
Told(w) ==
  LET stages == [k \in Layers |-> Staged(told.stages[k], Top!WordFor(k, w))]
  IN  [info0  |-> Top!Info0Conf(told.info0, Top!WordFor(0, w)),
       tables |-> [k \in Layers |->
          Written(told.tables[k], Committing(Top!WordFor(k, w)), stages[k])],
       stages |-> stages]

Disturbed(p) == [p EXCEPT !.quiet = FALSE]

(* What has not left after a clock; a packet that a configuration word     *)
(* overtakes is not quiet.                                                 *)
Left(overtaken) ==
  LET rest == IF oHead.valid /\ oHead.tail /\ line # <<>> THEN Tail(line) ELSE line
  IN  IF overtaken THEN [i \in DOMAIN rest |-> Disturbed(rest[i])] ELSE rest

OutNext == IF oHead.valid THEN IF oHead.tail THEN 0 ELSE out + 1 ELSE out

ParserClock == Top!Clock(SliceOf(oPhv), MetaOf(oMeta), WordOf(oRule))

Pause ==
  /\ ~resetting
  /\ Phv!Pause
  /\ ParserClock
  /\ line' = Left(FALSE) /\ out' = OutNext
  /\ UNCHANGED <<resetting, packets, resets, told, now>>

HeadWord(t, isConf) ==
  /\ ~resetting
  /\ packets < MaxPackets /\ packets' = packets + 1
  /\ Phv!HeadWord(t, isConf)
  /\ ParserClock
  /\ now' = [conf |-> [info0 |-> told.info0, tables |-> told.tables], quiet |-> TRUE]
  /\ line' = Left(FALSE) /\ out' = OutNext
  /\ UNCHANGED <<resetting, resets, told>>

BodyWord(t, tail) ==
  LET isRule == conf /\ whole
      after == IF isRule THEN Disturbed(now) ELSE now
  IN  /\ ~resetting
      /\ Phv!BodyWord(t, tail)
      /\ ParserClock
      /\ told' = IF isRule THEN Told(t.rule) ELSE told
      /\ now' = after
      /\ line' = Left(isRule)
           \o (IF tail THEN <<[words |-> Append(rx, t), conf |-> after.conf, quiet |-> after.quiet]>>
               ELSE <<>>)
      /\ out' = OutNext
      /\ UNCHANGED <<resetting, packets, resets>>

(* A clock while i_rst_n is low, which it becomes between two packets on   *)
(* the input.  The pipeline has no reset and runs on; layer 0 has none     *)
(* either.  o_rule_wren is not cleared: the word it carries is there when  *)
(* the reset ends, and what it commits is the one rule that is not         *)
(* forgotten.                                                              *)
ResetClock ==
  LET w == WordOf(oRule)
      in(k) == IF k = 1 THEN [head |-> SliceOf(oPhv'), meta |-> MetaOf(oMeta'), info |-> info0]
               ELSE Top!LayerOut(layer[k - 1])
  IN  /\ resetting \/ resets < MaxResets
      /\ Phv!Reset
      /\ layer' = [k \in Layers |->
                     Top!LayerClock(Top!LayerReset(layer[k]), in(k), Top!NoWord)]
      /\ info0' = Top!Info0Conf(info0, Top!WordFor(0, w))
      /\ resetting' = TRUE
      /\ resets' = IF resetting THEN resets ELSE resets + 1
      /\ told' = [told EXCEPT !.tables = [k \in Layers |->
           Written(Invalidated(@[k]), Committing(Top!WordFor(k, w)), told.stages[k])]]
      /\ line' = <<>> /\ out' = 0
      /\ UNCHANGED <<packets, now>>

(* The reset lasts until the pipeline has run empty.                       *)
ResetEnds ==
  /\ resetting
  /\ \A k \in Layers : /\ ~layer[k].head.valid /\ ~layer[k].sh.preHead.valid
                       /\ ~layer[k].sh.head.valid
  /\ resetting' = FALSE
  /\ UNCHANGED <<phvVars, topVars, packets, resets, history>>

Next ==
  \/ Pause
  \/ \E t \in Tokens : \/ \E isConf \in BOOLEAN : HeadWord(t, isConf)
                       \/ \E tail \in BOOLEAN : BodyWord(t, tail)
  \/ ResetClock
  \/ ResetEnds

Spec == Init /\ [][Next]_vars

-----------------------------------------------------------------------------
(* The reference parse of a packet in line: its words as a row of units,   *)
(* and what every layer is told about it under the packet's configuration. *)
LengthOf(p) == UnitsPerWord * Len(p.words)

SlicesOf(p) ==
  [s \in 1 .. Phv!NumSlices(p.words) |-> [u \in UnitIds |->
     LET i == (s - 1) * CANDI_NUM + u
     IN  IF i < LengthOf(p) THEN p.words[i \div UnitsPerWord + 1].data[i % UnitsPerWord] ELSE Zero]]

InfosOf(p) ==
  LET slices == SlicesOf(p)
      Behind(infos, k) ==
        Append(infos, LookupType(p.conf.tables[k],
                        ExtractTypes(Window(slices, HeadPos(infos, k)), infos[k])))
      infosTo[k \in 0 .. NUM_LAYER] ==
        IF k = 0 THEN <<p.conf.info0>> ELSE Behind(infosTo[k - 1], k)
  IN  infosTo[NUM_LAYER]

(* The fields that the layers look at lie inside the packet (behind its    *)
(* last word there are words of an older slice).                           *)
HeadersInside(p, infos) ==
  \A k \in Layers :
    /\ \A i \in TypeIds :
         HeadPos(infos, k) + infos[k].typeOffset[i] \div TypesPerUnit < LengthOf(p)
    /\ \A j \in KeyIds : infos[k].keyOffset_v[j] =>
         HeadPos(infos, k) + infos[k].keyOffset[j] < LengthOf(p)

(* Words to metadata: a packet that no configuration word overtakes is     *)
(* parsed by exactly the configuration that had been told when its first   *)
(* word arrived, the words of a configuration packet right in front of it  *)
(* and the one pending at a reset included.  It leaves whole, in order and *)
(* moved by its own headers; beside its start are the fields they name.    *)
ParsedAsTold ==
  oHead.valid /\ ~resetting =>
    /\ line # <<>>
    /\ LET p == line[1]
           infos == InfosOf(p)
           slices == SlicesOf(p)
           end == NUM_LAYER + 1
           at == HeadPos(infos, end) + out * CANDI_NUM
           Fields(u) == {kj \in Layers \X KeyIds :
                           /\ infos[kj[1]].keyOffset_v[kj[2]]
                           /\ MetaPos(infos, kj[1]) + kj[2] = u}
           Field(k, j) == Flat(slices, HeadPos(infos, k) + infos[k].keyOffset[j])
       IN  /\ oHead.start <=> out = 0
           /\ oHead.tail <=> out = Len(slices) - 1
           /\ p.quiet /\ HeadersInside(p, infos) =>
                /\ \A u \in UnitIds :
                     at + u < LengthOf(p) => oHead.data[u] = Flat(slices, at + u)
                /\ oHead.start /\ MetaPos(infos, end) < CANDI_NUM =>
                     /\ oMetadata.offset = MetaPos(infos, end)
                     /\ \A u \in UnitIds : oMetadata.data[u] =
                          UNION {Field(kj[1], kj[2]) : kj \in Fields(u)}
=============================================================================
