------------------------------- MODULE GenRule -------------------------------
(***************************************************************************)
(* The rule generator: gen_rule_info walks the protocol graph of a table   *)
(* breadth first and makes one rule for every way to reach a protocol;     *)
(* write_conf_rule then numbers the rules of each layer as it writes them. *)
(*                                                                         *)
(* A row of layer_info is a protocol: its name, the place, the number of   *)
(* bytes and the mask of its type field (no bytes if it has none), the     *)
(* values of that field and the protocol that each announces, and the      *)
(* places (in units) of its key fields in the packet and in the metadata.  *)
(* Masks and values are words, as in ParserPkg; a byte is a type field of  *)
(* the hardware, TYPE_WIDTH bits (8).                                      *)
(***************************************************************************)
EXTENDS RuleOps, Sequences, SequencesExt, FiniteSetsExt

CONSTANTS
  Tables,     \* what read_csv may make of a file: sequences of rows
  None,       \* the first protocol is announced by nobody
  LastLayer,  \* parser_layer1 to parser_layer3
  MaxRules    \* bound: rules made from a table

IsSeq(s) == s \in Seq(ToSet(s))

ASSUME GenRuleAssumption ==
  /\ \A t \in Tables : /\ IsSeq(t) /\ Len(t) > 0
                        /\ \A r \in DOMAIN t :
                             /\ t[r].offset \in Nat /\ t[r].len \in Nat
                             /\ t[r].mask \subseteq Nat /\ t[r].mask # None
                             /\ IsSeq(t[r].proto)
                             /\ \A p \in ToSet(t[r].proto) : p.value \subseteq Nat
                             /\ Len(t[r].replace) = Len(t[r].keys)
  /\ LastLayer \in Nat /\ MaxRules \in Nat

VARIABLES
  layer_info,
  wait,        \* list_layer_wait2check
  nextWait,    \* list_next_layer_wait2check
  curIdx,      \* cur_idx: the row found last
  layerID,
  rule_info,
  preLayerID, cntRule,
  written,     \* rules that write_conf_rule has written, in order
  pc           \* "walk", "write" or "done"

walkVars == <<wait, nextWait, curIdx, layerID, rule_info>>
writeVars == <<preLayerID, cntRule, written>>
vars == <<layer_info, walkVars, writeVars, pc>>

(* first_layer_name is that of the first row, so curIdx is never read      *)
(* before it has been set.                                                 *)
Init ==
  /\ layer_info \in Tables
  /\ wait = <<[mask |-> None, value |-> None, next |-> layer_info[1].name]>> /\ nextWait = <<>>
  /\ curIdx = 1 /\ layerID = 0 /\ rule_info = <<>>
  /\ preLayerID = 0 /\ cntRule = 0 /\ written = <<>>
  /\ pc = "walk"

-----------------------------------------------------------------------------
RowsNamed(table, name) == {r \in DOMAIN table : table[r].name = name}

(* The last row of that name.  A name without a row finds none, and the    *)
(* row of the protocol before it is used again.                            *)
FoundIdx(name) ==
  IF RowsNamed(layer_info, name) = {} THEN curIdx ELSE Max(RowsNamed(layer_info, name))

(* Mutation of AfterPop: the next layer's list is not cleared when it has  *)
(* been copied.                                                            *)
AfterPopKeepsNext(rest, found) ==
  IF rest # <<>> THEN [wait |-> rest, nextWait |-> found, layerID |-> layerID]
  ELSE [wait |-> found, nextWait |-> found, layerID |-> layerID + 1]

(* When the layer's list is used up, the next layer's takes its place.     *)
AfterPop(rest, found) ==
  IF rest # <<>> THEN [wait |-> rest, nextWait |-> found, layerID |-> layerID]
  ELSE [wait |-> found, nextWait |-> <<>>, layerID |-> layerID + 1]

(* What a row announces: each protocol with the row's mask.                *)
NextTypes(row) ==
  [i \in DOMAIN row.proto |->
     [mask |-> row.mask, value |-> row.proto[i].value, next |-> row.proto[i].next]]

(* Division and remainder of a number by the range of a byte.              *)
HighBits(word) == {b - TYPE_WIDTH : b \in {x \in word : x >= TYPE_WIDTH}}
LowBits(word) == {b \in word : b < TYPE_WIDTH}

(* typeMask_list and typeValue_list: the mask tells whether there are two  *)
(* bytes; the value of a one-byte mask is taken as it is.                  *)
BytesOf(mask, word) ==
  IF mask = None THEN <<>>
  ELSE IF \E b \in mask : b >= TYPE_WIDTH THEN <<HighBits(word), LowBits(word)>>
  ELSE <<word>>

(* type_offset: the places of the bytes of the row's own type field.       *)
OffsetsOf(row) == [i \in 1 .. row.len |-> row.offset + i - 1]

RuleFor(waiting, row) ==
  [layerID |-> layerID, row |-> row,
   typeMask |-> BytesOf(waiting.mask, waiting.mask),
   typeValue |-> BytesOf(waiting.mask, waiting.value),
   typeOffset |-> OffsetsOf(layer_info[row])]

(* One turn of the loop of gen_rule_info.                                  *)
Walk ==
  /\ pc = "walk" /\ wait # <<>>
  /\ Len(rule_info) < MaxRules
  /\ LET cur == FoundIdx(wait[1].next)
         after == AfterPop(Tail(wait), nextWait \o NextTypes(layer_info[cur]))
     IN  /\ curIdx' = cur
         /\ rule_info' = Append(rule_info, RuleFor(wait[1], cur))
         /\ wait' = after.wait /\ nextWait' = after.nextWait /\ layerID' = after.layerID
  /\ UNCHANGED <<layer_info, writeVars, pc>>

WalkDone ==
  /\ pc = "walk" /\ wait = <<>>
  /\ pc' = "write"
  /\ UNCHANGED <<layer_info, walkVars, writeVars>>

-----------------------------------------------------------------------------
(* Mutation of RuleIndex: the count goes on over the border of two layers. *)
RuleIndexGoesOn(rule) == IF written = <<>> THEN 0 ELSE cntRule + 1

(* cntRule: the number of a rule in its layer, from 0 on.                  *)
RuleIndex(rule) == IF preLayerID = rule.layerID THEN cntRule + 1 ELSE 0

(* A list of bytes or of places on the registers of the type fields: what  *)
(* a list leaves over is set to zero, and a register keeps its low bits.   *)
OnTypeIds(list) == [j \in TypeIds |-> IF j < Len(list) THEN LowBits(list[j + 1]) ELSE Zero]
OffsetsOnTypeIds(list) ==
  [j \in TypeIds |-> IF j < Len(list) THEN list[j + 1] % TypeCandiNum ELSE 0]

(* What is written for layer 0 in deparser mode: the key fields' places,   *)
(* a mask of places to be replaced, and an array of replaced places.  The  *)
(* number of the row stands for its shifts, here and in RuleWritten.       *)
Layer0Written(rule) ==
  [layer |-> 0, index |-> 0, row |-> rule.row,
   typeOffset |-> OffsetsOnTypeIds(rule.typeOffset),
   key_offset |-> layer_info[rule.row].keys,
   key_replaceOffset_v |-> ToSet(layer_info[rule.row].keys),
   key_replaceOffset |-> layer_info[rule.row].replace]

(* Mutation of RuleWritten: places that a rule does not use are not masked *)
(* out.                                                                    *)
RuleWrittenUnmasked(rule) ==
  [layer |-> rule.layerID, index |-> RuleIndex(rule), row |-> rule.row, valid |-> TRUE,
   typeData |-> OnTypeIds(rule.typeValue),
   typeMask |-> [j \in TypeIds |-> IF j < Len(rule.typeMask) THEN LowBits(rule.typeMask[j + 1])
                                                             ELSE 0 .. TYPE_WIDTH - 1],
   typeOffset |-> OffsetsOnTypeIds(rule.typeOffset)]

(* What is written for the others: value and mask of the bytes that lead   *)
(* here, places of the bytes that lead on.  A byte that the mask does not  *)
(* have is a wildcard, and a place that the row does not have is byte 0.   *)
RuleWritten(rule) ==
  [layer |-> rule.layerID, index |-> RuleIndex(rule), row |-> rule.row, valid |-> TRUE,
   typeData |-> OnTypeIds(rule.typeValue),
   typeMask |-> OnTypeIds(rule.typeMask),
   typeOffset |-> OffsetsOnTypeIds(rule.typeOffset)]

(* One turn of the loop of write_conf_rule.                                *)
WriteLayer0 ==
  /\ pc = "write" /\ Len(written) < Len(rule_info)
  /\ LET rule == rule_info[Len(written) + 1]
     IN  /\ rule.layerID = 0
         /\ written' = Append(written, Layer0Written(rule))
  /\ UNCHANGED <<layer_info, walkVars, preLayerID, cntRule, pc>>

WriteRule ==
  /\ pc = "write" /\ Len(written) < Len(rule_info)
  /\ LET rule == rule_info[Len(written) + 1]
     IN  /\ rule.layerID # 0
         /\ cntRule' = RuleIndex(rule) /\ preLayerID' = rule.layerID
         /\ written' = Append(written, RuleWritten(rule))
  /\ UNCHANGED <<layer_info, walkVars, pc>>

WriteDone ==
  /\ pc = "write" /\ Len(written) = Len(rule_info)
  /\ pc' = "done"
  /\ UNCHANGED <<layer_info, walkVars, writeVars>>

Next == Walk \/ WalkDone \/ WriteLayer0 \/ WriteRule \/ WriteDone

Spec == Init /\ [][Next]_vars

(* The script runs until it is done.                                       *)
FairSpec == Spec /\ WF_vars(Next)

-----------------------------------------------------------------------------
(* The chains of headers that a table describes, by their number of        *)
(* headers behind the first: what each announces of the next one.          *)
NameOf(table, chain, i) == IF i = 0 THEN table[1].name ELSE chain[i].next
RowOf(table, chain, i) == Max(RowsNamed(table, NameOf(table, chain, i)))

Announced(table) == UNION {ToSet(NextTypes(table[r])) : r \in DOMAIN table}

Chains(table, n) ==
  {c \in [1 .. n -> Announced(table)] :
     \A i \in 1 .. n : c[i] \in ToSet(NextTypes(table[RowOf(table, c, i - 1)]))}

Closed(table) == \A a \in Announced(table) : RowsNamed(table, a.next) # {}

(* A chain of as many headers as there are protocols meets one twice.      *)
Acyclic(table) == Chains(table, Len(table)) = {}

Sound(table) == Closed(table) /\ Acyclic(table)

(* A type field lies in one slice, and its mask reaches into its first     *)
(* byte, if there are two, or there would seem to be one.                  *)
Masked(table) ==
  \A r \in DOMAIN table : table[r].proto # <<>> =>
    /\ table[r].len = IF \E b \in table[r].mask : b >= TYPE_WIDTH THEN 2 ELSE 1
    /\ table[r].offset + table[r].len <= TypeCandiNum

(* The generator finishes on every table without a cycle in which every    *)
(* protocol has a row; nothing marks a protocol as checked, so a cycle     *)
(* would keep it running, and so can a missing row.                        *)
Terminates == (pc = "walk" /\ Sound(layer_info)) ~> (pc = "done")

(* Byte i of a word of len bytes.                                          *)
ByteOf(word, len, i) == {b \in 0 .. TYPE_WIDTH - 1 : b + TYPE_WIDTH * (len - i) \in word}

(* The type bytes that a layer shows the next, of a header with these data *)
(* and this row: those of its type field, and behind them its byte 0.      *)
ShownByte(row, data, i) ==
  TypeField(data, IF i <= row.len THEN row.offset + i - 1 ELSE 0)

(* They are what "other" announces a protocol with.                        *)
Matches(row, data, other, announced) ==
  \A i \in 1 .. other.len :
    ShownByte(row, data, i) \cap ByteOf(other.mask, other.len, i)
      = ByteOf(announced.value, other.len, i)

(* Layers look at the bytes in front of them and do not know which header  *)
(* they belong to: no header that announces one protocol may look like one *)
(* of the same depth that announces another.                               *)
Unambiguous(table) ==
  \A n \in 1 .. Len(table) - 1 : \A c, e \in Chains(table, n), data \in Data :
    LET row == table[RowOf(table, c, n - 1)]
        other == table[RowOf(table, e, n - 1)]
    IN  Matches(row, data, row, c[n]) /\ Matches(row, data, other, e[n])
          => RowOf(table, c, n) = RowOf(table, e, n)

(* The registers that the test bench forces are there: it has no layer     *)
(* behind the last, and a layer no rule behind its last.                   *)
RegistersExist ==
  \A i \in DOMAIN written :
    /\ written[i].layer <= LastLayer /\ written[i].index < RULE_NUM
    /\ Len(rule_info[i].typeValue) <= TYPE_NUM /\ Len(rule_info[i].typeOffset) <= TYPE_NUM

(* The rule registers of a layer when all has been written.                *)
Registers(layer) ==
  [i \in RuleIds |->
     LET forced == {k \in DOMAIN written : written[k].layer = layer /\ written[k].index = i}
     IN  IF forced = {} THEN NoRule ELSE written[Max(forced)]]

(* A parser whose registers hold the rules follows every chain of headers  *)
(* the table describes: whatever the data of a header are that announces   *)
(* the next one, the bytes that its rule takes from them hit, in the layer *)
(* of that depth, and the first rule that they hit has the next header's   *)
(* fields.                                                                 *)
ChainsParsed ==
  /\ pc = "done" /\ RegistersExist
  /\ Sound(layer_info) /\ Masked(layer_info) /\ Unambiguous(layer_info)
  => \A n \in 1 .. Len(layer_info) - 1 : \A c \in Chains(layer_info, n), data \in Data :
       LET r == RowOf(layer_info, c, n - 1)
       IN  Matches(layer_info[r], data, layer_info[r], c[n]) =>
             \A w \in ToSet(written) : w.layer = n - 1 /\ w.row = r =>
               LET type == ExtractTypes(data, w)
                   found == FirstHit(Registers(n), type)
               IN  /\ HitRules(Registers(n), type) # {}
                   /\ Registers(n)[found].row = RowOf(layer_info, c, n)

(* The rules of a layer are numbered from 0 without a hole or a repetition *)
(* (registers of the rule RAM are set under these numbers), in the order   *)
(* in which the walk made them.                                            *)
RulesNumbered ==
  \A i \in DOMAIN written :
    written[i].layer # 0 =>
      written[i].index = Cardinality({k \in 1 .. i - 1 : written[k].layer = written[i].layer})
=============================================================================
