# StreamParser in TLA+

StreamParser is a programmable packet parser in SystemVerilog. Packets arrive
as 128-bit words, are collected into 512-bit slices, and run through a
pipeline of layers. Every layer extracts the fields of one header, looks up
which header follows, and shifts the packet so that the next header is in
front. This directory holds TLA+ models of it, TLC runs of small instances,
and TLAPS proofs for all instances.

Paths below are relative to the repository. `src/` is the hardware,
`python-gen_rule/` the rule generator, `c-based_parser/` a small C sketch;
`sim_for_vcs/` is an older copy of the same files with simulator output.

## Inventory

| Component (source) | State | Operations | Hard behaviour | What makes it correct |
|---|---|---|---|---|
| Package (`src/rtl/parser_pkg.sv`, `global_head.svh`) | none | widths, record types, address fields | truncation to widths, two-bit layer id | offsets stay inside their slice |
| `Rule_Conf` (`src/rtl/basic_proc`) | staging register, write enables | one configuration word, idle clock, reset | staging is never cleared; the RAM copies it a clock later | a complete draft is its own; commits are atomic |
| `Lookup_Type` | rule RAM | commit, reset, prioritised masked match | a miss reads as all zeros | the lowest hit wins; no partial rule is seen |
| `Extract_Field` | one register | multiplex | none | field at its offset |
| `Shift_Head` | two slices of head and of metadata, held shifts | clock | slice borders, tail, held shifts, packets back to back | nothing lost, repeated or taken from a neighbour |
| `Parser_Layer`, `Parser_Top` | pipeline registers, layer 0 configuration | clock, configuration word, reset | alignment of three pipelines; rules change under traffic | each packet is parsed by the rules of its own lookup clocks |
| `Gen_PHV_and_Conf_Parser` (`src/soc_rtl`) | slice being built, FIFO, packet counter, configuration flag | word, pause, reset | simultaneous count up and down, 4-bit counter, unguarded FIFO, pauses | packets whole, once, in order, without holes, and none stranded |
| `syncfifo`, `asyncfifo`, `syncram` (`src/sim_rtl`) | memory, pointers | read, write, clear | wrap, full looks empty, two clocks | a queue; counts that are safe to act on |
| `Deparser_*`, `Shift_Replace_Head` | as the parser, with replacement offsets | as the parser | replaced fields that a carry puts in the next slice; layers after a whole slice of meta shift | every key lands at its own offset |
| `Encap`, `Decap` | slices, slice counter | clock | 4-bit counter, field across slices | the stream with a field inserted or removed |
| `StreamParser_Top` (`src/soc_rtl`) | none of its own | connects receiver and parser | configuration words overtake packets; a word pending at a reset | a packet is parsed by what had been told before it |
| `Replace_MAC_ADDR` (`src/soc_rtl`) | two packet registers | word | latency of metadata against packet | metadata meets its packet |
| `gen_rule.py` and helpers | work lists | one protocol per step | cycles, protocols with two parents, more than eight rules | the generated rules parse what the table describes |
| `parser.c` | rule array, head, metadata | one layer | operator precedence, what one call leaves to the next | agrees with the hardware |

How they interact: the receiver (`Gen_PHV_and_Conf_Parser`) drives the head
and metadata inputs of `Parser_Top` and, from packets of ether type 0x9006,
its configuration port; layer *k* drives layer *k + 1* with a shifted head, a
longer metadata slice and the result of its lookup. There is one clock and one
asynchronous reset; everything is synchronous, so concurrency is between the
packets and configuration words that are in the pipeline at the same time.
Nothing pushes back: a slice that enters leaves a fixed number of clocks later.

`PROJECT.json` lists the hazards of this code at their lines with the
properties that would catch them.

## Modules

| Module | Models | State and actions |
|---|---|---|
| `ParserPkg` | `parser_pkg.sv`, the field movers | operators only |
| `PacketRef` | nothing: the reference | a packet as one row of units; where headers and fields start |
| `RuleOps` | `Rule_Conf` and `Lookup_Type` as operators on registers | `Staged`, `Committing`, `Written`, `LookupType`, `LookupReplace` |
| `RuleStore` | abstract: what the rule path promises | `Draft`, `Commit`, `Idle`, `Reset` |
| `RuleTable` | the rule path, EXTENDS `RuleOps` | `stage` = `o_type_rule`, `wren` = `o_typeRule_wren`, `table` = `r_type_rule`; `WriteField`, `WriteRule`, `Idle` are clock edges, `Reset` is `i_rst_n` |
| `ShiftHead` | `Shift_Head` as an operator on its registers | `ShiftHeadClock` |
| `HeadStream` | one `Shift_Head` and the stream it is fed | `sh` = its registers; `Gap`, `StartSlice`, `NextSlice` are clock edges (its specification is `HeadSpec`, so that `LayerProofs` can extend both parts of a layer) |
| `ParserLayer` | `Parser_Layer` as an operator, EXTENDS `RuleOps`, `ShiftHead` | `LayerClock`, `LayerOut`, `LayerReset` |
| `ParserTop` | `Parser_Top`: `NUM_LAYER` layers and layer 0 | `layer`, `info0`; `Gap`, `StartSlice`, `NextSlice`, each with or without a configuration word, and `Reset` |
| `ShiftReplaceHead` | `Shift_Replace_Head` as an operator on its registers | `ShiftReplaceClock` |
| `DeparserLayer` | `Deparser_Layer` (two-clock build) as an operator | `DepLayerClock`, `DepLayerOut`, `DepLayerReset` |
| `DeparserTop` | `Deparser_Top` | as `ParserTop`, and `replace0` = `r_key_ReplaceOffset`, `latch0` = the latch `l_key_replaceOffset_v` |
| `EncapDecap` | `Encap_Head` and `Decap_Head`, side by side on one stream | `enc`, `dec` = their registers; `Gap`, `StartSlice`, `NextSlice` |
| `FifoOps` | a clock edge of a queue | `QueueAfter` |
| `FifoQueue` | abstract: what a FIFO promises | `queue`, and `out`, the words that reads have got; `Edge`, `Clear` |
| `Fifos` | `syncfifo` and `asyncfifo` | memory, pointers, counts; `SyncEdge`; `WrEdge`, `RdEdge`, `BothEdges`; `Clear` |
| `GenPHV` | `Gen_PHV_and_Conf_Parser` with its FIFO | word side and slice side; `HeadWord`, `BodyWord`, `Pause` are clock edges, `Reset` |
| `StreamParser` | `StreamParser_Top`: composes `GenPHV` and `ParserTop` | each clock edge is one of `GenPHV` and one of `ParserTop`; `ResetClock`, `ResetEnds` |
| `CParser` | `parser.c` | the variables of `main`; one action, `ParserLayer`, is a call (its specification is `SpecC`, so that `ProgramProofs` can extend both programs) |
| `GenRule` | `gen_rule.py`, EXTENDS `RuleOps` for the lookup its rules are for | work lists and rules; `Walk` is a turn of the first loop, `WriteLayer0` and `WriteRule` one of the second; `BytesOf` splits values and masks into bytes, `RuleWritten` puts them on the registers of a rule, the bytes that are missing as wildcards |
| `LayerProofs` | theorems about the two parts of a layer, `RuleTable` and `HeadStream` | |
| `ParserTopProofs`, `DeparserTopProofs`, `EncapDecapProofs`, `FifosProofs`, `GenPHVProofs`, `StreamParserProofs` | theorems about the module each is named after; `StreamParserProofs` uses the lemmas of `GenPHVProofs` and `ParserTopProofs` | |
| `ProgramProofs` | theorems about the two programs, `GenRule` and `CParser` | |
| `MC...` | values of the constants for TLC | |

Conventions. A word of *w* bits is the set of the positions of its ones, so OR
is union and AND is intersection; an all-zero word is the empty set. A slice is
a function from unit numbers, unit 0 first on the wire. Every nonblocking
assignment of an `always` block is one component of the next state, so a clock
edge is one action. Variables marked *history* are read by properties only.
Definitions announced as *mutation* are not the code: each is a plausible
mistake in the definition below it, and `PROJECT.json` names the property that
finds it.

The pipelines are compared with references on whole packets (`PacketRef`).
`flight` of `ParserTop` and `DeparserTop` holds, for every packet on its way,
its slices as one row of units and the lookup results its own headers produced,
each read at the one clock at which the packet's type fields are at that
layer's match. It has no slices, shifters or delays, so a property that relates
it to the output says what the pipeline computes. `StreamParser` goes further:
its reference applies every configuration word at once, as a user of the
repository thinks of it, and parses packets from their words.

The models lean on each other at these seams:

* `HeadStream`, `ParserTop` and `DeparserTop` assume about their input what
  `GenPHV` shows of its output in `PacketsInOrder` and `ContiguousPackets`:
  slices of a packet are contiguous, from start to tail, and there is at least
  one empty slice between packets. `StreamParser` drops the assumption and
  connects the two.
* `GenPHV` uses a queue for its FIFO; `Fifos` shows that `syncfifo` implements
  that queue if nobody reads it when empty; `NeverReadsEmpty` shows that nobody
  does.
* `ParserTop`, `DeparserTop`, `CParser` and `RuleTable` use the same operators
  for rules; `RuleTable` shows what those operators, clocked, promise.

## Runs

| Run | Instance | Shows |
|---|---|---|
| `rule_table` | 2 rules, 1 type, 1 key; every kind of word, ids that alias or name nothing, two power-up values | `CompleteDraftIsOwn`; the registers implement `RuleStore` |
| `head_stream` | 3 units, 2 key fields, packets of 1 to 3 slices, every shift and offset | `StreamShifted`, `MetaExtended` |
| `parser` | 3 layers, 4 units, 2 keys, 2 rules, 2 packets of 1 to 3 slices, up to 2 configuration words or resets anywhere | `HeadParsed`, `MetaParsed` with priorities, misses, overlapping fields and rules that change |
| `phv` | 2 words a slice, 2 kinds of word, packets up to 5 words, a counter of 3 | the seven properties of `GenPHV` |
| `stream` | receiver and 2 layers, 2 packets up to 3 words, ordinary or configuration, one reset anywhere between packets | `ParsedAsTold` |
| `deparser` | 4 layers, 4 units of two bits, 2 keys, 2 packets of 1 to 4 slices; anywhere a reset or a word that changes a rule of layer 1 or takes a key of layer 0 from another unit | `FieldsReplaced` |
| `encap_decap` | 3 units, packets of 1 to 4 slices, a slice counter of 3 that wraps in the fourth, every place and length | `FieldInserted`, `UnitsRemoved` |
| `fifos` | 4 words, 3 values, both FIFOs | `ImplementsQueue`, `PortsShowQueue`, `CountsSafe` |
| `c_parser_layers` | 3 calls, 36 programs, 3 packets | `LastWriterWins`, `ShiftsHandedOn` |
| `gen_rule_walk` | 244 tables of 4 and 5 protocols, bytes of two bits, 3 rules and 3 layers of registers: trees, protocols with two parents, type fields of one and of two bytes at one depth, masks that leave bits out, headers that look alike, cycles, names without a row or with two, one rule or one layer too many | `Terminates`, `ChainsParsed`, `RulesNumbered` |
| `deparser_withdraw` | words that withdraw the keys of layer 0 | a violation, see findings |
| `c_parser_match` | as `c_parser_layers` | a violation, see findings |

Bounds, and why they are enough. Units of one or two bits tell a unit from its
neighbour when the slices differ at every border; in the deparser the second
bit tells a field value from the packet's own. Three slices make a packet with
a first, a middle and a last slice; the deparser's fourth lets a field lie one
slice behind a base slice that is itself moved on by a whole slice of meta
shift, with an untouched slice before the tail. Two packets make every
neighbour a packet can have, because a gap flushes `preHead`; `EncapDecap`,
whose packets may follow without a gap, does not bound their number. Three
layers show the alignment between layers and that it repeats; the deparser has
a fourth, one more than the hardware, because the third is the first that can
move the base slice on. Two configuration words cover a commit and a reset, and
two words around a packet; how a draft is put together word by word is the
matter of `rule_table`, so under traffic the words commit the draft that
loading the rules has left. In `Fifos` the pointers wrap, and the full memory,
the one that looks empty and every distance of the pointers occur.

In `GenPHV` the number of packets is not bounded: the state space is finite
because the FIFO drains as fast as it fills. `MaxLen` and `CntHeadMod` of `phv`
are at the edge: with a counter of *M* values and packets of at least two
words, the counter stays exact for packets of up to *2M - 3* slices and wraps
for *2M - 2* (tried for *M* = 3, 4 and 8). The real counter has 16 values, so
packets of up to 29 slices of 64 bytes are safe and jumbo frames among short
ones are not. No document of the repository states a maximum length, so this is
a condition of use rather than a finding.

Fairness. `GenPHV!FairSpec` adds `WF_sliceVars(Clock)`: the clock does not stop
while its next edge would change the slice side. It is the hardware clock, and
every action of `Clock` has the same slice side, so this asks nothing of the
words. Weak fairness of `Clock` over all variables would be too much: with an
idle receiver the only edge that changes a variable is one with a word, so it
would make packets arrive, and a packet that waits for the next one to push it
out would go unnoticed. `GenRule!FairSpec` adds `WF_vars(Next)`: the script is
a sequential program and runs on until its loops end. `MaxRules` stops the walk
of tables that make it run for ever; `Terminates` is about the others (`Sound`),
which stay far below it.

Deadlock is checked in every run but those of `CParser` and `GenRule`, which are
programs that end; in the hardware a clock edge is always possible.

## What the properties say, where it is not obvious

* `FieldsReplaced` speaks of packets whose rules the deparser can express
  (`Expressible`): targets that are distinct within a layer (equal ones OR their
  key numbers and pick a third key, `Deparser_Layer.sv:227`), replace offsets
  that fit in a rule, no fields in the one layer in which the total of the
  meta shifts passes a slice (its targets still count from the old base), and
  in a packet of one slice no fields behind it (the slice is a tail, so every
  layer takes it for its base). It leaves the units of a tail slice behind other
  slices out, see below.
* `FieldInserted` speaks of fields that fit in their slice (`FieldFits`). The
  four-bit slice counter starts again behind `SliceNumMod` slices (16, that is
  1024 bytes) and meets the slice of the request once more, so `FieldInserted`
  and `UnitsRemoved` say what the code does to a longer packet: in every
  further block of so many slices the field is inserted anew, and the last units
  of the block before it are lost; the units are removed anew, and those that a
  block's cut moves in from the next block also stay where they were.
* `ParsedAsTold` demands the exact parse of packets that no configuration word
  overtakes (`quiet`). Configuration words go past the FIFO, so a packet that
  arrived before them may be parsed by rules told after it; such packets must
  still leave whole and in order. A word that is pending when a reset starts is
  still there when it ends (`Gen_PHV_and_Conf_Parser.v:87` has no reset), so the
  rule it commits is the one rule that a reset does not forget.
* `ShiftsHandedOn` relates two calls of `parser_layer`: of a header on which
  exactly one rule hits both in C and in `Lookup_Type` (where they disagree is a
  finding), and of a header on which none hits. Then the variables keep what the
  call was given, so the next call moves the head once more by the same shift,
  and its fields take the place of this call's.
* `Inside` and the run's `TypeOK` are about programs that leave room (`Roomy`).
  The numbers in `parser.c` do so for the one call that `main` makes, and not
  for its three layers: a caller's meta shift of 2, a rule's of 12 and 8 keys
  would have a second call write `meta[14]` to `meta[21]`, of 20. The run's
  arrays are sized for its three calls.
* `ChainsParsed` puts the rules as they are written into the rule registers and
  looks them up as the hardware does (`FirstHit` of `RuleOps`, which is what
  `Lookup_Type` uses), for all data a header may have. It is about tables
  - in which every name has a row and no chain of protocols is endless
    (`Sound`);
  - whose rules have a register (`RegistersExist`): the hardware has three
    layers of eight rules with two type bytes, and nothing in the script counts
    them, so a rule past them is forced on registers that do not exist;
  - whose masks tell the size of the type field (`Masked`): the script takes the
    number of bytes from the mask (`gen_rule.py:27`), not from the `len` of the
    row, so of a two-byte field under a mask below 256 it writes one byte;
  - in which no header that announces one protocol looks like one of the same
    depth that announces another (`Unambiguous`). A layer sees bytes and not
    what header they are from, and a byte a rule does not have is a wildcard
    (`gen_rule.py:140`). If IPv4 announces 8 and VLAN 0x0800, both behind
    Ethernet, the one-byte rule also hits the bytes 08 00 behind VLAN, and the
    rule generated first wins: such tables are in the run and left out here.

  Of the run's tables 77 meet all four conditions; 8 are sound with headers that
  look alike, 27 sound with too many rules or layers, the other 132 not sound.

## Proofs

All are for arbitrary values of the constants under the assumptions named in
the modules: `WidthAssumption` and `NumAssumption` (widths and numbers of the
package), `KeyNumAssumption` (a key number fits its field), `ConfAssumption`,
`InputAssumption`, `RequestAssumption`, both `TopAssumption` (the inputs have
their widths), `GenAssumption`, `StreamAssumption` (words fill a slice evenly),
`PartsAssumption` (the two parts' own), `FifoAssumption` (more than one word),
`GenRuleAssumption` and `CAssumption`. In particular there is any number of
layers, rules, packets and slices, and configuration words come at any clock.
Two theorems, `Replacement` and `Inside`, have a hypothesis beside their
modules' assumptions; those about the receiver's counter, FIFO and order, and
`Parsed`, which rests on them, need that the longest packet fits. All are
explained below.

Each theorem has its own strengthening, an invariant named `...Inv` in the proof
module, and three steps: `Init` implies it, every action keeps it, it implies
the property.

* `LayerProofs!TypeCorrect`, `DraftOwnership`. "All fields were given" says
  nothing until it is true, so the invariant is field-wise
  (`GivenFieldsAgree`): a field given since the last commit is the same in the
  staging register and in one that forgot everything else. Each word changes
  both alike (`StagedAgrees`).
* `LayerProofs!StoreRefinement`. A rule counts as committed from the word
  on, that is, it is what the RAM will hold after the pending write enable:
  `rules <- Written(table, wren, stage)`. Every clock edge maps to `Idle`,
  `Draft` or `Commit`, and a reset to `Reset` only because it clears the write
  enables too.
* `LayerProofs!Stream`. The invariant `StreamInv` adds what is one clock
  inside: `preHead` holds the newest slice, the held shift is that of the
  packet's own start slice, and a tail is followed by an empty slice.
* `LayerProofs!Metadata`. `MetaInv` says the same of the metadata slice
  while its fields, offset and meta shift are registered.
* `ParserTopProofs!TypeCorrect`, `Heads`. `HeadsInv` says of every layer what
  each of its registers holds in terms of the packets in flight: at a fixed age
  per register (`Came`, `Place`), the slice of the packet at that distance,
  moved by the shifts of the headers before the layer (`SliceOf`), and the held
  shift, types and lookup result of the packet whose header it was. The step
  lemmas are about one layer on constants (`LayerStep`), so that the proof does
  not grow with the number of layers; two packets cannot be at one register
  (`FlightOK`: their ages are at least a packet and a gap apart); a layer's
  lookup reads its own rules at the one clock at which the reference does,
  which is what keeps packet and rules together when rules change.
* `ParserTopProofs!Metadata`. `MetaInv`: beside the start slice, and only there,
  the metadata registers of layer *k* hold the fields of the layers before it
  (`Gathered`) and the offset behind them.
* `EncapDecapProofs!TypeCorrect`, `Insertion`, `Removal`: for packets of every
  length, any slice counter and every request. The invariants say that the slice
  counter is the number of the held slice in its packet, modulo `SliceNumMod`,
  and tie the held slice to the slice before it; `BlockAt` turns the counter
  into the place of a unit in its block, which is where the wrap comes in.
* `FifosProofs!TypeCorrect`, `PortsCorrect`, `CountsCorrect`,
  `QueueImplemented`: both FIFOs implement `FifoQueue` for every depth above one
  word. The queue is what the memory holds between the pointers (`Span`), and an
  edge moves a pointer by one place or none, modulo the wrap (`ReadSpan`,
  `WriteSpan`). In the asynchronous FIFO each side reads the other's pointer
  as it is, but registers the count it makes of it, which is old by one of its
  own clocks; the invariant of `CountsCorrect` bounds what the other side may
  have done since, one word at most on the side that matters.
* `GenPHVProofs!TypeCorrect`, `Destination`. `ConfInv` adds that the
  configuration flag is up exactly inside an unbroken configuration packet,
  hence down between two packets.
* `GenPHVProofs!CounterExact`, `ReadsFull`, `Contiguous`, `InOrder`. They hold
  if the longest packet fits (`Fits`): two more than its slices are fewer than
  twice the counter's values and fewer than the FIFO's words. With the real 16
  values and 512 words that is 29 slices of 64 bytes; the condition is the edge
  that the `phv` run shows (above). `BacklogInv` is the argument: the counter
  counts the tails in the FIFO and the slices in it are bounded by the packet
  that is being written and the ones that came while it drained, so the counter
  does not pass its last value with a packet still to be counted. `OrderInv`
  then says that FIFO, slice being built and slices sent are the words received,
  in order.
* `StreamParserProofs!Implements`. Seen through the variables of the receiver,
  every step of `StreamParser` is one of `GenPHV`, a clock under reset included,
  so its theorems hold here. (The parser is not refined the same way: a reset
  lasts many clocks here and one in `ParserTop`. Its lemmas are about registers
  and a list of packets in flight, not about its specification, and are used
  for the list that is made here.)
* `StreamParserProofs!Parsed`: `ParsedAsTold`, from the words of a packet to its
  metadata. `line` says what a user expects and `HeadsOf`, `MetasOf` of
  `ParserTopProofs` what the registers hold of a list of packets in flight;
  the invariant `StreamInv` says that there is such a list that fits the line
  (`FlightOf`): first the packets that have been sent whole, then the one that
  is being sent, the rest of the line still waiting in the receiver; each with
  the units its words have and the lookup results the reference parse has
  (`Pair`). It needs to know
  - what has been told: `ConfigInv`, the registers hold what has been told up to
    the one word in `o_rule_wren` and the staged commit behind it, through the
    reset that forgets all rules but the pending one; `QuietInv`, a packet is
    quiet only if nothing has been told since its first word, so that its
    lookups, clocks later, read the tables as they were told;
  - how the parts meet: `LinkInv`, layer 1 sees the packet the receiver is
    sending, without a hole and with an empty slice behind it; `MarksInv`, an
    empty slice has no flags and metadata is beside a start only; `IdleInv`, a
    reset leaves nothing on its way;
  - how many slices a packet has: `SlicesInside` of the receiver, without which
    a packet could go on behind its own tail.

  `FlightEdge` is the step: packets age, one may start, one may leave, and each
  still is the one at its place in line. Two units of different layouts are the
  same because words, slices and rows divide alike (`UnitsLemma`, `SlicesFlat`),
  and a layer that looks at a packet whose later slices have not come yet sees
  what the reference sees because its fields lie in the slices that have
  (`SameTypes`).
* `ProgramProofs!RuleNumbers`, `EveryChain`. `NumInv`: rules of one layer are
  numbered from 0 without holes, so no register is written twice
  (`OneRulePerRegister`). `CoverInv`: every rule and every entry of the work
  list stands for a chain of protocols from the first one, with the bytes and
  masks that announce it, and every such chain that is short enough is stood
  for by a rule, an entry, or a longer chain that starts at an entry. On the
  side of the hardware `HitIsMatch` says that a rule hits exactly the headers
  its bytes and masks match, padded bytes included (`WordBytes`, `ShownBytes`):
  so the chain's own rule hits (`WrittenHits`), whatever else hits stands for a
  header that looks like it, and by `Unambiguous` has the same row.
  `RegistersExist` is a hypothesis about the rules, not a bound of the proof:
  layers, rules and type registers may be of any number. Trying to prove
  `ChainsParsed` showed that an early version was false for a table that lists
  the first protocol twice, which no run had tried; the property follows the
  code now (`gen_rule.py` takes the last row of a name), and the run has tables
  with a name in two rows.
* `ProgramProofs!LastWriter`, `HandedOn`: the C parser, for any rules and any
  number of calls. `LastWriterWins` is inductive once the calls are known to be
  a list; `HandedOn` needs `LeftBehind`, what the last call has left in the
  variables passed by pointer, and that the sum of the meta shifts over one hit
  is that of the hit (`SumOfOne`) and over none is 0 (`SumOfNone`).
* `ProgramProofs!Inside`: no call of the C parser reads past `head` or writes
  past `meta`. Nothing in `parser.c` checks a pointer, so this depends on the
  rules, and the theorem says on what: `Roomy(H, M)`, no rule moves the head by
  more than `H`, no rules of a layer that hit together move the metadata by
  more than `M` (meta shifts of several hits add up, `parser.c:37`), and one
  call less than there are layers, each moving that far, leaves room for the
  fields the caller asks for. `RoomInv` bounds head and metadata by the number
  of calls. For the numbers of `parser.c` it holds of one call, not of three
  (above). `MCCParser` has TLC evaluate `Roomy(3, 5)` for the run's programs,
  as the assumption `MCRoomy`.
* `DeparserTopProofs!TypeCorrect`. Among the widths are two that are no matter
  of shape: the number of the key a unit takes, which is the OR of the numbers
  of all keys aimed at it, is still the number of a key; and the latch of layer
  0 holds at least the targets that are configured.
* `DeparserTopProofs!Replacement`: `FieldsReplaced`, from three invariants,
  each about every register of every layer. `HeadsInv` says whose slice, field
  values and flags a register holds, and which targets it was told, as
  `HeadsInv` of the parser does; targets count from the base slice (`Base`),
  which the third layer on may be a later slice of the packet. `ShiftsInv` says
  that the shift flags that travel with the packet mark that slice
  (`BaseFound`), a tail always counting as one. `DataInv` says that the data
  are those of the packet after the layers so far (`Result`). What carries the
  last one through a layer is `Placed`: remainder and carry of a target name
  the unit that the total of the meta shifts means, and no two fields are aimed
  at one unit. The hypothesis `StaticTargets` is that no word for layer 0
  changes whether a key is replaced or where it goes. It cannot be dropped: the
  latch never forgets a target, which the run `deparser_withdraw` shows. The
  other words for layer 0, and all for the other layers, are free; the
  constants of the `deparser` run satisfy it, with a word for layer 0 among
  them. Preparing the proof showed that `Expressible` has to leave out fields
  behind a packet of one slice, which no instance with three layers had met;
  the run has four since.

Sums over layers, slices and rows are recursive functions. Where their value
matters for every length, induction is done on sets: the numbers for which a
claim holds contain 0 and every successor (`InductionOnSets`, from the library's
`NatLessThanWellFounded` and `WFMin`, whose statements have no operator
parameter).

Only model-checked: `PacketsLeave` and `Terminates`, liveness under fairness,
which is outside what TLAPS proves. The two violations are counterexamples and
need no proof.

## Findings

* `Deparser_Top.sv:103`: `l_key_replaceOffset_v` is a latch that nothing clears,
  so layer 0 goes on replacing at a place whose key has been withdrawn
  (`deparser_withdraw`).
* `parser.c:31`: `data != mask & type` is `(data != mask) & type` in C, so rules
  hit that the hardware's masked comparison rules out and the other way round
  (`c_parser_match`).

Other disagreements met while modelling, modelled as the code does:

* `Parser_Top.sv:13` says that address bits [31:24] choose the layer; two of
  them do (`B_LAYER_ID`, `global_head.svh:22`). A word for layer 4 writes layer
  0; the `parser` run configures layer 0 by that name.
* `Parser_Top.sv:12` says that the offset tag is the last valid data of a slice;
  the receiver gives every slice the offset of a full one.
* `Shift_Replace_Head.sv:59` takes a tail slice for a base slice, so the tail of
  a longer packet takes the base slice's fields once more, against the comment
  in lines 13 and 14.
* `Rule_Conf.sv:87` takes a rule's replace offset from the bits of the key
  offset; `testbench_deparser.sv:24` and layer 0 (`Deparser_Top.sv:129`) have it
  in bits of its own. No configuration word can give a rule another replace
  offset than its key offset; `deparser` starts from tables that have one.
* `parser.c:34` assigns the offsets of the rule that hit to the function's own
  copies of two pointers, so the next call extracts at the caller's offsets.
* `gen_rule.py:101` makes the mask of replaced places from the places the fields
  come from.

## Not modelled, abstracted or left out

* `Replace_MAC_ADDR`: its only instance is commented out in
  `StreamParser_Top.v`, with the FIFO that would say when its metadata arrives.
  `syncram` is instantiated nowhere. The test benches are stimulus.
* `sim_for_vcs/` is an older copy of the sources and what the VCS simulator
  generated for it (`csrc/rmapats.h`, `_vcs_pli_stub_.c` and others). Most of
  the repository's C files by length are that generated code, which holds
  nothing of the parser; what is modelled is the SystemVerilog, Verilog and
  Python sources and `parser.c`.
* `read_csv.py` and `get_type_key.py` parse text; the numbers they hand over are
  the constant `Tables` of `GenRule`.
* The build of `Lookup_Type` without `RULE_W_PRIORITY` and the one-clock build
  of the layers are not the ones `global_head.svh` selects.
* Pipeline registers without a reset start flushed in `ParserTop` and
  `DeparserTop`: packets sent in the first clocks after power-up are not
  followed.
* A reset inside a packet: the receiver takes the rest of the packet for slices
  without a start, counts their tail, and stays one too high from then on.
  Resets fall between packets in the models; a head word before the tail of the
  packet before it is no input either. `o_phv_valid`, which drives nothing, is
  not a variable.
* A layer-0 update is several words. `ParserTop` lets a packet pass between two
  of them: it is then parsed by the mixture, consistently. The host has to stop
  traffic for an atomic change of layer 0. In the deparser the
  fields of layer 0 change under traffic, their targets do not: the latch makes
  every such change stick.
* `MetaParsed` speaks of packets whose meta shifts fit in one slice
  (`MetaFits`); beyond it the offset wraps, as `MetaExtended` says for one
  layer.
* `asyncfifo` is instantiated nowhere; its user is taken to write only when
  there is room and to clear both sides together. Metastability of its pointers
  is below the model.
* In `GenRule` a row's head and meta shift, which the script copies into its
  rules, are represented by the row's number, and the places of a row's keys
  are distinct.
* In `CParser` rules are given to `parse_rules` of every layer, and calls go on
  with the caller's variables; `main` itself makes the call of layer 0 only.
* The read port of the configuration bus returns constants.

## Plan

1. Done: rule path, `Shift_Head`, parser pipeline, receiver.
2. Done: the FIFOs and their queue, deparser, encapsulation and decapsulation,
   receiver and parser composed, rule generator, C parser.
3. Done, proofs: the rule path and its refinement, `Shift_Head`, the parser
   pipeline, the deparser, encapsulation and decapsulation, both FIFOs and their
   refinement, the safety properties of the receiver, the rule generator, the
   C parser, and `ParsedAsTold` from the proofs about receiver and parser.
4. What could follow: resets and head words in the middle of a packet, once the
   source says what the receiver should make of them, and `Replace_MAC_ADDR`,
   once it is instantiated again.
