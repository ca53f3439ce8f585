-------------------------------- MODULE GenPHV --------------------------------
(***************************************************************************)
(* Gen_PHV_and_Conf_Parser: packets arrive as a stream of words, possibly  *)
(* with pauses; PKT_NUM words are collected into a slice, slices go        *)
(* through a FIFO, and a packet is sent to the parser only when it is      *)
(* complete, one slice per clock.  The words of a configuration packet     *)
(* (ether type 0x9006) are also sent to the parser as configuration        *)
(* writes.  Every action but Reset is one clock edge.                      *)
(***************************************************************************)
EXTENDS Integers, FiniteSets, FifoOps

CONSTANTS
  PKT_NUM,       \* words of a slice (HEAD_WIDTH / 128)
  CntHeadMod,    \* 2 ^ width of r_cnt_head (16)
  FifoWords,     \* words of the FIFO (512)
  Tokens,        \* what a word may carry
  Blank,         \* a word nobody has written yet
  MaxLen         \* bound: words of a packet

ASSUME GenAssumption ==
  /\ PKT_NUM \in Nat /\ PKT_NUM >= 2
  /\ CntHeadMod \in Nat \ {0} /\ FifoWords \in Nat \ {0}
  /\ Blank \notin Tokens
  /\ MaxLen \in Nat /\ MaxLen >= 2

VARIABLES
  \* word side
  cntPkt,      \* r_cnt_pkt, of which only the slot of the next word is used
  tagConf,     \* r_tag_conf: in a configuration packet
  din,         \* r_din_head: the slice being collected
  wren,        \* r_wren_head: din goes into the FIFO
  oPkt,        \* o_pkt_valid, o_pkt
  oRule,       \* o_rule_wren, o_rule_addr, o_rule_wdata
  \* slice side
  fifo,        \* the FIFO's slices, the next one to read first
  rden,        \* r_rden_head: the front of the FIFO is being read
  cntHead,     \* r_cnt_head: complete packets whose start has not been read
  oPhv,        \* o_phv
  oMeta,       \* o_meta: its flags, which are all set or all clear
  \* history
  rx,          \* what arrived of the packet being received
  conf,        \* the packet being received is a configuration packet
  whole,       \* no pause since its first word
  due,         \* complete packets that have not been sent yet, oldest first
  got          \* slices sent of the first of them

wordVars == <<cntPkt, tagConf, din, wren, oPkt, oRule>>
sliceVars == <<fifo, rden, cntHead, oPhv, oMeta>>
history == <<rx, conf, whole, due, got>>
vars == <<wordVars, sliceVars, history>>

-----------------------------------------------------------------------------
Slots == 0 .. PKT_NUM - 1
Cell == Tokens \cup {Blank}

(* A slice and its tag.  The offset, in words here, is all ones.           *)
PhvSlice == [data : [Slots -> Cell], valid : BOOLEAN, start : BOOLEAN, tail : BOOLEAN,
             offset : Slots]

NoSlice == [data |-> [s \in Slots |-> Blank], valid |-> FALSE, start |-> FALSE,
            tail |-> FALSE, offset |-> 0]

AllOnes == PKT_NUM - 1

NoWord == [valid |-> FALSE, tok |-> Blank]
WordOf(t) == [valid |-> TRUE, tok |-> t]

Init ==
  /\ cntPkt = 0 /\ tagConf = FALSE
  /\ din = NoSlice /\ wren = FALSE
  /\ oPkt = NoWord /\ oRule = NoWord
  /\ fifo = <<>> /\ rden = FALSE /\ cntHead = 0
  /\ oPhv = NoSlice /\ oMeta = FALSE
  /\ rx = <<>> /\ conf = FALSE /\ whole = FALSE /\ due = <<>> /\ got = 0

-----------------------------------------------------------------------------
(* The slice side of a clock edge.  w_dout_head is the front of the FIFO   *)
(* (first word fall through); without a front there is no packet to read.  *)
Front == IF fifo = <<>> THEN NoSlice ELSE fifo[1]

IncCnt == wren /\ din.tail
DecCnt == rden /\ Front.start

(* fifo_head is a FifoQueue (Fifos shows that syncfifo implements it if    *)
(* it is never read empty, and NeverReadsEmpty that it is not).            *)
FifoClock == fifo' = QueueAfter(fifo, FifoWords, din, wren, rden)

(* Mutations of the two operators that follow: a start read hides a tail   *)
(* written on the same edge; the read goes on to the next packet without   *)
(* a pause; the read waits for a second packet.                            *)
NextCntHeadLosesTail ==
  IF DecCnt THEN (cntHead - 1) % CntHeadMod
  ELSE IF IncCnt THEN (cntHead + 1) % CntHeadMod
  ELSE cntHead

NextRdenGoesOn ==
  IF cntHead # 0 THEN TRUE
  ELSE IF rden /\ Front.tail THEN FALSE
  ELSE rden

NextRdenWaitsForTwo ==
  IF cntHead > 1 /\ ~rden THEN TRUE
  ELSE IF rden /\ Front.tail THEN FALSE
  ELSE rden

(* r_cnt_head: a tail in and a start out on the same edge cancel out.      *)
NextCntHead ==
  IF DecCnt /\ ~IncCnt THEN (cntHead - 1) % CntHeadMod
  ELSE IF IncCnt /\ ~DecCnt THEN (cntHead + 1) % CntHeadMod
  ELSE cntHead

(* r_rden_head: raised when a complete packet waits, dropped at its tail.  *)
NextRden ==
  IF cntHead # 0 /\ ~rden THEN TRUE
  ELSE IF rden /\ Front.tail THEN FALSE
  ELSE rden

SliceClock ==
  /\ FifoClock
  /\ oPhv' = IF rden THEN Front ELSE NoSlice
  /\ oMeta' = (rden /\ Front.start)
  /\ cntHead' = NextCntHead
  /\ rden' = NextRden

(* The packets that are still due after a slice has been sent; "more" has  *)
(* the packet that has become complete, if one has.                        *)
Sent(more) ==
  /\ due' = (IF oPhv.valid /\ oPhv.tail /\ due # <<>> THEN Tail(due) ELSE due) \o more
  /\ got' = IF oPhv.valid THEN IF oPhv.tail THEN 0 ELSE got + 1 ELSE got

-----------------------------------------------------------------------------
(* Mutation of Pause: a pause does not end the configuration packet.       *)
PauseKeepsConf ==
  /\ SliceClock
  /\ wren' = FALSE
  /\ oPkt' = NoWord
  /\ oRule' = NoWord
  /\ Sent(<<>>)
  /\ whole' = FALSE
  /\ UNCHANGED <<tagConf, cntPkt, din, rx, conf>>

(* A clock without a word: it ends a configuration packet, and what is     *)
(* left of an ordinary packet after it is not forwarded.                   *)
Pause ==
  /\ SliceClock
  /\ wren' = FALSE
  /\ oPkt' = NoWord
  /\ oRule' = NoWord
  /\ tagConf' = FALSE
  /\ Sent(<<>>)
  /\ whole' = FALSE
  /\ UNCHANGED <<cntPkt, din, rx, conf>>

(* The first word of a packet.  A packet is not left without a tail.       *)
HeadWord(t, isConf) ==
  /\ rx = <<>>
  /\ SliceClock
  /\ wren' = FALSE
  /\ cntPkt' = 1 % PKT_NUM
  /\ din' = [din EXCEPT !.data[0] = t, !.valid = TRUE, !.start = TRUE, !.tail = FALSE,
                        !.offset = AllOnes]
  /\ oPkt' = IF isConf THEN NoWord ELSE WordOf(t)
  /\ tagConf' = isConf
  /\ oRule' = IF tagConf THEN WordOf(t) ELSE NoWord
  /\ rx' = <<t>> /\ conf' = isConf /\ whole' = TRUE
  /\ Sent(<<>>)

(* Mutations of the two operators that follow: the slot is not cut to its  *)
(* width; a partly filled tail slice is not written.                       *)
NextSlotUncut == cntPkt + 1
SliceReadyWhenFull(tail) == cntPkt = PKT_NUM - 1

(* r_cnt_pkt[PKT_NUM_WIDTH-1:0] after a body word, and r_wren_head.        *)
NextSlot == (cntPkt + 1) % PKT_NUM
SliceReady(tail) == cntPkt = PKT_NUM - 1 \/ tail

(* Every other word of a packet.                                           *)
BodyWord(t, tail) ==
  /\ rx # <<>>
  /\ Len(rx) + 1 >= MaxLen => tail
  /\ SliceClock
  /\ cntPkt' = NextSlot
  /\ din' = [din EXCEPT !.data[cntPkt] = t,
                        !.start = IF cntPkt = 0 THEN FALSE ELSE @,
                        !.valid = TRUE,
                        !.offset = IF cntPkt = 0 THEN AllOnes ELSE @,
                        !.tail = IF tail THEN TRUE ELSE IF cntPkt = 0 THEN FALSE ELSE @]
  /\ wren' = SliceReady(tail)
  /\ oPkt' = IF oPkt.valid THEN WordOf(t) ELSE NoWord
  /\ tagConf' = (tagConf /\ ~tail)
  /\ oRule' = IF tagConf THEN WordOf(t) ELSE NoWord
  /\ rx' = IF tail THEN <<>> ELSE Append(rx, t)
  /\ Sent(IF tail THEN <<Append(rx, t)>> ELSE <<>>)
  /\ UNCHANGED <<conf, whole>>

(* i_rst_n falls between two packets.  It empties the FIFO and clears the  *)
(* flags; what the data registers hold stays.                              *)
Reset ==
  /\ rx = <<>>
  /\ cntPkt' = 0 /\ tagConf' = FALSE /\ wren' = FALSE
  /\ oPkt' = NoWord
  /\ fifo' = <<>> /\ rden' = FALSE /\ cntHead' = 0
  /\ oPhv' = [oPhv EXCEPT !.valid = FALSE, !.start = FALSE, !.tail = FALSE, !.offset = 0]
  /\ oMeta' = FALSE
  /\ due' = <<>> /\ got' = 0
  /\ UNCHANGED <<din, oRule, rx, conf, whole>>

Clock ==
  \/ Pause
  \/ \E t \in Tokens : \/ \E isConf \in BOOLEAN : HeadWord(t, isConf)
                       \/ \E tail \in BOOLEAN : BodyWord(t, tail)

Next == Clock \/ Reset

Spec == Init /\ [][Next]_vars

(* The clock does not stop while an edge would change the slice side;      *)
(* nothing makes words arrive.                                             *)
FairSpec == Spec /\ WF_sliceVars(Clock)

-----------------------------------------------------------------------------
TypeOK ==
  /\ cntPkt \in Slots /\ tagConf \in BOOLEAN
  /\ din \in PhvSlice /\ wren \in BOOLEAN
  /\ oPkt \in [valid : BOOLEAN, tok : Cell] /\ oRule \in [valid : BOOLEAN, tok : Cell]
  /\ fifo \in Seq(PhvSlice) /\ Len(fifo) < FifoWords
  /\ rden \in BOOLEAN /\ cntHead \in 0 .. CntHeadMod - 1
  /\ oPhv \in PhvSlice /\ oMeta \in BOOLEAN
  /\ rx \in Seq(Tokens) /\ Len(rx) < MaxLen /\ conf \in BOOLEAN /\ whole \in BOOLEAN
  /\ due \in Seq(Seq(Tokens)) /\ got \in Nat

(* The number of complete packets in the FIFO that have not been begun.    *)
Tails == {i \in 1 .. Len(fifo) : fifo[i].tail}
Waiting == Cardinality(Tails) - (IF rden /\ ~Front.start THEN 1 ELSE 0)

(* r_cnt_head counts exactly the complete packets whose start has not been *)
(* read, though one side of the FIFO counts tails as they are written and  *)
(* the other starts as they are read, at times on the same edge; it never  *)
(* wraps for packets up to MaxLen words.                                   *)
CountExact == cntHead = Waiting

(* The FIFO is never read when it is empty nor filled until it looks empty *)
(* (neither port of fifo_head is guarded by its flags).                    *)
NeverReadsEmpty == rden => fifo # <<>>

NumSlices(packet) == (Len(packet) + PKT_NUM - 1) \div PKT_NUM

(* What is sent to the parser is the packets as they arrived: each of them *)
(* once, in order, from its start slice to its tail slice, every word of   *)
(* it in its place (a partly filled tail slice holds older words behind    *)
(* the packet's last one; they are not looked at here).                    *)
PacketsInOrder ==
  oPhv.valid =>
    /\ due # <<>>
    /\ LET packet == due[1]
           Pos(s) == got * PKT_NUM + s + 1
       IN  /\ oPhv.start <=> got = 0
           /\ oPhv.tail <=> got = NumSlices(packet) - 1
           /\ oMeta <=> got = 0
           /\ \A s \in Slots : Pos(s) <= Len(packet) => oPhv.data[s] = packet[Pos(s)]

(* The stream the parser is sent: on the clocks after a start slice come   *)
(* the other slices of the packet without a hole, and after a tail slice   *)
(* at least one empty slice, however the words trickle in.  Shift_Head     *)
(* relies on both.                                                         *)
StreamStep ==
  /\ oPhv.valid /\ ~oPhv.tail => oPhv'.valid /\ ~oPhv'.start
  /\ oPhv.valid /\ oPhv.tail => ~oPhv'.valid
  /\ ~oPhv.valid /\ oPhv'.valid => oPhv'.start
ContiguousPackets == [][~Reset => StreamStep]_vars

(* Every complete packet is sent to its tail, unless a reset throws it     *)
(* away: no packet waits for another one to push it out of the FIFO.       *)
PacketsLeave == (due # <<>>) ~> (due = <<>> \/ (oPhv.valid /\ oPhv.tail))

(* Each word has one destination.  The words of a configuration packet     *)
(* that arrive before its first pause become rule writes, its head word    *)
(* excepted; those of an ordinary packet are forwarded; after a pause the  *)
(* rest of either packet is neither; and no packet, a configuration packet *)
(* with a pause before its tail or one right behind the other included,    *)
(* puts a word where it does not belong.  A packet's last word is no       *)
(* exception: on the clock behind it wren is up.                           *)
Received == IF rx # <<>> THEN rx ELSE due[Len(due)]

OneDestination ==
  /\ ~(oPkt.valid /\ oRule.valid)
  /\ rx # <<>> \/ wren =>
       /\ oPkt.valid <=> (whole /\ ~conf)
       /\ oRule.valid <=> (whole /\ conf /\ Len(Received) > 1)
       /\ oRule.valid => oRule.tok = Received[Len(Received)]
       /\ oPkt.valid => oPkt.tok = Received[Len(Received)]
=============================================================================
