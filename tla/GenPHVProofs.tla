----------------------------- MODULE GenPHVProofs -----------------------------
(* Proofs about GenPHV, for every slice and packet length, counter width   *)
(* and FIFO size.                                                          *)
EXTENDS GenPHV, FiniteSetTheorems, SequenceTheorems, TLAPS

LEMMA ModLemma ==
  ASSUME NEW n \in Int, NEW m \in Nat \ {0}
  PROVE  n % m \in 0 .. m - 1
OBVIOUS

Words == [valid : BOOLEAN, tok : Cell]

(* The constant records and what the operators of a clock edge return have *)
(* the types of their registers.                                           *)
LEMMA RecordTypes ==
  /\ NoSlice \in PhvSlice
  /\ NoWord \in Words
  /\ \A t \in Tokens : WordOf(t) \in Words
BY GenAssumption DEF NoSlice, PhvSlice, Slots, Cell, NoWord, WordOf, Words

LEMMA FrontType ==
  ASSUME TypeOK
  PROVE  Front \in PhvSlice
BY RecordTypes DEF TypeOK, Front

LEMMA FifoType ==
  ASSUME TypeOK, FifoClock
  PROVE  fifo' \in Seq(PhvSlice) /\ Len(fifo') < FifoWords
<1> DEFINE rest == IF rden /\ fifo # <<>> THEN Tail(fifo) ELSE fifo
           all == IF wren THEN Append(rest, din) ELSE rest
<1>1. rest \in Seq(PhvSlice)
  BY DEF TypeOK
<1>2. all \in Seq(PhvSlice)
  <2> HIDE DEF rest
  <2> QED  BY <1>1 DEF TypeOK
<1>3. fifo' = IF Len(all) < FifoWords THEN all ELSE <<>>
  BY DEF FifoClock, QueueAfter
<1>4. Len(<<>>) < FifoWords
  BY GenAssumption
<1> QED
  <2> HIDE DEF all
  <2> QED  BY <1>2, <1>3, <1>4

LEMMA SliceSideType ==
  ASSUME TypeOK, SliceClock
  PROVE  /\ fifo' \in Seq(PhvSlice) /\ Len(fifo') < FifoWords
         /\ rden' \in BOOLEAN /\ cntHead' \in 0 .. CntHeadMod - 1
         /\ oPhv' \in PhvSlice /\ oMeta' \in BOOLEAN
<1>1. fifo' \in Seq(PhvSlice) /\ Len(fifo') < FifoWords
  BY FifoType DEF SliceClock
<1>2. oPhv' \in PhvSlice
  BY FrontType, RecordTypes DEF SliceClock
<1>3. cntHead' \in 0 .. CntHeadMod - 1
  <2>1. cntHead - 1 \in Int /\ cntHead + 1 \in Int /\ cntHead \in 0 .. CntHeadMod - 1
    BY GenAssumption DEF TypeOK
  <2>2. (cntHead - 1) % CntHeadMod \in 0 .. CntHeadMod - 1
    BY <2>1, ModLemma, GenAssumption
  <2>3. (cntHead + 1) % CntHeadMod \in 0 .. CntHeadMod - 1
    BY <2>1, ModLemma, GenAssumption
  <2> QED  BY <2>1, <2>2, <2>3 DEF SliceClock, NextCntHead
<1>4. oMeta' \in BOOLEAN /\ rden' \in BOOLEAN
  BY FrontType DEF SliceClock, NextRden, TypeOK, PhvSlice
<1> QED  BY <1>1, <1>2, <1>3, <1>4

LEMMA SentType ==
  ASSUME TypeOK, NEW more \in Seq(Seq(Tokens)), Sent(more)
  PROVE  due' \in Seq(Seq(Tokens)) /\ got' \in Nat
<1>1. (IF oPhv.valid /\ oPhv.tail /\ due # <<>> THEN Tail(due) ELSE due) \in Seq(Seq(Tokens))
  BY DEF TypeOK
<1> QED  BY <1>1 DEF Sent, TypeOK

LEMMA HeadType ==
  ASSUME TypeOK, NEW t \in Tokens, NEW isConf \in BOOLEAN, HeadWord(t, isConf)
  PROVE  /\ cntPkt' \in Slots /\ tagConf' \in BOOLEAN
         /\ din' \in PhvSlice /\ wren' \in BOOLEAN
         /\ oPkt' \in Words /\ oRule' \in Words
         /\ rx' \in Seq(Tokens) /\ Len(rx') < MaxLen
         /\ conf' \in BOOLEAN /\ whole' \in BOOLEAN
<1>1. 0 \in Slots /\ AllOnes \in Slots /\ 1 % PKT_NUM \in Slots
  BY ModLemma, GenAssumption DEF Slots, AllOnes
<1>2. din' \in PhvSlice
  BY <1>1 DEF HeadWord, TypeOK, PhvSlice, Cell
<1>3. oPkt' \in Words
  BY RecordTypes DEF HeadWord
<1>4. oRule' \in Words
  BY RecordTypes DEF HeadWord
<1>5. rx' \in Seq(Tokens) /\ Len(rx') < MaxLen
  BY GenAssumption DEF HeadWord
<1> QED  BY <1>1, <1>2, <1>3, <1>4, <1>5 DEF HeadWord

LEMMA BodyType ==
  ASSUME TypeOK, NEW t \in Tokens, NEW tail \in BOOLEAN, BodyWord(t, tail)
  PROVE  /\ cntPkt' \in Slots /\ tagConf' \in BOOLEAN
         /\ din' \in PhvSlice /\ wren' \in BOOLEAN
         /\ oPkt' \in Words /\ oRule' \in Words
         /\ rx' \in Seq(Tokens) /\ Len(rx') < MaxLen
         /\ Append(rx, t) \in Seq(Tokens)
<1>1. AllOnes \in Slots /\ NextSlot \in Slots /\ cntPkt \in Slots
  <2>1. cntPkt \in Slots /\ cntPkt + 1 \in Int
    BY GenAssumption DEF Slots, TypeOK
  <2>2. NextSlot \in Slots
    BY <2>1, ModLemma, GenAssumption DEF Slots, NextSlot
  <2> QED  BY <2>1, <2>2, GenAssumption DEF Slots, AllOnes
<1>2. din' \in PhvSlice
  <2> DEFINE start == IF cntPkt = 0 THEN FALSE ELSE din.start
             tl == IF tail THEN TRUE ELSE IF cntPkt = 0 THEN FALSE ELSE din.tail
             off == IF cntPkt = 0 THEN AllOnes ELSE din.offset
  <2>1. din \in PhvSlice
    BY DEF TypeOK
  <2>2. start \in BOOLEAN
    BY <2>1 DEF PhvSlice
  <2>3. tl \in BOOLEAN
    BY <2>1 DEF PhvSlice
  <2>4. off \in Slots
    BY <2>1, <1>1 DEF PhvSlice
  <2>5. din' = [[[[[din EXCEPT !.data[cntPkt] = t] EXCEPT !.start = start]
                   EXCEPT !.valid = TRUE] EXCEPT !.offset = off] EXCEPT !.tail = tl]
    BY <2>1 DEF BodyWord, PhvSlice
  <2> HIDE DEF start, tl, off
  <2> QED  BY <2>1, <2>2, <2>3, <2>4, <2>5, <1>1 DEF PhvSlice, Cell
<1>3. oPkt' \in Words
  BY RecordTypes DEF BodyWord
<1>4. oRule' \in Words
  BY RecordTypes DEF BodyWord
<1>5. Append(rx, t) \in Seq(Tokens)
  BY DEF TypeOK
<1>6. rx' \in Seq(Tokens) /\ Len(rx') < MaxLen
  <2>1. CASE tail
    BY <2>1, GenAssumption DEF BodyWord
  <2>2. CASE ~tail
    BY <2>2, GenAssumption DEF BodyWord, TypeOK
  <2> QED  BY <2>1, <2>2
<1>7. tagConf' \in BOOLEAN /\ wren' \in BOOLEAN
  BY DEF BodyWord, SliceReady, TypeOK
<1> QED  BY <1>1, <1>2, <1>3, <1>4, <1>5, <1>6, <1>7 DEF BodyWord

-----------------------------------------------------------------------------
(* The registers of Gen_PHV_and_Conf_Parser keep their widths.             *)
THEOREM TypeCorrect == Spec => []TypeOK
<1>1. Init => TypeOK
  <2> SUFFICES ASSUME Init PROVE TypeOK
    OBVIOUS
  <2>1. fifo \in Seq(PhvSlice) /\ Len(fifo) < FifoWords
    BY GenAssumption DEF Init
  <2>2. rx \in Seq(Tokens) /\ Len(rx) < MaxLen /\ due \in Seq(Seq(Tokens))
    BY GenAssumption DEF Init
  <2>3. cntPkt \in Slots /\ cntHead \in 0 .. CntHeadMod - 1
    BY GenAssumption DEF Init, Slots
  <2> QED  BY <2>1, <2>2, <2>3, RecordTypes DEF Init, TypeOK, Words
<1>2. TypeOK /\ [Next]_vars => TypeOK'
  <2> SUFFICES ASSUME TypeOK, [Next]_vars PROVE TypeOK'
    OBVIOUS
  <2>0. <<>> \in Seq(Seq(Tokens)) /\ <<>> \in Seq(PhvSlice)
    OBVIOUS
  <2>1. CASE Pause
    <3>1. SliceClock /\ Sent(<<>>)
      BY <2>1 DEF Pause
    <3>2. due' \in Seq(Seq(Tokens)) /\ got' \in Nat
      BY <3>1, <2>0, SentType
    <3>3. /\ wren' = FALSE /\ oPkt' = NoWord /\ oRule' = NoWord /\ tagConf' = FALSE
          /\ whole' = FALSE
          /\ cntPkt' = cntPkt /\ din' = din /\ rx' = rx /\ conf' = conf
      BY <2>1 DEF Pause
    <3> QED  BY <3>1, <3>2, <3>3, SliceSideType, RecordTypes DEF TypeOK, Words
  <2>2. ASSUME NEW t \in Tokens, NEW isConf \in BOOLEAN, HeadWord(t, isConf)
        PROVE  TypeOK'
    <3>1. SliceClock /\ Sent(<<>>)
      BY <2>2 DEF HeadWord
    <3>2. due' \in Seq(Seq(Tokens)) /\ got' \in Nat
      BY <3>1, <2>0, SentType
    <3> QED  BY <2>2, <3>1, <3>2, SliceSideType, HeadType DEF TypeOK, Words
  <2>3. ASSUME NEW t \in Tokens, NEW tail \in BOOLEAN, BodyWord(t, tail)
        PROVE  TypeOK'
    <3>1. SliceClock /\ Sent(IF tail THEN <<Append(rx, t)>> ELSE <<>>)
      BY <2>3 DEF BodyWord
    <3>2. (IF tail THEN <<Append(rx, t)>> ELSE <<>>) \in Seq(Seq(Tokens))
      BY <2>3, <2>0, BodyType
    <3>3. due' \in Seq(Seq(Tokens)) /\ got' \in Nat
      BY <3>1, <3>2, SentType
    <3>4. conf' = conf /\ whole' = whole
      BY <2>3 DEF BodyWord
    <3> QED  BY <2>3, <3>1, <3>3, <3>4, SliceSideType, BodyType DEF TypeOK, Words
  <2>4. CASE Reset
    <3>1. oPhv' \in PhvSlice
      <4>1. oPhv \in PhvSlice /\ 0 \in Slots
        BY GenAssumption DEF TypeOK, Slots
      <4>2. oPhv' = [data |-> oPhv.data, valid |-> FALSE, start |-> FALSE, tail |-> FALSE,
                     offset |-> 0]
        BY <2>4, <4>1 DEF Reset, PhvSlice
      <4>3. oPhv.data \in [Slots -> Cell]
        BY <4>1 DEF PhvSlice
      <4> QED  BY <4>1, <4>2, <4>3 DEF PhvSlice
    <3>2. cntPkt' \in Slots /\ cntHead' \in 0 .. CntHeadMod - 1 /\ Len(fifo') < FifoWords
      BY <2>4, GenAssumption DEF Reset, Slots
    <3>3. /\ tagConf' = FALSE /\ wren' = FALSE /\ oPkt' = NoWord /\ fifo' = <<>>
          /\ rden' = FALSE /\ oMeta' = FALSE /\ due' = <<>> /\ got' = 0
          /\ din' = din /\ oRule' = oRule /\ rx' = rx /\ conf' = conf /\ whole' = whole
      BY <2>4 DEF Reset
    <3> QED  BY <3>1, <3>2, <3>3, <2>0, RecordTypes DEF TypeOK, Words
  <2>5. CASE UNCHANGED vars
    BY <2>5 DEF vars, wordVars, sliceVars, history, TypeOK
  <2> QED  BY <2>1, <2>2, <2>3, <2>4, <2>5 DEF Next, Clock
<1> QED  BY <1>1, <1>2, PTL DEF Spec

-----------------------------------------------------------------------------
(* OneDestination needs to know that a configuration packet is being       *)
(* recognised exactly while it is whole, that nothing of an ordinary       *)
(* packet is, and that none is recognised between two packets.             *)
ConfInv ==
  /\ tagConf <=> (rx # <<>> /\ conf /\ whole)
  /\ OneDestination

LEMMA ConfInvariant == Spec => []ConfInv
<1>1. Init => ConfInv
  BY DEF Init, ConfInv, OneDestination, NoWord, Received
<1>2. TypeOK /\ ConfInv /\ [Next]_vars => ConfInv'
  <2> SUFFICES ASSUME TypeOK, ConfInv, [Next]_vars PROVE ConfInv'
    OBVIOUS
  <2>1. CASE Pause
    BY <2>1 DEF Pause, ConfInv, OneDestination, NoWord
  <2>2. ASSUME NEW t \in Tokens, NEW isConf \in BOOLEAN, HeadWord(t, isConf)
        PROVE  ConfInv'
    <3>1. rx = <<>> /\ rx' = <<t>> /\ conf' = isConf /\ whole' = TRUE /\ tagConf' = isConf
      BY <2>2 DEF HeadWord
    <3>2. ~tagConf /\ oRule' = NoWord
      BY <2>2, <3>1 DEF HeadWord, ConfInv
    <3>3. oPkt' = IF isConf THEN NoWord ELSE WordOf(t)
      BY <2>2 DEF HeadWord
    <3>4. rx' # <<>> /\ Len(rx') = 1 /\ rx'[Len(rx')] = t
      BY <3>1
    <3>5. Received' = <<t>>
      BY <3>1 DEF Received
    <3> QED  BY <3>1, <3>2, <3>3, <3>4, <3>5 DEF ConfInv, OneDestination, NoWord, WordOf
  <2>3. ASSUME NEW t \in Tokens, NEW tail \in BOOLEAN, BodyWord(t, tail)
        PROVE  ConfInv'
    <3>1. /\ rx # <<>> /\ conf' = conf /\ whole' = whole
          /\ rx' = (IF tail THEN <<>> ELSE Append(rx, t))
          /\ tagConf' = (tagConf /\ ~tail)
          /\ tail => wren'
      BY <2>3 DEF BodyWord, SliceReady
    <3>2. /\ oPkt' = IF oPkt.valid THEN WordOf(t) ELSE NoWord
          /\ oRule' = IF tagConf THEN WordOf(t) ELSE NoWord
      BY <2>3 DEF BodyWord
    <3>3. oPkt.valid <=> (whole /\ ~conf)
      BY <3>1 DEF ConfInv, OneDestination
    <3>4. tagConf <=> (whole /\ conf)
      BY <3>1 DEF ConfInv
    <3>5. /\ oPkt'.valid <=> (whole /\ ~conf)
          /\ oRule'.valid <=> (whole /\ conf)
          /\ oPkt'.valid => oPkt'.tok = t
          /\ oRule'.valid => oRule'.tok = t
      BY <3>2, <3>3, <3>4 DEF NoWord, WordOf
    <3>6. Append(rx, t) # <<>> /\ Len(Append(rx, t)) > 1 /\ Append(rx, t)[Len(Append(rx, t))] = t
      <4>1. rx \in Seq(Tokens) /\ Len(rx) \in Nat
        BY DEF TypeOK
      <4>2. Len(rx) # 0
        BY <4>1, <3>1
      <4>3. Len(Append(rx, t)) = Len(rx) + 1
        BY <4>1
      <4>4. Append(rx, t)[Len(rx) + 1] = t
        BY <4>1
      <4>5. Append(rx, t) # <<>>
        BY <4>1, <4>3
      <4> QED  BY <4>1, <4>2, <4>3, <4>4, <4>5
    <3>7. Received' = Append(rx, t)
      <4>1. CASE tail
        <5>1. PICK left : left \in Seq(Seq(Tokens)) /\ due' = left \o <<Append(rx, t)>>
          <6>1. due' = (IF oPhv.valid /\ oPhv.tail /\ due # <<>> THEN Tail(due) ELSE due)
                         \o <<Append(rx, t)>>
            BY <2>3, <4>1 DEF BodyWord, Sent
          <6>2. due \in Seq(Seq(Tokens)) /\ (due # <<>> => Tail(due) \in Seq(Seq(Tokens)))
            BY DEF TypeOK
          <6> QED  BY <6>1, <6>2
        <5>2. Append(rx, t) \in Seq(Tokens)
          BY DEF TypeOK
        <5>3. Len(due') = Len(left) + 1 /\ due'[Len(left) + 1] = Append(rx, t)
          BY <5>1, <5>2
        <5> QED  BY <3>1, <4>1, <5>3 DEF Received
      <4>2. CASE ~tail
        BY <3>1, <3>6, <4>2 DEF Received
      <4> QED  BY <4>1, <4>2
    <3> QED  BY <3>1, <3>4, <3>5, <3>6, <3>7 DEF ConfInv, OneDestination
  <2>4. CASE Reset
    <3>1. rx' = <<>> /\ tagConf' = FALSE /\ oPkt' = NoWord /\ wren' = FALSE
      BY <2>4 DEF Reset
    <3> QED  BY <3>1 DEF ConfInv, OneDestination, NoWord
  <2>5. CASE UNCHANGED vars
    BY <2>5 DEF vars, wordVars, sliceVars, history, ConfInv, OneDestination, Received
  <2> QED  BY <2>1, <2>2, <2>3, <2>4, <2>5 DEF Next, Clock
<1> QED  BY <1>1, <1>2, TypeCorrect, PTL DEF Spec

(* Every word has one destination: a rule write, the packet output, or     *)
(* (after a pause) neither, whatever packets follow each other.            *)
THEOREM Destination == Spec => []OneDestination
<1>1. ConfInv => OneDestination
  BY DEF ConfInv
<1> QED  BY <1>1, ConfInvariant, PTL

-----------------------------------------------------------------------------
(* The slice side.  A packet of n slices takes n + 1 clocks to be read and *)
(* at least as many to arrive, so the packets behind it never make up for  *)
(* more than the longest one: that is what bounds the counter and the      *)
(* FIFO, which have no other protection.                                   *)
Bit(b) == IF b THEN 1 ELSE 0

Base(n) == n * PKT_NUM

Slices(len) == (len + PKT_NUM - 1) \div PKT_NUM

(* The longest packet fits the counter and the FIFO.                       *)
Fits ==
  /\ Slices(MaxLen) + 2 < 2 * CntHeadMod
  /\ Slices(MaxLen) + 2 < FifoWords

LEMMA BaseLemma ==
  /\ Base(0) = 0
  /\ \A n \in Nat : Base(n) \in Nat /\ Base(n + 1) = Base(n) + PKT_NUM
                    /\ Base(n) >= 2 * n
  /\ \A m, n \in Nat : m < n => Base(m) + PKT_NUM <= Base(n)
<1>1. PKT_NUM \in Nat /\ PKT_NUM >= 2
  BY GenAssumption
<1>2. Base(0) = 0 /\ \A n \in Nat : Base(n) \in Nat /\ Base(n + 1) = Base(n) + PKT_NUM
  BY <1>1 DEF Base
<1>3. ASSUME NEW n \in Nat PROVE Base(n) >= 2 * n
  <2>1. \E d \in Nat : PKT_NUM = 2 + d
    <3>1. PKT_NUM - 2 \in Nat /\ PKT_NUM = 2 + (PKT_NUM - 2)
      BY <1>1
    <3> QED  BY <3>1
  <2>2. PICK d \in Nat : PKT_NUM = 2 + d
    BY <2>1
  <2>3. Base(n) = 2 * n + n * d /\ n * d \in Nat
    BY <2>2 DEF Base
  <2> HIDE DEF Base
  <2>4. \A a, b \in Nat : a + b >= a
    OBVIOUS
  <2> QED  BY <2>3, <2>4
<1>4. ASSUME NEW m \in Nat, NEW n \in Nat, m < n PROVE Base(m) + PKT_NUM <= Base(n)
  <2>1. PICK d \in Nat : n = m + 1 + d
    <3>1. n - (m + 1) \in Nat /\ n = m + 1 + (n - (m + 1))
      BY <1>4
    <3> QED  BY <3>1
  <2>2. Base(n) = Base(m) + PKT_NUM + Base(d)
    BY <1>1, <2>1 DEF Base
  <2>3. Base(m) \in Nat /\ Base(d) \in Nat
    BY <1>2
  <2> HIDE DEF Base
  <2> QED  BY <1>1, <2>2, <2>3
<1> QED  BY <1>2, <1>3, <1>4

(* A packet that ends in its slice n has n + 1 slices.                     *)
LEMMA SlicesLemma ==
  /\ \A n \in Nat, r \in 1 .. PKT_NUM : Slices(Base(n) + r) = n + 1
  /\ \A len \in Nat : Slices(len) \in Nat
  /\ \A n \in Nat, len \in Nat : Base(n) < len => n + 1 <= Slices(len)
<1>1. PKT_NUM \in Nat /\ PKT_NUM >= 2
  BY GenAssumption
<1>2. ASSUME NEW len \in Nat, NEW q \in Int, q = Slices(len)
      PROVE  q \in Nat /\ len <= Base(q) /\ Base(q) < len + PKT_NUM
  <2>1. /\ PKT_NUM * q <= len + PKT_NUM - 1
        /\ len + PKT_NUM - 1 < PKT_NUM * q + PKT_NUM
    <3> DEFINE a == len + PKT_NUM - 1
    <3>1. a \in Nat /\ q = a \div PKT_NUM
      BY <1>1, <1>2 DEF Slices
    <3>2. a = PKT_NUM * (a \div PKT_NUM) + (a % PKT_NUM) /\ a % PKT_NUM \in 0 .. PKT_NUM - 1
      BY <1>1, <3>1
    <3> DEFINE p == PKT_NUM * q
               r == a % PKT_NUM
    <3>3. a = p + r /\ r \in 0 .. PKT_NUM - 1 /\ p \in Int
      BY <1>1, <3>1, <3>2
    <3> HIDE DEF p, r
    <3>4. p <= a /\ a < p + PKT_NUM
      BY <1>1, <3>3
    <3> QED  BY <3>4 DEF p
  <2>2. PKT_NUM * q = Base(q) /\ Base(q) \in Int
    BY <1>1 DEF Base
  <2>3. q \in Nat
    <3> SUFFICES ASSUME q <= -1 PROVE FALSE
      OBVIOUS
    <3>1. Base(q) <= -PKT_NUM
      BY <1>1 DEF Base
    <3> QED  BY <1>1, <2>1, <2>2, <3>1
  <2> HIDE DEF Base
  <2> QED  BY <1>1, <2>1, <2>2, <2>3
<1>3. ASSUME NEW len \in Nat PROVE Slices(len) \in Int
  BY <1>1 DEF Slices
<1>4. ASSUME NEW len \in Nat
      PROVE  Slices(len) \in Nat /\ len <= Base(Slices(len)) /\ Base(Slices(len)) < len + PKT_NUM
  BY <1>2, <1>3
<1>5. ASSUME NEW n \in Nat, NEW len \in Nat, Base(n) < len PROVE n + 1 <= Slices(len)
  <2> SUFFICES ASSUME Slices(len) <= n PROVE FALSE
    BY <1>4
  <2>1. Base(Slices(len)) <= Base(n)
    <3>1. CASE Slices(len) = n
      <4>1. Base(n) \in Nat /\ \A x \in Nat : x <= x
        BY BaseLemma
      <4> QED  BY <3>1, <4>1
    <3>2. CASE Slices(len) < n
      <4> DEFINE a == Slices(len)
      <4>1. a \in Nat /\ a < n
        BY <1>4, <3>2
      <4> HIDE DEF a
      <4>2. Base(a) + PKT_NUM <= Base(n) /\ Base(a) \in Nat /\ Base(n) \in Nat
        BY <4>1, BaseLemma
      <4>3. Base(a) <= Base(n)
        BY <1>1, <4>2
      <4> QED  BY <4>3 DEF a
    <3> QED  BY <1>4, <3>1, <3>2
  <2>2. Base(n) \in Nat /\ Base(Slices(len)) \in Nat
    BY <1>4, BaseLemma
  <2> QED  BY <1>4, <1>5, <2>1, <2>2
<1>6. ASSUME NEW n \in Nat, NEW r \in 1 .. PKT_NUM PROVE Slices(Base(n) + r) = n + 1
  <2> DEFINE len == Base(n) + r
             q == Slices(len)
  <2>1. len \in Nat /\ Base(n) \in Nat /\ len = Base(n) + r
    <3>1. Base(n) \in Nat
      BY BaseLemma
    <3>3. r \in Nat
      BY <1>1
    <3>2. \A x, y \in Nat : x + y \in Nat
      OBVIOUS
    <3> QED  BY <3>1, <3>2, <3>3
  <2>2. q \in Nat /\ Base(q) < len + PKT_NUM
    BY <1>4, <2>1
  <2>3. n + 1 <= q
    <3>1. Base(n) < len
      BY <1>1, <2>1
    <3> QED  BY <1>5, <2>1, <3>1
  <2> HIDE DEF len, q
  <2>4. ~(n + 1 < q)
    <3> SUFFICES ASSUME n + 1 < q PROVE FALSE
      OBVIOUS
    <3>1. Base(n + 1) + PKT_NUM <= Base(q)
      BY <2>2, BaseLemma
    <3>2. Base(n + 1) = Base(n) + PKT_NUM /\ Base(q) \in Nat
      BY <2>2, BaseLemma
    <3> QED  BY <1>1, <2>1, <2>2, <3>1, <3>2
  <2>5. q = n + 1
    BY <2>2, <2>3, <2>4
  <2> QED  BY <2>5 DEF q, len
<1> QED  BY <1>4, <1>5, <1>6

-----------------------------------------------------------------------------
(* The tail slices of a FIFO: how many there are, and where the last is.   *)
TailsOf(f) == {i \in 1 .. Len(f) : f[i].tail}
Count(f) == Cardinality(TailsOf(f))

LastTail(f, m) ==
  /\ m \in 0 .. Len(f)
  /\ m > 0 => f[m].tail
  /\ \A i \in 1 .. Len(f) : i > m => ~f[i].tail

LEMMA CountLemma ==
  ASSUME NEW f \in Seq(PhvSlice)
  PROVE  /\ Count(f) \in Nat
         /\ \A x \in PhvSlice : Count(Append(f, x)) = Count(f) + Bit(x.tail)
         /\ f # <<>> => Count(Tail(f)) = Count(f) - Bit(f[1].tail)
         /\ \A m : LastTail(f, m) => Count(f) <= m /\ (m > 0 => Count(f) > 0)
         /\ Len(f) = 0 => Count(f) = 0
<1>1. ASSUME NEW g \in Seq(PhvSlice) PROVE IsFiniteSet(TailsOf(g)) /\ Count(g) \in Nat
  <2>1. IsFiniteSet(1 .. Len(g))
    BY FS_Interval
  <2>2. TailsOf(g) \subseteq 1 .. Len(g)
    BY DEF TailsOf
  <2> QED  BY <2>1, <2>2, FS_Subset, FS_CardinalityType DEF Count
<1>2. ASSUME NEW x \in PhvSlice PROVE Count(Append(f, x)) = Count(f) + Bit(x.tail)
  <2> DEFINE g == Append(f, x)
             n == Len(f) + 1
  <2>1. /\ g \in Seq(PhvSlice) /\ Len(g) = n /\ g[n] = x /\ Len(f) \in Nat
        /\ \A i \in 1 .. Len(f) : g[i] = f[i]
    OBVIOUS
  <2>2. \A i : i \in 1 .. n <=> i \in 1 .. Len(f) \/ i = n
    BY <2>1
  <2>3. n \notin TailsOf(f)
    BY <2>1 DEF TailsOf
  <2> HIDE DEF g, n
  <2>4. CASE x.tail
    <3>1. TailsOf(g) = TailsOf(f) \cup {n}
      BY <2>1, <2>2, <2>4 DEF TailsOf
    <3> QED  BY <1>1, <2>3, <2>4, <3>1, FS_AddElement DEF Count, Bit, g
  <2>5. CASE ~x.tail
    <3>1. TailsOf(g) = TailsOf(f)
      BY <2>1, <2>2, <2>5 DEF TailsOf
    <3>2. Count(f) + 0 = Count(f)
      BY <1>1
    <3> QED  BY <2>5, <3>1, <3>2 DEF Count, Bit, g
  <2> QED  BY <2>4, <2>5
<1>3. ASSUME f # <<>> PROVE Count(Tail(f)) = Count(f) - Bit(f[1].tail)
  <2> DEFINE g == Tail(f)
             S == TailsOf(f) \ {1}
  <2>1. /\ g \in Seq(PhvSlice) /\ Len(f) \in Nat \ {0} /\ Len(g) = Len(f) - 1
        /\ \A i \in 1 .. Len(g) : g[i] = f[i + 1]
    BY <1>3
  <2> HIDE DEF g
  <2>2. Cardinality(TailsOf(g)) = Cardinality(S)
    <3> DEFINE h == [i \in TailsOf(g) |-> i + 1]
    <3>1. ASSUME NEW i \in TailsOf(g) PROVE h[i] \in S
      <4>1. i \in 1 .. Len(g) /\ g[i].tail
        BY DEF TailsOf
      <4>2. i + 1 \in 1 .. Len(f) /\ i + 1 # 1
        BY <2>1, <4>1
      <4> QED  BY <2>1, <4>1, <4>2 DEF TailsOf
    <3>2. ASSUME NEW j \in S PROVE \E i \in TailsOf(g) : h[i] = j
      <4>1. j \in 1 .. Len(f) /\ j # 1 /\ f[j].tail
        BY DEF TailsOf
      <4>2. j - 1 \in 1 .. Len(g) /\ (j - 1) + 1 = j
        BY <2>1, <4>1
      <4>3. j - 1 \in TailsOf(g)
        BY <2>1, <4>1, <4>2 DEF TailsOf
      <4> QED  BY <4>2, <4>3
    <3>3. ASSUME NEW i \in TailsOf(g), NEW j \in TailsOf(g), h[i] = h[j] PROVE i = j
      <4>1. i \in Int /\ j \in Int
        BY DEF TailsOf
      <4> QED  BY <3>3, <4>1
    <3>4. h \in Bijection(TailsOf(g), S)
      <4>1. h \in [TailsOf(g) -> S]
        BY <3>1
      <4> QED  BY <3>2, <3>3, <4>1 DEF Bijection, Injection, Surjection, IsInjective
    <3> QED  BY <1>1, <2>1, <3>4, FS_Bijection DEF ExistsBijection
  <2>3. CASE f[1].tail
    <3>1. 1 \in TailsOf(f)
      BY <2>1, <2>3 DEF TailsOf
    <3>2. Cardinality(S) = Cardinality(TailsOf(f)) - 1
      BY <1>1, <3>1, FS_RemoveElement
    <3> QED  BY <2>2, <2>3, <3>2 DEF Count, Bit, g
  <2>4. CASE ~f[1].tail
    <3>1. S = TailsOf(f)
      BY <2>4 DEF TailsOf
    <3>2. Count(f) - 0 = Count(f)
      BY <1>1
    <3> QED  BY <2>2, <2>4, <3>1, <3>2 DEF Count, Bit, g
  <2> QED  BY <2>3, <2>4
<1>4. ASSUME NEW m, LastTail(f, m) PROVE Count(f) <= m /\ (m > 0 => Count(f) > 0)
  <2>1. m \in 0 .. Len(f) /\ m \in Nat /\ Len(f) \in Nat
    BY <1>4 DEF LastTail
  <2>2. TailsOf(f) \subseteq 1 .. m
    <3> SUFFICES ASSUME NEW i \in TailsOf(f) PROVE i \in 1 .. m
      OBVIOUS
    <3>1. i \in 1 .. Len(f) /\ ~(i > m)
      BY <1>4 DEF LastTail, TailsOf
    <3> QED  BY <2>1, <3>1
  <2>3. IsFiniteSet(1 .. m) /\ Cardinality(1 .. m) = m
    <3>1. m - 1 + 1 = m /\ (1 > m <=> m = 0)
      BY <2>1
    <3> QED  BY <2>1, <3>1, FS_Interval
  <2>4. Count(f) <= m
    BY <2>2, <2>3, FS_Subset DEF Count
  <2>5. m > 0 => Count(f) > 0
    <3> SUFFICES ASSUME m > 0 PROVE Count(f) > 0
      OBVIOUS
    <3>1. m \in TailsOf(f)
      BY <1>4, <2>1 DEF LastTail, TailsOf
    <3>2. Count(f) # 0
      BY <1>1, <3>1, FS_EmptySet DEF Count
    <3> QED  BY <1>1, <3>2
  <2> QED  BY <2>4, <2>5
<1>5. Len(f) = 0 => Count(f) = 0
  <2>1. Len(f) = 0 => TailsOf(f) = {}
    BY DEF TailsOf
  <2> QED  BY <2>1, FS_EmptySet DEF Count
<1> QED  BY <1>1, <1>2, <1>3, <1>4, <1>5

LEMMA LastTailLemma ==
  ASSUME NEW f \in Seq(PhvSlice), NEW m, LastTail(f, m)
  PROVE  /\ m \in Nat /\ m <= Len(f) /\ Len(f) \in Nat
         /\ \A x \in PhvSlice : LastTail(Append(f, x), IF x.tail THEN Len(f) + 1 ELSE m)
         /\ m > 0 => LastTail(Tail(f), m - 1)
<1>1. m \in Nat /\ m <= Len(f) /\ Len(f) \in Nat
  BY DEF LastTail
<1>2. ASSUME NEW x \in PhvSlice PROVE LastTail(Append(f, x), IF x.tail THEN Len(f) + 1 ELSE m)
  <2> DEFINE g == Append(f, x)
  <2>1. /\ Len(g) = Len(f) + 1 /\ g[Len(f) + 1] = x
        /\ \A i \in 1 .. Len(f) : g[i] = f[i]
    OBVIOUS
  <2> HIDE DEF g
  <2>2. \A i \in 1 .. Len(g) : i \in 1 .. Len(f) \/ i = Len(f) + 1
    BY <1>1, <2>1
  <2>3. CASE x.tail
    <3>1. LastTail(g, Len(f) + 1)
      BY <1>1, <2>1, <2>2, <2>3 DEF LastTail
    <3> QED  BY <2>3, <3>1 DEF g
  <2>4. CASE ~x.tail
    <3>1. m > 0 => g[m].tail
      BY <1>1, <2>1 DEF LastTail
    <3>2. \A i \in 1 .. Len(g) : i > m => ~g[i].tail
      BY <2>1, <2>2, <2>4 DEF LastTail
    <3>3. LastTail(g, m)
      BY <1>1, <2>1, <3>1, <3>2 DEF LastTail
    <3> QED  BY <2>4, <3>3 DEF g
  <2> QED  BY <2>3, <2>4
<1>3. ASSUME m > 0 PROVE LastTail(Tail(f), m - 1)
  <2> DEFINE g == Tail(f)
  <2>1. /\ Len(g) = Len(f) - 1
        /\ \A i \in 1 .. Len(g) : g[i] = f[i + 1]
    BY <1>1, <1>3
  <2> HIDE DEF g
  <2>2. m - 1 > 0 => g[m - 1].tail
    <3> SUFFICES ASSUME m - 1 > 0 PROVE g[m - 1].tail
      OBVIOUS
    <3>1. m - 1 \in 1 .. Len(g) /\ (m - 1) + 1 = m
      BY <1>1, <2>1
    <3> QED  BY <1>3, <2>1, <3>1 DEF LastTail
  <2>3. ASSUME NEW i \in 1 .. Len(g), i > m - 1 PROVE ~g[i].tail
    <3>1. i + 1 \in 1 .. Len(f) /\ i + 1 > m
      BY <1>1, <2>1, <2>3
    <3> QED  BY <2>1, <3>1 DEF LastTail
  <2>4. m - 1 \in 0 .. Len(g)
    BY <1>1, <1>3, <2>1
  <2> QED  BY <2>2, <2>3, <2>4 DEF LastTail, g
<1> QED  BY <1>1, <1>2, <1>3

-----------------------------------------------------------------------------
(* The inductive invariant of the slice side.  m is the place of the last  *)
(* tail in the FIFO; behind it are the slices of the packet being received *)
(* (or, while its tail slice is on its way in, of the packet just          *)
(* received).                                                              *)
Begun == oPhv.valid /\ ~oPhv.tail

(* Slices follow each other as those of whole packets, the front one being *)
(* the next to send, and what is being read is there to its tail.          *)
ReadInv ==
  /\ \A i \in 1 .. Len(fifo) : fifo[i].valid
  /\ \A i \in 1 .. Len(fifo) - 1 : fifo[i + 1].start <=> fifo[i].tail
  /\ fifo # <<>> => (fifo[1].start <=> ~Begun)
  /\ rden => Count(fifo) > 0
  /\ Begun => rden
  /\ oPhv.valid /\ oPhv.tail => ~rden
  /\ cntHead = Count(fifo) - Bit(Begun)

(* How far the packet being received is.                                   *)
Filled(m) == Len(fifo) - m + Bit(wren)

WriteInv(m) ==
  /\ LastTail(fifo, m)
  /\ rx # <<>> =>
       /\ Len(rx) = Base(Filled(m)) + cntPkt
       /\ wren => ~din.tail /\ cntPkt = 0
       /\ cntPkt # 0 => din.valid /\ ~din.tail /\ (din.start <=> Filled(m) = 0)
  /\ rx = <<>> => IF wren THEN din.tail ELSE Len(fifo) = m
  /\ wren => din.valid /\ (din.start <=> Len(fifo) = m)

(* The clocks it takes to read the complete packets of the FIFO.           *)
Work(m) == (m + Count(fifo)) - Bit(rden)
MaxWork == Slices(MaxLen) + 1

WorkInv(m) ==
  /\ rx # <<>> => Work(m) = 0 \/ Work(m) + Len(rx) <= MaxWork + 1
  /\ rx = <<>> /\ ~wren => Work(m) <= MaxWork
  /\ rx = <<>> /\ wren =>
       /\ Filled(m) + 1 <= MaxWork
       /\ Work(m) = 0 \/ Work(m) + Filled(m) <= MaxWork

BacklogInv == ReadInv /\ \E m \in 0 .. Len(fifo) : WriteInv(m) /\ WorkInv(m)

LEMMA LenZero ==
  ASSUME NEW S, NEW f \in Seq(S)
  PROVE  Len(f) \in Nat /\ (f = <<>> <=> Len(f) = 0)
OBVIOUS

LEMMA SliceLengths ==
  /\ Slices(MaxLen) \in Nat /\ Slices(MaxLen) >= 1
  /\ \A n \in Nat, c \in Nat : Base(n) + c < MaxLen => n + 1 <= Slices(MaxLen)
<1>1. MaxLen \in Nat /\ MaxLen >= 2
  BY GenAssumption
<1>2. Slices(MaxLen) \in Nat
  BY <1>1, SlicesLemma
<1>3. ASSUME NEW n \in Nat, NEW c \in Nat, Base(n) + c < MaxLen PROVE n + 1 <= Slices(MaxLen)
  <2>1. Base(n) \in Nat
    BY BaseLemma
  <2>2. Base(n) < MaxLen
    BY <1>1, <1>3, <2>1
  <2> QED  BY <1>1, <2>2, SlicesLemma
<1>4. 1 <= Slices(MaxLen)
  <2>1. Base(0) + 0 < MaxLen
    BY <1>1, BaseLemma
  <2>2. 0 + 1 <= Slices(MaxLen)
    BY <1>3, <2>1
  <2> QED  BY <1>2, <2>2
<1> QED  BY <1>2, <1>3, <1>4

(* What the invariant says in numbers.                                     *)
LEMMA Numbers ==
  ASSUME TypeOK, ReadInv, NEW m \in 0 .. Len(fifo), WriteInv(m)
  PROVE  /\ fifo \in Seq(PhvSlice) /\ din \in PhvSlice /\ Len(fifo) \in Nat
         /\ m \in Nat /\ m <= Len(fifo) /\ Filled(m) \in Nat
         /\ Count(fifo) \in Nat /\ Count(fifo) <= m /\ (m > 0 => Count(fifo) > 0)
         /\ rden => m > 0 /\ Count(fifo) > 0 /\ fifo # <<>>
         /\ Work(m) \in Nat /\ m <= Work(m)
         /\ cntHead \in 0 .. CntHeadMod - 1 /\ cntHead = Count(fifo) - Bit(Begun)
         /\ rden \in BOOLEAN /\ wren \in BOOLEAN
         /\ Len(rx) \in Nat /\ cntPkt \in Nat /\ (rx = <<>> <=> Len(rx) = 0) /\ Len(rx) < MaxLen
         /\ rx # <<>> => Base(Filled(m)) <= Len(rx) /\ 2 * Filled(m) <= Len(rx)
<1>1. /\ fifo \in Seq(PhvSlice) /\ din \in PhvSlice /\ Len(fifo) \in Nat
      /\ rden \in BOOLEAN /\ wren \in BOOLEAN
      /\ cntHead \in 0 .. CntHeadMod - 1
      /\ rx \in Seq(Tokens) /\ Len(rx) < MaxLen /\ cntPkt \in Nat
  BY GenAssumption DEF TypeOK, Slots
<1>2. m \in Nat /\ m <= Len(fifo)
  BY <1>1
<1>3. Count(fifo) \in Nat /\ Count(fifo) <= m /\ (m > 0 => Count(fifo) > 0)
  BY <1>1, CountLemma DEF WriteInv
<1>4. rden => m > 0 /\ Count(fifo) > 0 /\ fifo # <<>>
  BY <1>1, <1>2, <1>3 DEF ReadInv
<1>5. Work(m) \in Nat /\ m <= Work(m)
  BY <1>2, <1>3, <1>4 DEF Work, Bit
<1>6. Filled(m) \in Nat
  BY <1>1, <1>2 DEF Filled, Bit
<1>7. Len(rx) \in Nat /\ (rx = <<>> <=> Len(rx) = 0)
  BY <1>1, LenZero
<1>8. rx # <<>> => Base(Filled(m)) <= Len(rx) /\ 2 * Filled(m) <= Len(rx)
  <2>1. Base(Filled(m)) \in Nat /\ Base(Filled(m)) >= 2 * Filled(m)
    BY <1>6, BaseLemma
  <2>2. rx # <<>> => Len(rx) = Base(Filled(m)) + cntPkt
    BY DEF WriteInv
  <2> QED  BY <1>1, <1>6, <1>7, <2>1, <2>2
<1>9. cntHead = Count(fifo) - Bit(Begun)
  BY DEF ReadInv
<1> QED  BY <1>1, <1>2, <1>3, <1>4, <1>5, <1>6, <1>7, <1>8, <1>9

(* Neither the FIFO nor the counter comes to its limit.                    *)
LEMMA Room ==
  ASSUME Fits, TypeOK, ReadInv, NEW m \in 0 .. Len(fifo), WriteInv(m), WorkInv(m)
  PROVE  /\ Len(fifo) + Bit(wren) < FifoWords
         /\ wren /\ din.tail /\ ~(rden /\ ~Begun) => cntHead + 1 < CntHeadMod
<1> DEFINE N == Slices(MaxLen)
           W == Work(m)
           n == Filled(m)
           c == Count(fifo)
<1>1. /\ N \in Nat /\ N >= 1 /\ N + 2 < 2 * CntHeadMod /\ N + 2 < FifoWords
      /\ CntHeadMod \in Nat /\ FifoWords \in Nat
  BY SliceLengths, GenAssumption DEF Fits
<1>2. /\ m \in Nat /\ n \in Nat /\ c \in Nat /\ c <= m /\ W \in Nat /\ m <= W
      /\ W = (m + c) - Bit(rden) /\ n = (Len(fifo) - m) + Bit(wren) /\ Len(fifo) \in Nat
      /\ cntHead = c - Bit(Begun) /\ (Begun => rden)
      /\ rden \in BOOLEAN /\ wren \in BOOLEAN /\ Len(rx) \in Nat /\ cntHead \in Nat
  BY Numbers DEF Work, Filled, ReadInv
<1>3. rx # <<>> => 2 * n <= Len(rx) /\ n + 1 <= N
  <2>1. rx # <<>> => Base(n) + cntPkt < MaxLen /\ cntPkt \in Nat
    BY Numbers DEF WriteInv
  <2> QED  BY <1>2, <2>1, Numbers, SliceLengths
<1>4. /\ rx # <<>> => W = 0 \/ W + Len(rx) <= N + 2
      /\ rx = <<>> /\ ~wren => W <= N + 1
      /\ rx = <<>> /\ wren => n + 1 <= N + 1 /\ (W = 0 \/ W + n <= N + 1)
  BY <1>1, <1>2 DEF WorkInv, MaxWork
<1>5. rx = <<>> /\ ~wren => Len(fifo) = m
  BY DEF WriteInv
<1>6. wren /\ din.tail => rx = <<>>
  BY DEF WriteInv
<1> HIDE DEF N, W, n, c
<1>7. Len(fifo) + Bit(wren) = m + n
  BY <1>2 DEF Bit
<1>8. m + n < FifoWords
  <2>1. CASE rx # <<>>
    <3>1. 2 * n <= Len(rx) /\ n + 1 <= N /\ (W = 0 \/ W + Len(rx) <= N + 2)
      BY <1>3, <1>4, <2>1
    <3>2. \A x, y, z, l, k \in Nat :
            x <= y /\ 2 * z <= l /\ z + 1 <= k /\ (y = 0 \/ y + l <= k + 2) => x + z <= k + 2
      OBVIOUS
    <3>3. m + n <= N + 2
      BY <1>1, <1>2, <3>1, <3>2
    <3> QED  BY <1>1, <1>2, <3>3
  <2>2. CASE rx = <<>> /\ ~wren
    <3>1. n = 0
      BY <1>2, <1>5, <2>2 DEF Bit
    <3> QED  BY <1>1, <1>2, <1>4, <2>2, <3>1
  <2>3. CASE rx = <<>> /\ wren
    <3>1. n + 1 <= N + 1 /\ (W = 0 \/ W + n <= N + 1)
      BY <1>4, <2>3
    <3>2. \A x, y, z, k \in Nat :
            x <= y /\ z + 1 <= k + 1 /\ (y = 0 \/ y + z <= k + 1) => x + z <= k + 2
      OBVIOUS
    <3>3. m + n <= N + 2
      BY <1>1, <1>2, <3>1, <3>2
    <3> QED  BY <1>1, <1>2, <3>3
  <2> QED  BY <1>2, <2>1, <2>2, <2>3
<1>9. ASSUME wren, din.tail, ~(rden /\ ~Begun) PROVE cntHead + 1 < CntHeadMod
  <2>1. rx = <<>> /\ (W = 0 \/ W + n <= N + 1)
    BY <1>4, <1>6, <1>9
  <2>2. n >= 1
    BY <1>2, <1>9 DEF Bit
  <2>3. W = 0 \/ W <= N
    BY <1>1, <1>2, <2>1, <2>2
  <2>4. 2 * cntHead <= W
    <3>1. CASE rden
      <4>1. Begun
        BY <1>9, <3>1
      <4>2. W = m + c - 1 /\ cntHead = c - 1
        BY <1>2, <3>1, <4>1 DEF Bit
      <4> QED  BY <1>2, <4>2
    <3>2. CASE ~rden
      <4>1. W = m + c /\ cntHead = c
        BY <1>2, <3>2 DEF Bit
      <4> QED  BY <1>2, <4>1
    <3> QED  BY <3>1, <3>2
  <2> QED  BY <1>1, <1>2, <2>3, <2>4
<1> QED  BY <1>7, <1>8, <1>9

(* A clock edge of the FIFO: one slice out, one in, nothing lost.          *)
LEMMA FifoStep ==
  ASSUME Fits, TypeOK, ReadInv, NEW m \in 0 .. Len(fifo), WriteInv(m), WorkInv(m), SliceClock,
         NEW rest, rest = (IF rden THEN Tail(fifo) ELSE fifo)
  PROVE  /\ rest \in Seq(PhvSlice) /\ Len(rest) = Len(fifo) - Bit(rden) /\ Len(rest) \in Nat
         /\ fifo' = (IF wren THEN Append(rest, din) ELSE rest)
         /\ Count(fifo') = Count(fifo) - Bit(rden /\ Front.tail) + Bit(wren /\ din.tail)
         /\ LastTail(rest, m - Bit(rden))
         /\ LastTail(fifo', IF wren /\ din.tail THEN Len(rest) + 1 ELSE m - Bit(rden))
         /\ Len(fifo') = Len(rest) + Bit(wren)
<1>1. /\ fifo \in Seq(PhvSlice) /\ din \in PhvSlice /\ Len(fifo) \in Nat
      /\ m \in Nat /\ rden \in BOOLEAN /\ wren \in BOOLEAN
      /\ Count(fifo) \in Nat
      /\ rden => m > 0 /\ fifo # <<>>
  BY Numbers
<1>2. LastTail(fifo, m)
  BY DEF WriteInv
<1>3. /\ rest \in Seq(PhvSlice) /\ Len(rest) \in Nat /\ Len(rest) = Len(fifo) - Bit(rden)
      /\ Count(rest) = Count(fifo) - Bit(rden /\ Front.tail)
      /\ LastTail(rest, m - Bit(rden))
      /\ Count(rest) \in Nat
  <2>1. CASE rden
    <3>1. fifo # <<>> /\ Front = fifo[1] /\ rest = Tail(fifo)
      BY <1>1, <2>1 DEF Front
    <3>2. rest \in Seq(PhvSlice) /\ Len(rest) = Len(fifo) - 1 /\ Len(rest) \in Nat
      BY <1>1, <3>1
    <3>3. Count(rest) = Count(fifo) - Bit(Front.tail)
      BY <1>1, <3>1, CountLemma
    <3>4. LastTail(rest, m - 1)
      BY <1>1, <1>2, <2>1, <3>1, LastTailLemma
    <3>5. Bit(rden) = 1 /\ Bit(rden /\ Front.tail) = Bit(Front.tail)
      BY <2>1 DEF Bit
    <3>6. Count(rest) \in Nat
      BY <3>2, CountLemma
    <3> QED  BY <3>2, <3>3, <3>4, <3>5, <3>6
  <2>2. CASE ~rden
    <3>1. rest = fifo /\ Bit(rden) = 0 /\ Bit(rden /\ Front.tail) = 0
      BY <2>2 DEF Bit
    <3> QED  BY <1>1, <1>2, <3>1
  <2> QED  BY <1>1, <2>1, <2>2
<1> DEFINE all == IF wren THEN Append(rest, din) ELSE rest
<1>4. Len(all) = Len(rest) + Bit(wren)
  <2>1. CASE wren
    <3>1. Len(Append(rest, din)) = Len(rest) + 1
      BY <1>1, <1>3
    <3> QED  BY <2>1, <3>1 DEF Bit
  <2>2. CASE ~wren
    BY <1>3, <2>2 DEF Bit
  <2> QED  BY <1>1, <2>1, <2>2
<1>5. fifo' = all
  <2>1. (IF rden /\ fifo # <<>> THEN Tail(fifo) ELSE fifo) = rest
    BY <1>1
  <2>2. fifo' = IF Len(all) < FifoWords THEN all ELSE <<>>
    BY <2>1 DEF SliceClock, FifoClock, QueueAfter
  <2>3. Len(all) < FifoWords
    <3>1. Len(fifo) + Bit(wren) < FifoWords
      BY Room
    <3>2. FifoWords \in Nat
      BY GenAssumption
    <3>3. Bit(wren) \in Nat /\ Bit(rden) \in Nat
      BY DEF Bit
    <3> DEFINE a == Len(all)
               w == Bit(wren)
               r == Bit(rden)
    <3>4. a = (Len(fifo) - r) + w /\ w \in Nat /\ r \in Nat
      BY <1>3, <1>4, <3>3
    <3> HIDE DEF a, w, r
    <3>5. a < FifoWords
      <4>1. Len(fifo) + w < FifoWords
        BY <3>1 DEF w
      <4> QED  BY <1>1, <3>2, <3>4, <4>1
    <3> QED  BY <3>5 DEF a
  <2> QED  BY <2>2, <2>3
<1>6. Count(all) = Count(rest) + Bit(wren /\ din.tail)
  <2>1. CASE wren
    <3>1. Bit(wren /\ din.tail) = Bit(din.tail)
      BY <2>1 DEF Bit
    <3> QED  BY <1>1, <1>3, <2>1, <3>1, CountLemma
  <2>2. CASE ~wren
    <3>1. Bit(wren /\ din.tail) = 0
      BY <2>2 DEF Bit
    <3> QED  BY <1>3, <2>2, <3>1
  <2> QED  BY <1>1, <2>1, <2>2
<1>7. LastTail(all, IF wren /\ din.tail THEN Len(rest) + 1 ELSE m - Bit(rden))
  BY <1>1, <1>3, LastTailLemma
<1> QED
  <2>1. fifo' = all /\ Count(fifo') = Count(fifo) - Bit(rden /\ Front.tail) + Bit(wren /\ din.tail)
    BY <1>3, <1>5, <1>6
  <2> QED  BY <1>3, <1>4, <1>5, <1>7, <2>1

(* So whole packets are read, and the counter stays exact.                 *)
LEMMA ReadStep ==
  ASSUME Fits, TypeOK, ReadInv, NEW m \in 0 .. Len(fifo), WriteInv(m), WorkInv(m), SliceClock
  PROVE  ReadInv'
<1> DEFINE rest == IF rden THEN Tail(fifo) ELSE fifo
<1>1. /\ rest \in Seq(PhvSlice) /\ Len(rest) = Len(fifo) - Bit(rden) /\ Len(rest) \in Nat
      /\ fifo' = (IF wren THEN Append(rest, din) ELSE rest)
      /\ Count(fifo') = Count(fifo) - Bit(rden /\ Front.tail) + Bit(wren /\ din.tail)
      /\ LastTail(rest, m - Bit(rden))
      /\ Len(fifo') = Len(rest) + Bit(wren)
  BY FifoStep
<1>2. /\ fifo \in Seq(PhvSlice) /\ din \in PhvSlice /\ Len(fifo) \in Nat
      /\ m \in Nat /\ m <= Len(fifo) /\ rden \in BOOLEAN /\ wren \in BOOLEAN
      /\ Count(fifo) \in Nat /\ cntHead \in 0 .. CntHeadMod - 1
      /\ cntHead = Count(fifo) - Bit(Begun)
      /\ rden => m > 0 /\ fifo # <<>> /\ Count(fifo) > 0
  BY Numbers
<1>3. /\ rden => Front = fifo[1] /\ Front.valid /\ (Front.start <=> ~Begun)
      /\ rden => Len(fifo) >= 1
      /\ Begun => rden
  <2>1. rden => Len(fifo) >= 1
    BY <1>2
  <2> QED  BY <1>2, <2>1 DEF Front, ReadInv
<1>4. oPhv' = (IF rden THEN Front ELSE NoSlice) /\ ~NoSlice.valid
  BY DEF SliceClock, NoSlice
<1>5. Begun' <=> rden /\ ~Front.tail
  BY <1>3, <1>4 DEF Begun
<1>6. \A i \in 1 .. Len(rest) : rest[i] = fifo[i + Bit(rden)]
  BY <1>1, <1>2, <1>3 DEF Bit
<1>7. /\ \A i \in 1 .. Len(rest) : rest[i].valid
      /\ \A i \in 1 .. Len(rest) - 1 : rest[i + 1].start <=> rest[i].tail
      /\ Len(rest) > 0 => (rest[1].start <=> ~Begun')
  <2>1. CASE rden
    <3>1. Len(rest) = Len(fifo) - 1 /\ \A i \in 1 .. Len(rest) : rest[i] = fifo[i + 1]
      BY <1>1, <1>6, <2>1 DEF Bit
    <3> HIDE DEF rest
    <3>2. \A i \in 1 .. Len(rest) : i + 1 \in 1 .. Len(fifo)
      BY <1>1, <1>2, <3>1
    <3>3. \A i \in 1 .. Len(rest) : rest[i].valid
      BY <3>1, <3>2 DEF ReadInv
    <3>4. ASSUME NEW i \in 1 .. Len(rest) - 1 PROVE rest[i + 1].start <=> rest[i].tail
      <4>1. i \in 1 .. Len(rest) /\ i + 1 \in 1 .. Len(rest) /\ i + 1 \in 1 .. Len(fifo) - 1
        BY <1>1, <1>2, <3>1
      <4> QED  BY <3>1, <4>1 DEF ReadInv
    <3>5. Len(rest) > 0 => (rest[1].start <=> ~Begun')
      <4> SUFFICES ASSUME Len(rest) > 0 PROVE rest[1].start <=> ~Begun'
        OBVIOUS
      <4>1. 1 \in 1 .. Len(rest) /\ 1 \in 1 .. Len(fifo) - 1
        BY <1>1, <1>2, <3>1
      <4>2. rest[1] = fifo[1 + 1]
        BY <3>1, <4>1
      <4>3. fifo[1 + 1].start <=> fifo[1].tail
        BY <4>1 DEF ReadInv
      <4> QED  BY <1>3, <1>5, <2>1, <4>2, <4>3
    <3> QED  BY <3>3, <3>4, <3>5
  <2>2. CASE ~rden
    <3>1. rest = fifo /\ ~Begun /\ ~Begun'
      BY <1>3, <1>5, <2>2
    <3>2. Len(fifo) > 0 => fifo # <<>>
      BY <1>2
    <3> QED  BY <3>1, <3>2 DEF ReadInv
  <2> QED  BY <1>2, <2>1, <2>2
<1>8. /\ Len(rest) > 0 => (rest[Len(rest)].tail <=> Len(fifo) = m)
      /\ Len(rest) = 0 => (wren => din.start) /\ ~Begun'
  <2>1. /\ m - Bit(rden) \in Nat /\ (Len(fifo) = m <=> Len(rest) = m - Bit(rden))
        /\ m - Bit(rden) <= Len(rest)
    BY <1>1, <1>2 DEF Bit
  <2>2. Len(rest) > 0 => (rest[Len(rest)].tail <=> Len(fifo) = m)
    <3> HIDE DEF rest
    <3> SUFFICES ASSUME Len(rest) > 0 PROVE rest[Len(rest)].tail <=> Len(fifo) = m
      OBVIOUS
    <3>1. Len(rest) \in 1 .. Len(rest)
      BY <1>1
    <3> DEFINE k == m - Bit(rden)
    <3>2. k \in Nat /\ k <= Len(rest) /\ (Len(fifo) = m <=> Len(rest) = k)
      BY <2>1
    <3>3. LastTail(rest, k)
      BY <1>1
    <3> HIDE DEF k
    <3>4. CASE Len(rest) = k
      BY <3>2, <3>3, <3>4 DEF LastTail
    <3>5. CASE Len(rest) # k
      <4>1. Len(rest) > k
        BY <1>1, <3>2, <3>5
      <4>2. ~rest[Len(rest)].tail
        BY <3>1, <3>3, <4>1 DEF LastTail
      <4> QED  BY <3>2, <3>5, <4>2
    <3> QED  BY <3>4, <3>5
  <2>3. ASSUME Len(rest) = 0 PROVE (wren => din.start) /\ ~Begun'
    <3>1. m - Bit(rden) = 0 /\ Len(fifo) = m
      BY <1>1, <2>1, <2>3
    <3>2. wren => din.start
      BY <3>1 DEF WriteInv
    <3>3. rden => Front.tail
      <4> SUFFICES ASSUME rden PROVE Front.tail
        OBVIOUS
      <4>1. m = 1
        BY <1>2, <3>1 DEF Bit
      <4>2. fifo[1].tail
        BY <4>1 DEF WriteInv, LastTail
      <4> QED  BY <1>3, <4>2
    <3> QED  BY <1>5, <3>2, <3>3
  <2> QED  BY <2>2, <2>3
<1>9. wren => din.valid /\ (din.start <=> Len(fifo) = m)
  BY DEF WriteInv
<1> HIDE DEF rest
<1>10. /\ \A i \in 1 .. Len(fifo') : fifo'[i].valid
       /\ \A i \in 1 .. Len(fifo') - 1 : fifo'[i + 1].start <=> fifo'[i].tail
       /\ Len(fifo') > 0 => (fifo'[1].start <=> ~Begun')
  <2>1. CASE wren
    <3> DEFINE n == Len(rest)
    <3>1. /\ Len(fifo') = n + 1 /\ fifo'[n + 1] = din /\ n \in Nat
          /\ \A i \in 1 .. n : fifo'[i] = rest[i]
      BY <1>1, <2>1 DEF Bit
    <3>2. \A i \in 1 .. n : rest[i].valid
      BY <1>7
    <3>3. \A i \in 1 .. n - 1 : rest[i + 1].start <=> rest[i].tail
      BY <1>7
    <3>4. n > 0 => (rest[1].start <=> ~Begun') /\ (rest[n].tail <=> din.start)
      BY <1>7, <1>8, <1>9, <2>1
    <3>5. n = 0 => (din.start <=> ~Begun')
      BY <1>8, <2>1
    <3> HIDE DEF n
    <3>6. \A i \in 1 .. n + 1 : i \in 1 .. n \/ i = n + 1
      BY <3>1
    <3>7. \A i \in 1 .. (n + 1) - 1 : i \in 1 .. n /\ (i = n \/ (i \in 1 .. n - 1 /\ i + 1 \in 1 .. n))
      BY <3>1
    <3>8. \A i \in 1 .. Len(fifo') : fifo'[i].valid
      BY <1>9, <2>1, <3>1, <3>2, <3>6
    <3>9. ASSUME NEW i \in 1 .. Len(fifo') - 1 PROVE fifo'[i + 1].start <=> fifo'[i].tail
      <4>1. i \in 1 .. n /\ (i = n \/ (i \in 1 .. n - 1 /\ i + 1 \in 1 .. n))
        BY <3>1, <3>7
      <4>2. CASE i = n
        <5>1. n > 0
          BY <4>1, <3>1
        <5> QED  BY <3>1, <3>4, <4>1, <4>2, <5>1
      <4>3. CASE i # n
        BY <3>1, <3>3, <4>1, <4>3
      <4> QED  BY <4>2, <4>3
    <3>10. fifo'[1].start <=> ~Begun'
      <4>1. CASE n = 0
        <5>1. fifo'[1] = din
          BY <3>1, <4>1
        <5> QED  BY <3>5, <4>1, <5>1
      <4>2. CASE n # 0
        <5>1. n > 0 /\ 1 \in 1 .. n
          BY <3>1, <4>2
        <5> QED  BY <3>1, <3>4, <5>1
      <4> QED  BY <4>1, <4>2
    <3> QED  BY <3>8, <3>9, <3>10
  <2>2. CASE ~wren
    BY <1>1, <1>7, <2>2
  <2> QED  BY <1>2, <2>1, <2>2
<1>11. fifo' # <<>> => (fifo'[1].start <=> ~Begun')
  <2>1. fifo' # <<>> => Len(fifo') > 0
    <3>1. fifo' \in Seq(PhvSlice)
      BY <1>1, <1>2
    <3> QED  BY <3>1, LenZero
  <2> QED  BY <1>10, <2>1
<1>12. /\ rden' <=> IF rden THEN ~Front.tail ELSE cntHead # 0
  BY <1>2 DEF SliceClock, NextRden
<1>13. rden' => Count(fifo') > 0
  <2> SUFFICES ASSUME rden' PROVE Count(fifo') > 0
    OBVIOUS
  <2>1. CASE rden
    <3>1. Bit(rden /\ Front.tail) = 0 /\ Bit(wren /\ din.tail) \in Nat
      BY <1>12, <2>1 DEF Bit
    <3> QED  BY <1>1, <1>2, <2>1, <3>1
  <2>2. CASE ~rden
    <3>1. Bit(rden /\ Front.tail) = 0 /\ Bit(wren /\ din.tail) \in Nat /\ Bit(Begun) = 0
      BY <1>3, <2>2 DEF Bit
    <3>2. cntHead = Count(fifo) /\ cntHead # 0
      BY <1>2, <1>12, <2>2, <3>1
    <3> QED  BY <1>1, <1>2, <3>1, <3>2
  <2> QED  BY <2>1, <2>2
<1>14. /\ Begun' => rden'
       /\ oPhv'.valid /\ oPhv'.tail => ~rden'
  BY <1>4, <1>5, <1>12
<1>15. cntHead' = Count(fifo') - Bit(Begun')
  <2> DEFINE inc == wren /\ din.tail
             dec == rden /\ ~Begun
             c == Count(fifo)
  <2>1. cntHead' = IF dec /\ ~inc THEN (cntHead - 1) % CntHeadMod
                   ELSE IF inc /\ ~dec THEN (cntHead + 1) % CntHeadMod
                   ELSE cntHead
    BY <1>3 DEF SliceClock, NextCntHead, IncCnt, DecCnt
  <2>2. \A a, n \in Nat : a < n => a % n = a
    OBVIOUS
  <2>3. CntHeadMod \in Nat
    BY GenAssumption
  <2>4. cntHead' = cntHead - Bit(dec) + Bit(inc)
    <3>1. CASE dec /\ ~inc
      <4>1. cntHead - 1 \in Nat /\ cntHead - 1 < CntHeadMod
        <5>1. cntHead = c /\ c > 0
          BY <1>2, <3>1 DEF Bit
        <5> QED  BY <1>2, <2>3, <5>1
      <4>2. Bit(dec) = 1 /\ Bit(inc) = 0
        BY <3>1 DEF Bit
      <4>3. cntHead' = cntHead - 1
        BY <2>1, <2>2, <2>3, <3>1, <4>1
      <4> HIDE DEF dec, inc
      <4> QED  BY <4>1, <4>2, <4>3
    <3>2. CASE inc /\ ~dec
      <4>0. cntHead + 1 < CntHeadMod
        BY <3>2, Room
      <4>1. cntHead + 1 \in Nat /\ cntHead + 1 < CntHeadMod
        BY <1>2, <4>0
      <4>2. Bit(dec) = 0 /\ Bit(inc) = 1
        BY <3>2 DEF Bit
      <4>3. cntHead' = cntHead + 1
        BY <2>1, <2>2, <2>3, <3>2, <4>1
      <4>4. cntHead \in Int
        BY <1>2
      <4> HIDE DEF dec, inc
      <4> QED  BY <4>2, <4>3, <4>4
    <3>3. CASE (dec /\ inc) \/ (~dec /\ ~inc)
      <4>1. Bit(dec) = Bit(inc) /\ Bit(dec) \in Int /\ cntHead \in Int
        BY <1>2, <3>3 DEF Bit
      <4>2. cntHead' = cntHead
        BY <2>1, <3>3
      <4> HIDE DEF dec, inc
      <4> QED  BY <4>1, <4>2
    <3> QED  BY <3>1, <3>2, <3>3
  <2>5. Bit(Begun) + Bit(dec) = Bit(rden)
    BY <1>2, <1>3 DEF Bit
  <2>6. Bit(rden /\ Front.tail) + Bit(Begun') = Bit(rden)
    BY <1>2, <1>5 DEF Bit
  <2>7. /\ Bit(Begun) \in Int /\ Bit(dec) \in Int /\ Bit(inc) \in Int /\ Bit(rden) \in Int
        /\ Bit(rden /\ Front.tail) \in Int /\ Bit(Begun') \in Int
    BY DEF Bit
  <2> DEFINE b == Bit(Begun)
             d == Bit(dec)
             i == Bit(inc)
             r == Bit(rden)
             t == Bit(rden /\ Front.tail)
             b2 == Bit(Begun')
  <2>8. /\ Count(fifo') = c - t + i /\ cntHead' = (c - b) - d + i
        /\ b + d = r /\ t + b2 = r /\ c \in Int
        /\ b \in Int /\ d \in Int /\ i \in Int /\ r \in Int /\ t \in Int /\ b2 \in Int
    <3>1. Count(fifo') = c - t + i /\ c \in Int
      BY <1>1, <1>2
    <3>2. cntHead' = (c - b) - d + i
      BY <1>2, <2>4
    <3> QED  BY <2>5, <2>6, <2>7, <3>1, <3>2
  <2> HIDE DEF b, d, i, r, t, b2, c
  <2>9. cntHead' = Count(fifo') - b2
    BY <2>8
  <2> QED  BY <2>9 DEF b2
<1> QED  BY <1>10, <1>11, <1>13, <1>14, <1>15 DEF ReadInv

(* One clock of work is done, and a tail written brings its packet's.      *)
LEMMA WorkStep ==
  ASSUME Fits, TypeOK, ReadInv, NEW m \in 0 .. Len(fifo), WriteInv(m), WorkInv(m), SliceClock
  PROVE  \E m2 \in 0 .. Len(fifo') :
           /\ LastTail(fifo', m2)
           /\ Len(fifo') - m2 = IF wren /\ din.tail THEN 0 ELSE Filled(m)
           /\ (m2 + Count(fifo')) - Bit(rden') =
                (IF Work(m) = 0 THEN 0 ELSE Work(m) - 1)
                  + (IF wren /\ din.tail THEN Filled(m) + 1 ELSE 0)
<1> DEFINE rest == IF rden THEN Tail(fifo) ELSE fifo
           m2 == IF wren /\ din.tail THEN Len(rest) + 1 ELSE m - Bit(rden)
           W == Work(m)
           n == Filled(m)
           c == Count(fifo)
           t == Bit(rden /\ Front.tail)
           pt == wren /\ din.tail
<1>1. /\ Len(rest) = Len(fifo) - Bit(rden) /\ Len(rest) \in Nat
      /\ Count(fifo') = c - t + Bit(pt)
      /\ LastTail(fifo', m2)
      /\ Len(fifo') = Len(rest) + Bit(wren)
  BY FifoStep
<1>2. /\ Len(fifo) \in Nat /\ m \in Nat /\ m <= Len(fifo) /\ rden \in BOOLEAN /\ wren \in BOOLEAN
      /\ c \in Nat /\ c <= m /\ (m > 0 => c > 0)
      /\ cntHead = c - Bit(Begun)
      /\ rden => m > 0
      /\ W = (m + c) - Bit(rden) /\ n = (Len(fifo) - m) + Bit(wren)
  BY Numbers DEF Work, Filled
<1>3. m2 \in 0 .. Len(fifo')
  BY <1>1 DEF LastTail
<1>4. rden' <=> IF rden THEN ~Front.tail ELSE cntHead # 0
  BY <1>2 DEF SliceClock, NextRden
<1>5. rden => t + Bit(rden') = 1
  BY <1>4 DEF Bit
<1>6. ~rden => t = 0 /\ Bit(rden') = IF c # 0 THEN 1 ELSE 0
  <2> SUFFICES ASSUME ~rden PROVE t = 0 /\ Bit(rden') = IF c # 0 THEN 1 ELSE 0
    OBVIOUS
  <2>1. ~Begun
    BY DEF ReadInv
  <2>2. cntHead = c
    BY <1>2, <2>1 DEF Bit
  <2> QED  BY <1>4, <2>2 DEF Bit
<1>7. t \in Int /\ Bit(rden') \in Int
  BY DEF Bit
<1>8. pt => m2 = Len(rest) + 1 /\ Bit(pt) = 1 /\ Bit(wren) = 1
  BY DEF Bit
<1>9. ~pt => m2 = m - Bit(rden) /\ Bit(pt) = 0
  BY DEF Bit
<1>10. Bit(wren) \in Int /\ (rden => Bit(rden) = 1) /\ (~rden => Bit(rden) = 0)
  BY DEF Bit
<1> DEFINE f2 == Len(fifo')
           l == Len(rest)
           c2 == Count(fifo')
           r2 == Bit(rden')
           r == Bit(rden)
           w == Bit(wren)
<1>11. /\ l = Len(fifo) - r /\ l \in Nat /\ f2 = l + w /\ w \in Int
       /\ W = (m + c) - r /\ n = (Len(fifo) - m) + w
       /\ (rden => r = 1) /\ (~rden => r = 0)
       /\ t \in Int /\ r2 \in Int
  <2> HIDE DEF rest, W, n, c, t
  <2> QED  BY <1>1, <1>2, <1>7, <1>10
<1>12. /\ rden => t + r2 = 1
       /\ ~rden => t = 0 /\ r2 = IF c # 0 THEN 1 ELSE 0
  BY <1>5, <1>6
<1>16. pt => m2 = l + 1 /\ w = 1 /\ c2 = (c - t) + 1
  <2> SUFFICES ASSUME pt PROVE m2 = l + 1 /\ w = 1 /\ c2 = (c - t) + 1
    OBVIOUS
  <2>1. Bit(pt) = 1 /\ w = 1 /\ m2 = l + 1
    BY <1>8
  <2> QED  BY <1>1, <2>1
<1>17. ~pt => m2 = m - r /\ c2 = c - t
  <2> SUFFICES ASSUME ~pt PROVE m2 = m - r /\ c2 = c - t
    OBVIOUS
  <2>1. Bit(pt) = 0 /\ m2 = m - r
    BY <1>9
  <2>2. c2 = (c - t) + 0
    BY <1>1, <2>1
  <2>3. c \in Int /\ t \in Int /\ \A x, y \in Int : (x - y) + 0 = x - y
    BY <1>2, <1>7
  <2> HIDE DEF c, t, c2
  <2>4. c2 = c - t
    BY <2>2, <2>3
  <2> QED  BY <2>1, <2>4
<1>18. LastTail(fifo', m2)
  BY <1>1
<1> HIDE DEF rest, m2, W, n, c, t, pt, f2, l, c2, r2, r, w
<1>19. r \in Int /\ c \in Int /\ m \in Int /\ Len(fifo) \in Int /\ n \in Int /\ W \in Nat
  <2>1. r \in Int
    BY <1>2, <1>11
  <2>2. W \in Nat
    BY Numbers DEF W
  <2> QED  BY <1>2, <1>11, <2>1, <2>2
<1>20. (IF W = 0 THEN 0 ELSE W - 1) = W - 1 + (IF c = 0 /\ ~rden THEN 1 ELSE 0)
  <2>1. CASE rden
    <3>1. r = 1 /\ m > 0 /\ c > 0
      BY <1>2, <1>11, <2>1
    <3>2. W = (m + c) - 1
      BY <1>11, <3>1
    <3>3. W > 0
      BY <1>19, <3>1, <3>2
    <3> QED  BY <1>19, <2>1, <3>3
  <2>2. CASE ~rden
    <3>1. W = m + c
      BY <1>11, <1>19, <2>2
    <3>2. W = 0 <=> c = 0
      BY <1>2, <3>1
    <3> QED  BY <1>19, <2>2, <3>2
  <2> QED  BY <2>1, <2>2
<1>13. CASE pt
  <2>1. f2 - m2 = 0
    BY <1>2, <1>11, <1>13, <1>16
  <2>2. (m2 + c2) - r2 = (IF W = 0 THEN 0 ELSE W - 1) + (n + 1)
    <3>1. m2 = l + 1 /\ c2 = (c - t) + 1 /\ w = 1
      BY <1>13, <1>16
    <3>2. CASE rden
      BY <1>11, <1>12, <1>19, <1>20, <3>1, <3>2
    <3>3. CASE ~rden
      BY <1>11, <1>12, <1>19, <1>20, <3>1, <3>3
    <3> QED  BY <3>2, <3>3
  <2>3. /\ Len(fifo') - m2 = 0
        /\ (m2 + Count(fifo')) - Bit(rden') =
             (IF Work(m) = 0 THEN 0 ELSE Work(m) - 1) + (Filled(m) + 1)
    <3>1. f2 = Len(fifo') /\ c2 = Count(fifo') /\ r2 = Bit(rden') /\ W = Work(m) /\ n = Filled(m)
      BY DEF f2, c2, r2, W, n
    <3> QED  BY <2>1, <2>2, <3>1
  <2>4. wren /\ din.tail
    BY <1>13 DEF pt
  <2> QED  BY <1>3, <1>18, <2>3, <2>4
<1>14. CASE ~pt
  <2>0. m2 = m - r /\ c2 = c - t
    BY <1>14, <1>17
  <2>1. f2 - m2 = n
    BY <1>11, <1>19, <2>0
  <2>2. (m2 + c2) - r2 = (IF W = 0 THEN 0 ELSE W - 1) + 0
    <3>1. CASE rden
      BY <1>11, <1>12, <1>19, <1>20, <2>0, <3>1
    <3>2. CASE ~rden
      BY <1>11, <1>12, <1>19, <1>20, <2>0, <3>2
    <3> QED  BY <3>1, <3>2
  <2>3. /\ Len(fifo') - m2 = Filled(m)
        /\ (m2 + Count(fifo')) - Bit(rden') = (IF Work(m) = 0 THEN 0 ELSE Work(m) - 1) + 0
    <3>1. f2 = Len(fifo') /\ c2 = Count(fifo') /\ r2 = Bit(rden') /\ W = Work(m) /\ n = Filled(m)
      BY DEF f2, c2, r2, W, n
    <3> QED  BY <2>1, <2>2, <3>1
  <2>4. ~(wren /\ din.tail)
    BY <1>14 DEF pt
  <2> QED  BY <1>3, <1>18, <2>3, <2>4
<1> QED  BY <1>13, <1>14

(* The same, by whether a packet is being received.                        *)
LEMMA EdgeStep ==
  ASSUME Fits, TypeOK, ReadInv, NEW m \in 0 .. Len(fifo), WriteInv(m), WorkInv(m), SliceClock
  PROVE  \E m2 \in 0 .. Len(fifo'), w2 \in Nat :
           /\ LastTail(fifo', m2) /\ Len(fifo') \in Nat
           /\ w2 = (m2 + Count(fifo')) - Bit(rden')
           /\ rx = <<>> => Len(fifo') = m2 /\ w2 <= MaxWork
           /\ rx # <<>> => Len(fifo') - m2 = Filled(m) /\ (w2 = 0 \/ w2 + 1 = Work(m))
<1>1. PICK m2 \in 0 .. Len(fifo') :
        /\ LastTail(fifo', m2)
        /\ Len(fifo') - m2 = IF wren /\ din.tail THEN 0 ELSE Filled(m)
        /\ (m2 + Count(fifo')) - Bit(rden') =
             (IF Work(m) = 0 THEN 0 ELSE Work(m) - 1)
               + (IF wren /\ din.tail THEN Filled(m) + 1 ELSE 0)
  BY WorkStep
<1>2. /\ Work(m) \in Nat /\ Filled(m) \in Nat /\ MaxWork \in Nat
      /\ Len(fifo') \in Nat /\ m2 \in Nat
  <2>1. Len(fifo') \in Nat
    <3>1. fifo' \in Seq(PhvSlice)
      BY FifoType DEF SliceClock
    <3> QED  BY <3>1, LenZero
  <2> QED  BY <2>1, Numbers, SliceLengths DEF MaxWork
<1> DEFINE w2 == (IF Work(m) = 0 THEN 0 ELSE Work(m) - 1)
                   + (IF wren /\ din.tail THEN Filled(m) + 1 ELSE 0)
<1>3. w2 \in Nat
  BY <1>2
<1>4. ASSUME rx = <<>> PROVE Len(fifo') = m2 /\ w2 <= MaxWork
  <2>1. CASE wren
    <3>1. din.tail /\ Filled(m) + 1 <= MaxWork /\ (Work(m) = 0 \/ Work(m) + Filled(m) <= MaxWork)
      BY <1>4, <2>1 DEF WriteInv, WorkInv
    <3> QED  BY <1>1, <1>2, <2>1, <3>1
  <2>2. CASE ~wren
    <3>1. Len(fifo) = m /\ Work(m) <= MaxWork
      BY <1>4, <2>2 DEF WriteInv, WorkInv
    <3>2. Filled(m) = 0
      BY <2>2, <3>1, Numbers DEF Filled, Bit
    <3> QED  BY <1>1, <1>2, <2>2, <3>1, <3>2
  <2> QED  BY <2>1, <2>2
<1>5. ASSUME rx # <<>> PROVE Len(fifo') - m2 = Filled(m) /\ (w2 = 0 \/ w2 + 1 = Work(m))
  <2>1. ~(wren /\ din.tail)
    BY <1>5 DEF WriteInv
  <2> QED  BY <1>1, <1>2, <2>1
<1>6. w2 = (m2 + Count(fifo')) - Bit(rden')
  BY <1>1
<1> HIDE DEF w2
<1> QED  BY <1>1, <1>2, <1>3, <1>4, <1>5, <1>6

LEMMA PauseBacklog ==
  ASSUME Fits, TypeOK, BacklogInv, Pause
  PROVE  BacklogInv'
<1>0. PICK m \in 0 .. Len(fifo) : WriteInv(m) /\ WorkInv(m)
  BY DEF BacklogInv
<1>1. ReadInv /\ SliceClock /\ wren' = FALSE /\ cntPkt' = cntPkt /\ din' = din /\ rx' = rx
  BY DEF BacklogInv, Pause
<1>2. ReadInv'
  BY <1>0, <1>1, ReadStep
<1>3. PICK m2 \in 0 .. Len(fifo'), w2 \in Nat :
        /\ LastTail(fifo', m2) /\ Len(fifo') \in Nat
        /\ w2 = (m2 + Count(fifo')) - Bit(rden')
        /\ rx = <<>> => Len(fifo') = m2 /\ w2 <= MaxWork
        /\ rx # <<>> => Len(fifo') - m2 = Filled(m) /\ (w2 = 0 \/ w2 + 1 = Work(m))
  BY <1>0, <1>1, EdgeStep
<1>4. Work(m2)' = w2 /\ Filled(m2)' = (Len(fifo') - m2) + 0 /\ Filled(m2)' = Len(fifo') - m2
  <2>1. Bit(wren') = 0
    BY <1>1 DEF Bit
  <2>2. (Len(fifo') - m2) + 0 = Len(fifo') - m2
    BY <1>3
  <2> QED  BY <1>3, <2>1, <2>2 DEF Work, Filled
<1>5. WriteInv(m2)'
  BY <1>0, <1>1, <1>3, <1>4 DEF WriteInv
<1>6. WorkInv(m2)'
  <2>1. CASE rx # <<>>
    <3>1. Work(m) = 0 \/ Work(m) + Len(rx) <= MaxWork + 1
      BY <1>0, <2>1 DEF WorkInv
    <3>2. Work(m) \in Nat /\ Len(rx) \in Nat /\ MaxWork \in Nat
      BY <1>0, <1>1, Numbers, SliceLengths DEF MaxWork
    <3>3. w2 = 0 \/ w2 + Len(rx) <= MaxWork + 1
      BY <1>3, <2>1, <3>1, <3>2
    <3> QED  BY <1>1, <1>4, <2>1, <3>3 DEF WorkInv
  <2>2. CASE rx = <<>>
    BY <1>1, <1>3, <1>4, <2>2 DEF WorkInv
  <2> QED  BY <2>1, <2>2
<1> QED  BY <1>2, <1>3, <1>5, <1>6 DEF BacklogInv

LEMMA HeadBacklog ==
  ASSUME Fits, TypeOK, BacklogInv, NEW t \in Tokens, NEW isConf \in BOOLEAN, HeadWord(t, isConf)
  PROVE  BacklogInv'
<1>0. PICK m \in 0 .. Len(fifo) : WriteInv(m) /\ WorkInv(m)
  BY DEF BacklogInv
<1>1. /\ ReadInv /\ SliceClock /\ wren' = FALSE /\ cntPkt' = 1 % PKT_NUM /\ rx' = <<t>> /\ rx = <<>>
      /\ din'.valid /\ din'.start /\ ~din'.tail
  BY DEF BacklogInv, HeadWord, TypeOK, PhvSlice
<1>2. ReadInv'
  BY <1>0, <1>1, ReadStep
<1>3. PICK m2 \in 0 .. Len(fifo'), w2 \in Nat :
        /\ LastTail(fifo', m2) /\ Len(fifo') \in Nat
        /\ w2 = (m2 + Count(fifo')) - Bit(rden')
        /\ Len(fifo') = m2 /\ w2 <= MaxWork
  BY <1>0, <1>1, EdgeStep
<1>4. Work(m2)' = w2 /\ Filled(m2)' = 0
  <2>1. Bit(wren') = 0
    BY <1>1 DEF Bit
  <2>2. (Len(fifo') - m2) + 0 = 0
    BY <1>3
  <2> QED  BY <1>3, <2>1, <2>2 DEF Work, Filled
<1>5. Len(rx') = Base(0) + cntPkt' /\ rx' # <<>> /\ Len(rx') = 1
  <2>1. 1 % PKT_NUM = 1
    BY GenAssumption
  <2> QED  BY <1>1, <2>1, BaseLemma
<1>6. WriteInv(m2)'
  BY <1>1, <1>3, <1>4, <1>5 DEF WriteInv
<1>7. WorkInv(m2)'
  <2>1. MaxWork \in Nat
    BY SliceLengths DEF MaxWork
  <2>2. w2 + Len(rx') <= MaxWork + 1
    <3>1. \A w, l, x \in Nat : w <= x /\ l = 1 => w + l <= x + 1
      OBVIOUS
    <3>2. w2 \in Nat /\ w2 <= MaxWork
      BY <1>3
    <3>3. Len(rx') = 1 /\ 1 \in Nat
      BY <1>5
    <3> QED  BY <2>1, <3>1, <3>2, <3>3
  <2> QED  BY <1>4, <1>5, <2>2 DEF WorkInv
<1> QED  BY <1>2, <1>3, <1>6, <1>7 DEF BacklogInv

LEMMA BodyBacklog ==
  ASSUME Fits, TypeOK, BacklogInv, NEW t \in Tokens, NEW tail \in BOOLEAN, BodyWord(t, tail)
  PROVE  BacklogInv'
<1>0. PICK m \in 0 .. Len(fifo) : WriteInv(m) /\ WorkInv(m)
  BY DEF BacklogInv
<1>1. /\ ReadInv /\ SliceClock /\ wren' = SliceReady(tail) /\ cntPkt' = NextSlot
      /\ rx # <<>> /\ rx' = IF tail THEN <<>> ELSE Append(rx, t)
  BY DEF BacklogInv, BodyWord
<1>2. /\ din'.valid
      /\ din'.start <=> (cntPkt # 0 /\ din.start)
      /\ din'.tail <=> (tail \/ (cntPkt # 0 /\ din.tail))
  BY DEF BodyWord, TypeOK, PhvSlice
<1>3. ReadInv'
  BY <1>0, <1>1, ReadStep
<1> DEFINE n == Filled(m)
           N == Slices(MaxLen)
<1>4. PICK m2 \in 0 .. Len(fifo'), w2 \in Nat :
        /\ LastTail(fifo', m2) /\ Len(fifo') \in Nat
        /\ w2 = (m2 + Count(fifo')) - Bit(rden')
        /\ Len(fifo') - m2 = n /\ (w2 = 0 \/ w2 + 1 = Work(m))
  BY <1>0, <1>1, EdgeStep
<1>5. /\ n \in Nat /\ Work(m) \in Nat /\ Len(rx) \in Nat /\ Len(rx) < MaxLen /\ Len(rx) # 0
      /\ cntPkt \in Nat /\ cntPkt < PKT_NUM /\ PKT_NUM \in Nat /\ PKT_NUM >= 2 /\ MaxLen \in Nat
      /\ Len(rx) = Base(n) + cntPkt /\ Base(n) \in Nat /\ Base(n) >= 2 * n
      /\ Base(n + 1) = Base(n) + PKT_NUM
      /\ cntPkt # 0 => ~din.tail /\ (din.start <=> n = 0)
      /\ Work(m) = 0 \/ Work(m) + Len(rx) <= N + 2
      /\ N \in Nat /\ n + 1 <= N /\ MaxWork = N + 1
  <2>1. n \in Nat /\ Work(m) \in Nat /\ Len(rx) \in Nat /\ Len(rx) < MaxLen /\ Len(rx) # 0
    BY <1>0, <1>1, Numbers
  <2>2. /\ cntPkt \in Nat /\ cntPkt < PKT_NUM /\ PKT_NUM \in Nat /\ PKT_NUM >= 2 /\ MaxLen \in Nat
    BY GenAssumption DEF TypeOK, Slots
  <2>3. Len(rx) = Base(n) + cntPkt /\ (cntPkt # 0 => ~din.tail /\ (din.start <=> n = 0))
    BY <1>0, <1>1 DEF WriteInv
  <2>4. Base(n) \in Nat /\ Base(n) >= 2 * n /\ Base(n + 1) = Base(n) + PKT_NUM
    BY <2>1, BaseLemma
  <2>5. N \in Nat /\ n + 1 <= N /\ MaxWork = N + 1
    BY <2>1, <2>2, <2>3, SliceLengths DEF MaxWork
  <2>6. Work(m) = 0 \/ Work(m) + Len(rx) <= N + 2
    <3>1. Work(m) = 0 \/ Work(m) + Len(rx) <= MaxWork + 1
      BY <1>0, <1>1 DEF WorkInv
    <3>2. MaxWork + 1 = N + 2
      BY <2>5
    <3> HIDE DEF N
    <3> QED  BY <3>1, <3>2
  <2> QED  BY <2>1, <2>2, <2>3, <2>4, <2>5, <2>6
<1>6. Work(m2)' = w2 /\ Filled(m2)' = n + Bit(wren')
  BY <1>4 DEF Work, Filled
<1> HIDE DEF n, N
<1>7. CASE tail
  <2>1. rx' = <<>> /\ wren' /\ din'.tail
    BY <1>1, <1>2, <1>7 DEF SliceReady
  <2>2. Filled(m2)' = n + 1
    BY <1>6, <2>1 DEF Bit
  <2>3. din'.start <=> Len(fifo') = m2
    <3>1. Len(fifo') = m2 <=> n = 0
      BY SMTT(20), <1>4, <1>5
    <3>2. cntPkt = 0 => n # 0
      <4>1. Base(0) = 0
        BY BaseLemma
      <4> QED  BY <1>5, <4>1
    <3> QED  BY <1>2, <1>5, <3>1, <3>2
  <2>4. WriteInv(m2)'
    BY <1>2, <1>4, <2>1, <2>3 DEF WriteInv
  <2>5. WorkInv(m2)'
    <3>1. n + 1 + 1 <= MaxWork
      BY <1>5
    <3>2. n + 1 <= Len(rx)
      BY <1>5
    <3>3. w2 = 0 \/ w2 + (n + 1) <= MaxWork
      <4>1. \A w, W, l, a, x, y \in Nat :
              (w = 0 \/ w + 1 = W) /\ (W = 0 \/ W + l <= x + 2) /\ a + 1 <= l /\ y = x + 1
                => w = 0 \/ w + (a + 1) <= y
        OBVIOUS
      <4>2. /\ w2 \in Nat /\ Work(m) \in Nat /\ Len(rx) \in Nat /\ n \in Nat /\ N \in Nat
            /\ MaxWork \in Nat
        BY <1>4, <1>5
      <4> QED  BY <1>4, <1>5, <3>2, <4>1, <4>2
    <3> QED  BY <1>6, <2>1, <2>2, <3>1, <3>3 DEF WorkInv
  <2> QED  BY <1>3, <1>4, <2>4, <2>5 DEF BacklogInv
<1>8. CASE ~tail
  <2>1. rx' = Append(rx, t) /\ (wren' <=> cntPkt = PKT_NUM - 1)
    BY <1>1, <1>8 DEF SliceReady
  <2>2. Len(rx') = Len(rx) + 1 /\ rx' # <<>>
    <3>1. rx \in Seq(Tokens) /\ rx' \in Seq(Tokens)
      BY <2>1 DEF TypeOK
    <3>2. Len(rx') = Len(rx) + 1
      BY <2>1, <3>1
    <3> QED  BY <1>5, <3>1, <3>2, LenZero
  <2>3. ~din'.tail /\ (din'.start <=> n = 0)
    <3>1. cntPkt = 0 => n # 0
      <4>1. Base(0) = 0
        BY BaseLemma
      <4> QED  BY <1>5, <4>1
    <3> QED  BY <1>2, <1>5, <1>8, <3>1
  <2>4. Len(fifo') = m2 <=> n = 0
    BY SMTT(20), <1>4, <1>5
  <2>5. ASSUME wren' PROVE WriteInv(m2)'
    <3>1. cntPkt + 1 = PKT_NUM
      BY <1>5, <2>1, <2>5
    <3>2. cntPkt' = 0
      <4>1. PKT_NUM % PKT_NUM = 0
        BY <1>5
      <4> QED  BY <1>1, <3>1, <4>1 DEF NextSlot
    <3>3. Filled(m2)' = n + 1
      BY <1>6, <2>5 DEF Bit
    <3>4. Len(rx') = Base(n + 1) + 0
      <4>1. \A l, b, c, k, d \in Nat :
              l = b + c /\ c + 1 = k /\ d = b + k => l + 1 = d + 0
        OBVIOUS
      <4>2. Base(n + 1) \in Nat
        BY <1>5
      <4> QED  BY SMTT(20), <1>5, <2>2, <3>1, <4>1, <4>2
    <3> QED  BY <1>2, <1>4, <2>2, <2>3, <2>4, <2>5, <3>2, <3>3, <3>4 DEF WriteInv
  <2>6. ASSUME ~wren' PROVE WriteInv(m2)'
    <3>1. cntPkt + 1 < PKT_NUM
      BY <1>5, <2>1, <2>6
    <3>2. cntPkt' = cntPkt + 1
      <4>1. \A a, b \in Nat : a < b => a % b = a
        OBVIOUS
      <4>2. (cntPkt + 1) % PKT_NUM = cntPkt + 1
        BY <1>5, <3>1, <4>1
      <4> QED  BY <1>1, <4>2 DEF NextSlot
    <3>3. Filled(m2)' = n
      <4>1. Bit(wren') = 0 /\ n + 0 = n
        BY <1>5, <2>6 DEF Bit
      <4> QED  BY <1>6, <4>1
    <3>4. Len(rx') = Base(n) + cntPkt'
      BY <1>5, <2>2, <3>2
    <3> QED  BY <1>2, <1>4, <2>2, <2>3, <2>4, <2>6, <3>2, <3>3, <3>4 DEF WriteInv
  <2>7. WriteInv(m2)'
    BY <2>5, <2>6
  <2>8. WorkInv(m2)'
    <3>1. w2 = 0 \/ w2 + Len(rx') <= MaxWork + 1
      <4>1. \A w, W, l, x, y \in Nat :
              (w = 0 \/ w + 1 = W) /\ (W = 0 \/ W + l <= x + 2) /\ y = x + 1
                => w = 0 \/ w + (l + 1) <= y + 1
        OBVIOUS
      <4>2. /\ w2 \in Nat /\ Work(m) \in Nat /\ Len(rx) \in Nat /\ N \in Nat
            /\ MaxWork \in Nat
        BY <1>4, <1>5
      <4> QED  BY <1>4, <1>5, <2>2, <4>1, <4>2
    <3> QED  BY <1>6, <2>2, <3>1 DEF WorkInv
  <2> QED  BY <1>3, <1>4, <2>7, <2>8 DEF BacklogInv
<1> QED  BY <1>7, <1>8

(* The backlog of a stream of packets that fit.                            *)
LEMMA Backlog ==
  ASSUME Fits
  PROVE  Spec => []BacklogInv
<1>0. Slices(MaxLen) \in Nat /\ MaxWork \in Nat
  BY SliceLengths DEF MaxWork
<1>00. /\ LastTail(<<>>, 0) /\ Len(<<>>) = 0 /\ Count(<<>>) = 0
  <2>1. <<>> \in Seq(PhvSlice) /\ Len(<<>>) = 0
    OBVIOUS
  <2>2. Count(<<>>) = 0
    BY <2>1, CountLemma
  <2>3. 0 \in 0 .. Len(<<>>) /\ 0 + 1 .. Len(<<>>) = {}
    BY <2>1
  <2>4. LastTail(<<>>, 0)
    BY <2>1, <2>3 DEF LastTail
  <2> QED  BY <2>1, <2>2, <2>4
<1>1. Init => BacklogInv
  <2> SUFFICES ASSUME Init PROVE BacklogInv
    OBVIOUS
  <2>1. /\ fifo = <<>> /\ rden = FALSE /\ wren = FALSE /\ rx = <<>> /\ cntHead = 0
        /\ oPhv = NoSlice
    BY DEF Init
  <2>2. ~Begun /\ Bit(Begun) = 0 /\ Bit(rden) = 0 /\ ~oPhv.valid
    BY <2>1 DEF Begun, NoSlice, Bit
  <2>3. ReadInv
    BY <1>00, <2>1, <2>2 DEF ReadInv
  <2>4. WriteInv(0) /\ WorkInv(0)
    BY <1>0, <1>00, <2>1, <2>2 DEF WriteInv, WorkInv, Work
  <2> QED  BY <1>00, <2>1, <2>3, <2>4 DEF BacklogInv
<1>2. TypeOK /\ BacklogInv /\ [Next]_vars => BacklogInv'
  <2> SUFFICES ASSUME TypeOK, BacklogInv, [Next]_vars PROVE BacklogInv'
    OBVIOUS
  <2>1. CASE Pause
    BY <2>1, PauseBacklog
  <2>2. ASSUME NEW t \in Tokens, NEW isConf \in BOOLEAN, HeadWord(t, isConf)
        PROVE  BacklogInv'
    BY <2>2, HeadBacklog
  <2>3. ASSUME NEW t \in Tokens, NEW tail \in BOOLEAN, BodyWord(t, tail)
        PROVE  BacklogInv'
    BY <2>3, BodyBacklog
  <2>4. CASE Reset
    <3>1. /\ fifo' = <<>> /\ rden' = FALSE /\ wren' = FALSE /\ rx' = <<>> /\ cntHead' = 0
          /\ ~oPhv'.valid
      BY <2>4 DEF Reset, TypeOK, PhvSlice
    <3>2. ~Begun' /\ Bit(Begun') = 0 /\ Bit(rden') = 0
      BY <3>1 DEF Begun, Bit
    <3>3. ReadInv'
      BY <1>00, <3>1, <3>2 DEF ReadInv
    <3>4. WriteInv(0)' /\ WorkInv(0)'
      BY <1>0, <1>00, <3>1, <3>2 DEF WriteInv, WorkInv, Work
    <3>5. 0 \in 0 .. Len(fifo')
      BY <1>00, <3>1
    <3> QED  BY <3>3, <3>4, <3>5 DEF BacklogInv
  <2>5. CASE UNCHANGED vars
    BY <2>5 DEF vars, wordVars, sliceVars, history, BacklogInv, ReadInv, WriteInv, WorkInv,
                Work, Filled, Begun, Front
  <2> QED  BY <2>1, <2>2, <2>3, <2>4, <2>5 DEF Next, Clock
<1> QED  BY <1>1, <1>2, TypeCorrect, PTL DEF Spec

(* r_cnt_head counts the complete packets that have not been begun, and    *)
(* never wraps, when the longest packet has fewer than 2 * CntHeadMod - 2  *)
(* slices, whatever the lengths and the order of the packets.              *)
THEOREM CounterExact ==
  ASSUME Fits
  PROVE  Spec => []CountExact
<1>1. TypeOK /\ BacklogInv => CountExact
  <2> SUFFICES ASSUME TypeOK, BacklogInv PROVE CountExact
    OBVIOUS
  <2>1. /\ rden => fifo # <<>> /\ (Front.start <=> ~Begun)
        /\ Begun => rden
        /\ cntHead = Count(fifo) - Bit(Begun)
    <3>1. PICK m \in 0 .. Len(fifo) : WriteInv(m)
      BY DEF BacklogInv
    <3>2. rden => fifo # <<>>
      BY <3>1, Numbers DEF BacklogInv
    <3> QED  BY <3>2 DEF BacklogInv, ReadInv, Front
  <2>2. Bit(Begun) = IF rden /\ ~Front.start THEN 1 ELSE 0
    BY <2>1 DEF Bit
  <2> QED  BY <2>1, <2>2 DEF CountExact, Waiting, Count, TailsOf, Tails
<1> QED  BY <1>1, TypeCorrect, Backlog, PTL

(* Neither port of fifo_head is used outside its limits, though neither is *)
(* guarded by a flag.                                                      *)
THEOREM ReadsFull ==
  ASSUME Fits
  PROVE  Spec => []NeverReadsEmpty
<1>1. TypeOK /\ BacklogInv => NeverReadsEmpty
  <2> SUFFICES ASSUME TypeOK, BacklogInv PROVE NeverReadsEmpty
    OBVIOUS
  <2>1. PICK m \in 0 .. Len(fifo) : WriteInv(m)
    BY DEF BacklogInv
  <2> QED  BY <2>1, Numbers DEF BacklogInv, NeverReadsEmpty
<1> QED  BY <1>1, TypeCorrect, Backlog, PTL

(* What the next clock sends after what has been sent.                     *)
LEMMA AfterSlice ==
  ASSUME TypeOK, BacklogInv, SliceClock
  PROVE  /\ Begun => oPhv'.valid /\ ~oPhv'.start
         /\ oPhv.valid /\ oPhv.tail => ~oPhv'.valid
         /\ ~oPhv.valid /\ oPhv'.valid => oPhv'.start
         /\ ~oPhv'.valid => oPhv' = NoSlice /\ ~oMeta'
<1>1. /\ rden => fifo # <<>> /\ Front.valid /\ (Front.start <=> ~Begun)
      /\ Begun => rden
      /\ oPhv.valid /\ oPhv.tail => ~rden
  <2>1. PICK m \in 0 .. Len(fifo) : WriteInv(m)
    BY DEF BacklogInv
  <2>2. rden => fifo # <<>> /\ 1 \in 1 .. Len(fifo)
    BY <2>1, Numbers DEF BacklogInv
  <2> QED  BY <2>2 DEF BacklogInv, ReadInv, Front
<1>2. /\ oPhv' = (IF rden THEN Front ELSE NoSlice) /\ ~NoSlice.valid
      /\ oMeta' = (rden /\ Front.start)
  BY DEF SliceClock, NoSlice
<1> QED  BY <1>1, <1>2 DEF Begun

(* An empty slice carries no flag.                                         *)
FlagsInv == ~oPhv.valid => ~oPhv.start /\ ~oPhv.tail /\ ~oMeta

LEMMA Flags ==
  ASSUME Fits
  PROVE  Spec => []FlagsInv
<1>1. Init => FlagsInv
  BY DEF Init, FlagsInv, NoSlice
<1>2. TypeOK /\ BacklogInv /\ FlagsInv /\ [Next]_vars => FlagsInv'
  <2> SUFFICES ASSUME TypeOK, BacklogInv, FlagsInv, [Next]_vars PROVE FlagsInv'
    OBVIOUS
  <2>1. CASE SliceClock
    BY <2>1, AfterSlice DEF FlagsInv, NoSlice
  <2>2. CASE Reset
    BY <2>2 DEF Reset, TypeOK, PhvSlice, FlagsInv
  <2>3. CASE UNCHANGED vars
    BY <2>3 DEF vars, sliceVars, FlagsInv
  <2>4. Next => SliceClock \/ Reset
    BY DEF Next, Clock, Pause, HeadWord, BodyWord
  <2> QED  BY <2>1, <2>2, <2>3, <2>4
<1> QED  BY <1>1, <1>2, TypeCorrect, Backlog, PTL DEF Spec

(* The parser gets every packet without a hole and with a gap behind it.   *)
THEOREM Contiguous ==
  ASSUME Fits
  PROVE  Spec => ContiguousPackets
<1>1. TypeOK /\ BacklogInv /\ [Next]_vars => [~Reset => StreamStep]_vars
  <2> SUFFICES ASSUME TypeOK, BacklogInv, Next, ~Reset PROVE StreamStep
    BY DEF StreamStep, vars, sliceVars
  <2>1. SliceClock
    BY DEF Next, Clock, Pause, HeadWord, BodyWord
  <2> QED  BY <2>1, AfterSlice DEF StreamStep, Begun
<1> QED  BY <1>1, TypeCorrect, Backlog, PTL DEF Spec, ContiguousPackets

-----------------------------------------------------------------------------
(* The order of the packets.  Every slice on the way to the parser has its *)
(* place: the packet it is of, counted in the complete packets not sent    *)
(* yet, with the one being received behind them, and its number in it.     *)
Place == [p : Nat, k : Nat]
Pkt(n, d, r) == IF n <= Len(d) THEN d[n] ELSE r
Pos(k, s) == Base(k) + (s + 1)

(* x is the slice at place "at" of the packets d and the part r of one.    *)
Carries(x, at, d, r) ==
  /\ at.p \in 1 .. Len(d) + 1
  /\ x.start <=> at.k = 0
  /\ x.tail => /\ at.p <= Len(d)
               /\ Base(at.k) < Len(d[at.p]) /\ Len(d[at.p]) <= Base(at.k + 1)
  /\ ~x.tail => IF at.p <= Len(d) THEN Base(at.k + 1) < Len(d[at.p])
                ELSE Base(at.k + 1) <= Len(r)
  /\ \A s \in Slots : Pos(at.k, s) <= Len(Pkt(at.p, d, r)) =>
                        x.data[s] = Pkt(at.p, d, r)[Pos(at.k, s)]

(* The place behind that of slice x, and a place when the first of the     *)
(* packets has been sent.                                                  *)
After(at, x) == IF x.tail THEN [p |-> at.p + 1, k |-> 0] ELSE [p |-> at.p, k |-> at.k + 1]
Down(at) == [p |-> at.p - 1, k |-> at.k]

(* The slices of f are those from place a on, up to place e.               *)
Placed(f, at, d, r) ==
  /\ \A i \in 1 .. Len(f) : Carries(f[i], at[i], d, r) /\ at[i + 1] = After(at[i], f[i])
  /\ \A i, j \in 1 .. Len(f) + 1 : i <= j => at[i].p <= at[j].p

Line(f, a, e, d, r) ==
  \E at \in [1 .. Len(f) + 1 -> Place] :
    at[1] = a /\ at[Len(f) + 1] = e /\ Placed(f, at, d, r)

(* The packets may grow at their end, by a word or by a complete packet.   *)
Grows(d, r, d2, r2) ==
  /\ d \in Seq(Seq(Tokens)) /\ r \in Seq(Tokens)
  /\ d2 \in Seq(Seq(Tokens)) /\ r2 \in Seq(Tokens)
  /\ Len(d) <= Len(d2)
  /\ \A n \in 1 .. Len(d) : d2[n] = d[n]
  /\ Len(d2) = Len(d) => Len(r) <= Len(r2)
  /\ Len(d2) > Len(d) => Len(r) < Len(d2[Len(d) + 1])
  /\ \A n \in 1 .. Len(r) : Pkt(Len(d) + 1, d2, r2)[n] = r[n]

LEMMA PlaceLemma ==
  ASSUME NEW at \in Place, NEW x
  PROVE  /\ After(at, x) \in Place /\ at.p \in Nat /\ at.k \in Nat
         /\ at.p <= After(at, x).p
         /\ After(at, x).p = IF x.tail THEN at.p + 1 ELSE at.p
         /\ After(at, x).k = IF x.tail THEN 0 ELSE at.k + 1
         /\ at.p >= 1 => /\ Down(at) \in Place /\ Down(at).p = at.p - 1 /\ Down(at).k = at.k
                         /\ Down(After(at, x)) = After(Down(at), x)
<1>1. at.p \in Nat /\ at.k \in Nat
  BY DEF Place
<1>2. CASE x.tail
  BY <1>1, <1>2 DEF After, Down, Place
<1>3. CASE ~x.tail
  BY <1>1, <1>3 DEF After, Down, Place
<1> QED  BY <1>2, <1>3

LEMMA PosLemma ==
  ASSUME NEW k \in Nat, NEW s \in Slots
  PROVE  /\ Pos(k, s) \in Nat /\ Base(k) < Pos(k, s) /\ Pos(k, s) <= Base(k + 1)
         /\ Pos(k, s) >= 1
<1>1. PKT_NUM \in Nat /\ s \in Nat /\ s < PKT_NUM
  BY GenAssumption DEF Slots
<1>2. Base(k) \in Nat /\ Base(k + 1) = Base(k) + PKT_NUM
  BY BaseLemma
<1> QED  BY <1>1, <1>2 DEF Pos

(* A slice stays where it is while words arrive.                           *)
LEMMA CarriesGrow ==
  ASSUME NEW d, NEW r, NEW d2, NEW r2, Grows(d, r, d2, r2),
         NEW x, NEW at \in Place, Carries(x, at, d, r)
  PROVE  Carries(x, at, d2, r2)
<1>1. /\ Len(d) \in Nat /\ Len(d2) \in Nat /\ Len(r) \in Nat /\ Len(r2) \in Nat
      /\ Len(d) <= Len(d2) /\ at.p \in Nat /\ at.k \in Nat
      /\ at.p >= 1 /\ at.p <= Len(d) + 1
  BY SMTT(20) DEF Grows, Place, Carries
<1>2. CASE at.p <= Len(d)
  <2>1. d2[at.p] = d[at.p] /\ at.p <= Len(d2)
    BY <1>1, <1>2 DEF Grows
  <2>2. Pkt(at.p, d2, r2) = Pkt(at.p, d, r)
    BY <1>2, <2>1 DEF Pkt
  <2>3. at.p \in 1 .. Len(d2) + 1
    BY <1>1
  <2> QED  BY <1>2, <2>1, <2>2, <2>3 DEF Carries
<1>3. CASE at.p = Len(d) + 1
  <2>1. ~x.tail /\ Base(at.k + 1) <= Len(r) /\ Pkt(at.p, d, r) = r
    BY <1>1, <1>3 DEF Carries, Pkt
  <2>2. Base(at.k + 1) \in Nat
    <3>1. at.k + 1 \in Nat
      BY <1>1
    <3> QED  BY <3>1, BaseLemma
  <2>3. at.p \in 1 .. Len(d2) + 1
    BY <1>1
  <2>4. IF at.p <= Len(d2) THEN Base(at.k + 1) < Len(d2[at.p]) ELSE Base(at.k + 1) <= Len(r2)
    <3>1. CASE at.p <= Len(d2)
      <4>1. Len(d2) > Len(d) /\ d2[at.p] \in Seq(Tokens)
        BY <1>1, <1>3, <3>1 DEF Grows
      <4>2. Len(r) < Len(d2[at.p]) /\ Len(d2[at.p]) \in Nat
        BY <1>3, <4>1 DEF Grows
      <4> QED  BY <1>1, <2>1, <2>2, <3>1, <4>2
    <3>2. CASE ~(at.p <= Len(d2))
      <4>1. Len(d2) = Len(d)
        BY <1>1, <1>3, <3>2
      <4> QED  BY <1>1, <2>1, <2>2, <3>2, <4>1 DEF Grows
    <3> QED  BY <3>1, <3>2
  <2>5. ASSUME NEW s \in Slots PROVE x.data[s] = Pkt(at.p, d2, r2)[Pos(at.k, s)]
    <3>1. Pos(at.k, s) \in 1 .. Len(r) /\ Pos(at.k, s) <= Len(r)
      <4>1. Pos(at.k, s) \in Nat /\ Pos(at.k, s) >= 1 /\ Pos(at.k, s) <= Base(at.k + 1)
        BY <1>1, PosLemma
      <4> QED  BY <1>1, <2>1, <2>2, <4>1
    <3>2. x.data[s] = r[Pos(at.k, s)]
      BY <2>1, <3>1 DEF Carries
    <3> QED  BY <1>3, <3>1, <3>2 DEF Grows
  <2>6. x.start <=> at.k = 0
    BY DEF Carries
  <2> QED  BY <2>1, <2>3, <2>4, <2>5, <2>6 DEF Carries
<1> QED  BY <1>1, <1>2, <1>3

(* When the first packet has been sent, the others move up.                *)
LEMMA CarriesDown ==
  ASSUME NEW d \in Seq(Seq(Tokens)), NEW r \in Seq(Tokens), d # <<>>,
         NEW x, NEW at \in Place, at.p >= 2, Carries(x, at, d, r)
  PROVE  Carries(x, Down(at), Tail(d), r)
<1>1. /\ Len(d) \in Nat /\ Len(d) >= 1 /\ Tail(d) \in Seq(Seq(Tokens))
      /\ Len(Tail(d)) = Len(d) - 1
      /\ \A n \in 1 .. Len(d) - 1 : Tail(d)[n] = d[n + 1]
  OBVIOUS
<1>2. at.p \in Nat /\ at.k \in Nat /\ Down(at).p = at.p - 1 /\ Down(at).k = at.k
  BY PlaceLemma
<1>3. /\ at.p \in 1 .. Len(d) + 1
      /\ x.start <=> at.k = 0
      /\ x.tail => /\ at.p <= Len(d)
                   /\ Base(at.k) < Len(d[at.p]) /\ Len(d[at.p]) <= Base(at.k + 1)
      /\ ~x.tail => IF at.p <= Len(d) THEN Base(at.k + 1) < Len(d[at.p])
                    ELSE Base(at.k + 1) <= Len(r)
      /\ \A s \in Slots : Pos(at.k, s) <= Len(Pkt(at.p, d, r)) =>
                            x.data[s] = Pkt(at.p, d, r)[Pos(at.k, s)]
  BY DEF Carries
<1> DEFINE t == Tail(d)
           p2 == at.p - 1
<1>4. /\ p2 \in 1 .. Len(t) + 1
      /\ p2 <= Len(t) <=> at.p <= Len(d)
      /\ at.p <= Len(d) => t[p2] = d[at.p]
  <2>1. p2 \in Nat /\ p2 >= 1 /\ p2 + 1 = at.p
    BY <1>2
  <2>2. p2 \in 1 .. Len(t) + 1 /\ (p2 <= Len(t) <=> at.p <= Len(d))
    BY <1>1, <1>2, <1>3
  <2>3. ASSUME at.p <= Len(d) PROVE t[p2] = d[at.p]
    <3>1. p2 \in 1 .. Len(d) - 1
      BY <1>1, <2>1, <2>3
    <3> QED  BY <1>1, <2>1, <3>1
  <2> QED  BY <2>2, <2>3
<1> HIDE DEF t, p2
<1>5. Pkt(p2, t, r) = Pkt(at.p, d, r)
  BY <1>4 DEF Pkt
<1>6. Down(at).p = p2 /\ Down(at).k = at.k
  BY <1>2 DEF p2
<1>7. Carries(x, Down(at), t, r)
  BY <1>3, <1>4, <1>5, <1>6 DEF Carries
<1> QED  BY <1>7 DEF t

(* So the line stays while words arrive,                                   *)
LEMMA LineGrow ==
  ASSUME NEW f \in Seq(PhvSlice), NEW a, NEW e, NEW d, NEW r, NEW d2, NEW r2,
         Grows(d, r, d2, r2), Line(f, a, e, d, r)
  PROVE  Line(f, a, e, d2, r2)
<1>1. PICK at \in [1 .. Len(f) + 1 -> Place] :
        at[1] = a /\ at[Len(f) + 1] = e /\ Placed(f, at, d, r)
  BY DEF Line
<1>2. ASSUME NEW i \in 1 .. Len(f) PROVE Carries(f[i], at[i], d2, r2)
  <2>1. at[i] \in Place
    BY <1>1
  <2> QED  BY <1>1, <2>1, CarriesGrow DEF Placed
<1> QED  BY <1>1, <1>2 DEF Line, Placed

(* it gets longer by the slice that is written,                            *)
LEMMA LineAppend ==
  ASSUME NEW f \in Seq(PhvSlice), NEW a, NEW e, NEW d, NEW r,
         Line(f, a, e, d, r), NEW x \in PhvSlice, Carries(x, e, d, r)
  PROVE  Line(Append(f, x), a, After(e, x), d, r)
<1>1. PICK at \in [1 .. Len(f) + 1 -> Place] :
        at[1] = a /\ at[Len(f) + 1] = e /\ Placed(f, at, d, r)
  BY DEF Line
<1> DEFINE n == Len(f)
           g == Append(f, x)
           at2 == [i \in 1 .. n + 2 |-> IF i <= n + 1 THEN at[i] ELSE After(e, x)]
<1>2. /\ n \in Nat /\ Len(g) = n + 1 /\ g[n + 1] = x
      /\ \A i \in 1 .. n : g[i] = f[i]
  OBVIOUS
<1>3. e \in Place /\ After(e, x) \in Place /\ e.p \in Nat /\ After(e, x).p \in Nat
      /\ e.p <= After(e, x).p
  <2>1. e \in Place
    BY <1>1, <1>2
  <2> QED  BY <2>1, PlaceLemma
<1>4. /\ at2 \in [1 .. n + 2 -> Place] /\ at2[n + 2] = After(e, x)
      /\ \A i \in 1 .. n + 1 : at2[i] = at[i]
  <2>1. ASSUME NEW i \in 1 .. n + 2 PROVE at2[i] \in Place
    BY <1>1, <1>2, <1>3
  <2> QED  BY <1>2, <2>1
<1> HIDE DEF n, g, at2
<1>5. ASSUME NEW i \in 1 .. n + 1
      PROVE  Carries(g[i], at2[i], d, r) /\ at2[i + 1] = After(at2[i], g[i])
  <2>1. CASE i = n + 1
    <3>1. g[i] = x /\ at2[i] = e /\ at2[i + 1] = After(e, x)
      BY <1>1, <1>2, <1>4, <2>1 DEF n
    <3> QED  BY <3>1
  <2>2. CASE i # n + 1
    <3>1. i \in 1 .. n /\ i + 1 \in 1 .. n + 1
      BY <1>2, <2>2
    <3>2. g[i] = f[i] /\ at2[i] = at[i] /\ at2[i + 1] = at[i + 1]
      BY <1>2, <1>4, <3>1
    <3> QED  BY <1>1, <3>1, <3>2 DEF Placed, n
  <2> QED  BY <2>1, <2>2
<1>6. ASSUME NEW i \in 1 .. n + 2, NEW j \in 1 .. n + 2, i <= j PROVE at2[i].p <= at2[j].p
  <2>1. CASE j = n + 2
    <3>1. CASE i = n + 2
      BY <1>3, <1>4, <2>1, <3>1
    <3>2. CASE i # n + 2
      <4>1. i \in 1 .. n + 1 /\ i <= n + 1 /\ n + 1 \in 1 .. n + 1
        BY <1>2, <3>2
      <4>2. at2[i].p <= e.p /\ at2[i] \in Place
        BY <1>1, <1>4, <4>1 DEF Placed, n
      <4>3. at2[i].p \in Nat
        BY <4>2 DEF Place
      <4> QED  BY <1>3, <1>4, <2>1, <4>2, <4>3
    <3> QED  BY <3>1, <3>2
  <2>2. CASE j # n + 2
    <3>1. i \in 1 .. n + 1 /\ j \in 1 .. n + 1
      BY <1>2, <1>6, <2>2
    <3> QED  BY <1>1, <1>4, <1>6, <3>1 DEF Placed, n
  <2> QED  BY <2>1, <2>2
<1>7. Len(g) + 1 = n + 2
  BY <1>2
<1>8. at2[1] = a
  <2>1. 1 \in 1 .. n + 1
    BY <1>2
  <2> QED  BY <1>1, <1>4, <2>1
<1>9. Placed(g, at2, d, r)
  BY <1>2, <1>5, <1>6, <1>7 DEF Placed
<1>10. Line(g, a, After(e, x), d, r)
  BY <1>4, <1>7, <1>8, <1>9 DEF Line
<1> QED  BY <1>10 DEF g

(* shorter by the one that is read,                                        *)
LEMMA LineDrop ==
  ASSUME NEW f \in Seq(PhvSlice), NEW a, NEW e, NEW d, NEW r,
         Line(f, a, e, d, r), f # <<>>
  PROVE  Carries(f[1], a, d, r) /\ Line(Tail(f), After(a, f[1]), e, d, r)
<1>1. PICK at \in [1 .. Len(f) + 1 -> Place] :
        at[1] = a /\ at[Len(f) + 1] = e /\ Placed(f, at, d, r)
  BY DEF Line
<1> DEFINE n == Len(f)
           g == Tail(f)
           at2 == [i \in 1 .. n |-> at[i + 1]]
<1>2. /\ n \in Nat /\ n >= 1 /\ Len(g) = n - 1
      /\ \A i \in 1 .. n - 1 : g[i] = f[i + 1]
  OBVIOUS
<1>3. at2 \in [1 .. n -> Place] /\ \A i \in 1 .. n : at2[i] = at[i + 1]
  BY <1>1, <1>2
<1> HIDE DEF n, g, at2
<1>4. Carries(f[1], a, d, r) /\ at[2] = After(a, f[1])
  <2>1. 1 \in 1 .. n /\ 1 + 1 = 2
    BY <1>2
  <2> QED  BY <1>1, <2>1 DEF Placed, n
<1>5. ASSUME NEW i \in 1 .. n - 1
      PROVE  Carries(g[i], at2[i], d, r) /\ at2[i + 1] = After(at2[i], g[i])
  <2>1. i \in 1 .. n /\ i + 1 \in 1 .. n
    BY <1>2
  <2>2. g[i] = f[i + 1] /\ at2[i] = at[i + 1] /\ at2[i + 1] = at[(i + 1) + 1]
    BY <1>2, <1>3, <2>1
  <2> QED  BY <1>1, <2>1, <2>2 DEF Placed, n
<1>6. ASSUME NEW i \in 1 .. n, NEW j \in 1 .. n, i <= j PROVE at2[i].p <= at2[j].p
  <2>1. i + 1 \in 1 .. n + 1 /\ j + 1 \in 1 .. n + 1 /\ i + 1 <= j + 1
    BY <1>2, <1>6
  <2> QED  BY <1>1, <1>3, <2>1 DEF Placed, n
<1>7. Len(g) + 1 = n /\ 1 \in 1 .. n /\ n \in 1 .. n
  BY <1>2
<1>8. Placed(g, at2, d, r)
  BY <1>2, <1>5, <1>6, <1>7 DEF Placed
<1>9. at2[1] = After(a, f[1]) /\ at2[n] = e
  <2>1. 1 + 1 = 2
    OBVIOUS
  <2> QED  BY <1>1, <1>3, <1>4, <1>7, <2>1 DEF n
<1>10. Line(g, After(a, f[1]), e, d, r)
  BY <1>3, <1>7, <1>8, <1>9 DEF Line
<1> QED  BY <1>4, <1>10 DEF g

(* and moves up when the first packet has been sent.                       *)
LEMMA LineDown ==
  ASSUME NEW f \in Seq(PhvSlice), NEW a \in Place, NEW e, NEW d \in Seq(Seq(Tokens)),
         NEW r \in Seq(Tokens), d # <<>>, a.p >= 2, Line(f, a, e, d, r)
  PROVE  e \in Place /\ e.p >= 2 /\ Line(f, Down(a), Down(e), Tail(d), r)
<1>1. PICK at \in [1 .. Len(f) + 1 -> Place] :
        at[1] = a /\ at[Len(f) + 1] = e /\ Placed(f, at, d, r)
  BY DEF Line
<1> DEFINE n == Len(f)
           at2 == [i \in 1 .. n + 1 |-> Down(at[i])]
<1>2. n \in Nat
  OBVIOUS
<1>3. ASSUME NEW i \in 1 .. n + 1
      PROVE  at[i] \in Place /\ at[i].p \in Nat /\ at[i].p >= 2 /\ at2[i] = Down(at[i])
             /\ Down(at[i]) \in Place /\ Down(at[i]).p = at[i].p - 1
  <2>1. at[i] \in Place /\ at2[i] = Down(at[i])
    BY <1>1
  <2>2. at[i].p \in Nat /\ a.p \in Nat
    BY <2>1 DEF Place
  <2>3. 1 \in 1 .. n + 1 /\ 1 <= i
    BY <1>2
  <2>4. a.p <= at[i].p
    BY <1>1, <2>3 DEF Placed
  <2>5. at[i].p >= 2 /\ at[i].p >= 1
    BY <2>2, <2>4
  <2> QED  BY <2>1, <2>2, <2>5, PlaceLemma
<1>4. at2 \in [1 .. n + 1 -> Place]
  BY <1>3
<1> HIDE DEF n, at2
<1>5. 1 \in 1 .. n + 1 /\ n + 1 \in 1 .. n + 1
  BY <1>2
<1>6. e \in Place /\ e.p >= 2 /\ at2[1] = Down(a) /\ at2[n + 1] = Down(e)
  BY <1>1, <1>3, <1>5 DEF n
<1>7. ASSUME NEW i \in 1 .. n
      PROVE  Carries(f[i], at2[i], Tail(d), r) /\ at2[i + 1] = After(at2[i], f[i])
  <2>1. i \in 1 .. n + 1 /\ i + 1 \in 1 .. n + 1
    BY <1>2
  <2>2. Carries(f[i], at[i], d, r) /\ at[i + 1] = After(at[i], f[i])
    BY <1>1 DEF Placed, n
  <2>3. Carries(f[i], at2[i], Tail(d), r)
    BY <1>3, <2>1, <2>2, CarriesDown
  <2>4. Down(After(at[i], f[i])) = After(Down(at[i]), f[i])
    <3>1. at[i] \in Place /\ at[i].p \in Nat /\ at[i].p >= 2
      BY <1>3, <2>1
    <3>2. at[i].p >= 1
      BY <3>1
    <3> QED  BY <3>1, <3>2, PlaceLemma
  <2> QED  BY <1>3, <2>1, <2>2, <2>3, <2>4
<1>8. ASSUME NEW i \in 1 .. n + 1, NEW j \in 1 .. n + 1, i <= j PROVE at2[i].p <= at2[j].p
  <2>1. at[i].p <= at[j].p
    BY <1>1, <1>8 DEF Placed, n
  <2> QED  BY SMTT(20), <1>3, <2>1
<1>9. Placed(f, at2, Tail(d), r)
  BY <1>7, <1>8 DEF Placed, n
<1> QED  BY <1>4, <1>6, <1>9 DEF Line, n

-----------------------------------------------------------------------------
(* The slice x that is being collected, of which c words are new: it goes  *)
(* to place e when it is written (w), and what has arrived behind it is at *)
(* the place behind it.                                                    *)
Collecting(e, d, r, w, x, c) ==
  LET z == IF w THEN After(e, x) ELSE e
  IN  /\ w => Carries(x, e, d, r)
      /\ z.p = Len(d) + 1
      /\ r = <<>> => z.k = 0
      /\ r # <<>> => /\ Len(r) = Base(z.k) + c
                     /\ c # 0 => ~x.tail /\ (x.start <=> z.k = 0)
                     /\ \A s \in Slots : s < c => x.data[s] = r[Pos(z.k, s)]

First == [p |-> 1, k |-> got]
NextPlace == IF oPhv.valid THEN After(First, oPhv) ELSE First

SentInv ==
  /\ ~oPhv.valid => got = 0
  /\ oPhv.valid => Carries(oPhv, First, due, rx) /\ (oMeta <=> oPhv.start)

OrderInv ==
  /\ SentInv
  /\ \E e \in Place : /\ Line(fifo, NextPlace, e, due, rx)
                      /\ Collecting(e, due, rx, wren, din, cntPkt)

(* What the slice being collected is, when the first packet has been sent. *)
LEMMA CollectingDown ==
  ASSUME NEW e \in Place, NEW d \in Seq(Seq(Tokens)), NEW r \in Seq(Tokens), NEW w \in BOOLEAN,
         NEW x, NEW c, e.p >= 2, d # <<>>, Collecting(e, d, r, w, x, c)
  PROVE  Collecting(Down(e), Tail(d), r, w, x, c)
<1> DEFINE z == IF w THEN After(e, x) ELSE e
           z2 == IF w THEN After(Down(e), x) ELSE Down(e)
<1>1. Len(d) \in Nat /\ Len(d) >= 1 /\ Len(Tail(d)) = Len(d) - 1
  OBVIOUS
<1>2. e.p \in Nat /\ e.p >= 1
  BY PlaceLemma
<1>3. /\ Down(e).p = e.p - 1 /\ Down(e).k = e.k
      /\ Down(After(e, x)) = After(Down(e), x)
      /\ After(e, x) \in Place /\ After(e, x).p \in Nat /\ After(e, x).p >= 1
  <2>1. /\ Down(e).p = e.p - 1 /\ Down(e).k = e.k
        /\ Down(After(e, x)) = After(Down(e), x)
        /\ After(e, x) \in Place /\ e.p <= After(e, x).p
    BY <1>2, PlaceLemma
  <2>2. After(e, x).p \in Nat
    BY <2>1, PlaceLemma
  <2> QED  BY <1>2, <2>1, <2>2
<1>4. z2.p = z.p - 1 /\ z2.k = z.k
  <2>1. CASE w
    <3>1. Down(After(e, x)).p = After(e, x).p - 1 /\ Down(After(e, x)).k = After(e, x).k
      BY <1>3, PlaceLemma
    <3> QED  BY <1>3, <2>1, <3>1
  <2>2. CASE ~w
    BY <1>3, <2>2
  <2> QED  BY <2>1, <2>2
<1>5. w => Carries(x, Down(e), Tail(d), r)
  <2>1. w => Carries(x, e, d, r)
    BY DEF Collecting
  <2> QED  BY <2>1, CarriesDown
<1>6. z.p = Len(d) + 1
  BY DEF Collecting
<1>7. z2.p = Len(Tail(d)) + 1
  BY <1>1, <1>4, <1>6
<1>8. /\ r = <<>> => z.k = 0
      /\ r # <<>> => /\ Len(r) = Base(z.k) + c
                     /\ c # 0 => ~x.tail /\ (x.start <=> z.k = 0)
                     /\ \A s \in Slots : s < c => x.data[s] = r[Pos(z.k, s)]
  BY DEF Collecting
<1>9. /\ r = <<>> => z2.k = 0
      /\ r # <<>> => /\ Len(r) = Base(z2.k) + c
                     /\ c # 0 => ~x.tail /\ (x.start <=> z2.k = 0)
                     /\ \A s \in Slots : s < c => x.data[s] = r[Pos(z2.k, s)]
  <2> HIDE DEF z, z2
  <2> QED  BY <1>4, <1>8
<1> QED  BY <1>5, <1>7, <1>9 DEF Collecting

(* A clock edge on which the packets grow by "more" and to the part r2 of  *)
(* one: the line moves on, and with it what is collected behind it.        *)
End(e) == IF wren THEN After(e, din) ELSE e

LEMMA LineStep ==
  ASSUME Fits, TypeOK, BacklogInv, SliceClock, SentInv,
         NEW e \in Place, Line(fifo, NextPlace, e, due, rx),
         wren => Carries(din, e, due, rx), End(e).p = Len(due) + 1,
         NEW more \in Seq(Seq(Tokens)), Sent(more),
         Grows(due, rx, due \o more, rx')
  PROVE  /\ SentInv'
         /\ \E e2 \in Place :
              /\ Line(fifo', NextPlace', e2, due', rx')
              /\ \A w \in BOOLEAN : \A y, c : Collecting(End(e), due \o more, rx', w, y, c) =>
                                                Collecting(e2, due', rx', w, y, c)
<1>0. PICK m \in 0 .. Len(fifo) : WriteInv(m) /\ WorkInv(m)
  BY DEF BacklogInv
<1>00. ReadInv
  BY DEF BacklogInv
<1> DEFINE z == End(e)
           d2 == due \o more
           rest == IF rden THEN Tail(fifo) ELSE fifo
<1>1. /\ rest \in Seq(PhvSlice)
      /\ fifo' = (IF wren THEN Append(rest, din) ELSE rest)
      /\ fifo' \in Seq(PhvSlice)
  <2>1. /\ rest \in Seq(PhvSlice)
        /\ fifo' = (IF wren THEN Append(rest, din) ELSE rest)
    BY <1>0, <1>00, FifoStep
  <2> QED  BY <2>1, FifoType DEF SliceClock
<1>2. /\ fifo \in Seq(PhvSlice) /\ din \in PhvSlice
      /\ rden => fifo # <<>> /\ Front = fifo[1] /\ Front.valid
      /\ Begun => rden
      /\ oPhv.valid /\ oPhv.tail => ~rden
  <2>1. fifo \in Seq(PhvSlice) /\ din \in PhvSlice /\ (rden => fifo # <<>>)
    BY <1>0, <1>00, Numbers
  <2>2. rden => Front = fifo[1] /\ 1 \in 1 .. Len(fifo)
    BY <2>1 DEF Front
  <2> QED  BY <1>00, <2>1, <2>2 DEF ReadInv
<1>3. oPhv' = (IF rden THEN Front ELSE NoSlice) /\ oMeta' = (rden /\ Front.start)
      /\ ~NoSlice.valid
  BY DEF SliceClock, NoSlice
<1>4. /\ due \in Seq(Seq(Tokens)) /\ rx \in Seq(Tokens) /\ got \in Nat
      /\ d2 \in Seq(Seq(Tokens)) /\ rx' \in Seq(Tokens)
  BY DEF TypeOK, Grows
<1>5. First \in Place /\ NextPlace \in Place /\ z \in Place
  <2>1. First \in Place
    BY <1>4 DEF First, Place
  <2> QED  BY <2>1, PlaceLemma DEF NextPlace, End
<1>6. Line(fifo, NextPlace, e, d2, rx') /\ (wren => Carries(din, e, d2, rx'))
  BY <1>2, LineGrow, CarriesGrow
<1> DEFINE a == IF rden THEN After(NextPlace, Front) ELSE NextPlace
<1>7. a \in Place
  BY <1>5, PlaceLemma
<1>8. Line(rest, a, e, d2, rx') /\ (rden => Carries(Front, NextPlace, d2, rx'))
  <2>1. CASE rden
    <3>1. Carries(fifo[1], NextPlace, d2, rx')
          /\ Line(Tail(fifo), After(NextPlace, fifo[1]), e, d2, rx')
      <4> HIDE DEF d2
      <4> QED  BY <1>2, <1>6, <2>1, LineDrop
    <3> QED  BY <1>2, <2>1, <3>1
  <2>2. CASE ~rden
    BY <1>6, <2>2
  <2> QED  BY <2>1, <2>2
<1>9. Line(fifo', a, z, d2, rx')
  <2>1. CASE wren
    <3>1. Line(Append(rest, din), a, After(e, din), d2, rx')
      <4> HIDE DEF d2, rest, a
      <4> QED  BY <1>1, <1>2, <1>6, <1>8, <2>1, LineAppend
    <3> QED  BY <1>1, <2>1, <3>1 DEF End
  <2>2. CASE ~wren
    BY <1>1, <1>8, <2>2 DEF End
  <2> QED  BY <2>1, <2>2
<1> HIDE DEF rest, z
<1>10. CASE oPhv.valid /\ oPhv.tail
  <2>1. ~rden /\ ~oPhv'.valid
    BY <1>2, <1>3, <1>10
  <2>2. due # <<>>
    <3>1. 1 <= Len(due)
      BY <1>10 DEF SentInv, Carries, First
    <3> QED  BY <1>4, <3>1
  <2>3. d2 # <<>> /\ Tail(d2) = Tail(due) \o more
    <3>1. more \in Seq(Seq(Tokens))
      OBVIOUS
    <3> QED  BY <1>4, <2>2, <3>1
  <2>4. due' = Tail(d2) /\ got' = 0
    BY <1>10, <2>2, <2>3 DEF Sent
  <2>5. a = NextPlace /\ a.p = 2 /\ a.k = 0
    <3>1. NextPlace = [p |-> 1 + 1, k |-> 0]
      BY <1>10 DEF NextPlace, After, First
    <3> QED  BY <2>1, <3>1
  <2>6. Down(a) = NextPlace'
    <3>1. NextPlace' = [p |-> 1, k |-> 0]
      BY <2>1, <2>4 DEF NextPlace, First
    <3> QED  BY <2>5, <3>1 DEF Down
  <2>7. z.p >= 2 /\ Line(fifo', Down(a), Down(z), Tail(d2), rx')
    <3>1. a.p >= 2
      BY <2>5
    <3> HIDE DEF a, d2
    <3> QED  BY <1>1, <1>4, <1>7, <1>9, <2>3, <3>1, LineDown
  <2>8. Down(z) \in Place
    <3>1. z.p \in Nat /\ z.p >= 1
      BY <1>5, <2>7, PlaceLemma
    <3> QED  BY <1>5, <3>1, PlaceLemma
  <2>9. ASSUME NEW w \in BOOLEAN, NEW y, NEW c, Collecting(z, d2, rx', w, y, c)
        PROVE  Collecting(Down(z), Tail(d2), rx', w, y, c)
    <3> HIDE DEF d2
    <3> QED  BY <1>4, <1>5, <2>3, <2>7, <2>9, CollectingDown
  <2>10. SentInv'
    BY <2>1, <2>4 DEF SentInv
  <2>11. /\ Line(fifo', NextPlace', Down(z), due', rx')
         /\ \A w \in BOOLEAN : \A y, c : Collecting(z, d2, rx', w, y, c) =>
                                           Collecting(Down(z), due', rx', w, y, c)
    BY <2>4, <2>6, <2>7, <2>9
  <2> QED  BY <2>8, <2>10, <2>11 DEF z
<1>11. CASE ~(oPhv.valid /\ oPhv.tail)
  <2>1. due' = d2 /\ got' = IF oPhv.valid THEN got + 1 ELSE got
    BY <1>11 DEF Sent
  <2>2. NextPlace = First'
    <3>1. NextPlace = [p |-> 1, k |-> got']
      BY <1>11, <2>1 DEF NextPlace, First, After
    <3> QED  BY <3>1 DEF First
  <2>3. oPhv'.valid <=> rden
    BY <1>2, <1>3
  <2>4. a = NextPlace'
    BY <1>3, <2>2, <2>3 DEF NextPlace
  <2>5. SentInv'
    <3>1. CASE rden
      <4>1. oPhv' = Front /\ (oMeta' <=> Front.start)
        <5>1. oPhv' = Front
          BY <1>3, <3>1
        <5>2. oMeta' <=> Front.start
          BY <1>3, <3>1, Zenon
        <5> QED  BY <5>1, <5>2
      <4>2. Carries(Front, First', due', rx')
        BY <1>8, <2>1, <2>2, <3>1
      <4> QED  BY <2>3, <3>1, <4>1, <4>2 DEF SentInv
    <3>2. CASE ~rden
      <4>1. ~oPhv.valid
        BY <1>2, <1>11, <3>2 DEF Begun
      <4> QED  BY <2>1, <2>3, <3>2, <4>1 DEF SentInv
    <3> QED  BY <3>1, <3>2
  <2>6. /\ Line(fifo', NextPlace', z, due', rx')
        /\ \A w \in BOOLEAN : \A y, c : Collecting(z, d2, rx', w, y, c) =>
                                          Collecting(z, due', rx', w, y, c)
    BY <1>9, <2>1, <2>4
  <2> QED  BY <1>5, <2>5, <2>6 DEF z
<1> QED  BY <1>10, <1>11

(* The invariant holds on every clock edge.                                *)
LEMMA CollectingEnd ==
  ASSUME NEW e \in Place, Collecting(e, due, rx, wren, din, cntPkt),
         NEW z, z = End(e)
  PROVE  /\ z \in Place /\ z.p = Len(due) + 1
         /\ wren => Carries(din, e, due, rx)
         /\ rx = <<>> => z.k = 0
         /\ rx # <<>> => /\ Len(rx) = Base(z.k) + cntPkt
                         /\ cntPkt # 0 => ~din.tail /\ (din.start <=> z.k = 0)
                         /\ \A s \in Slots : s < cntPkt => din.data[s] = rx[Pos(z.k, s)]
<1>1. z \in Place
  BY PlaceLemma DEF End
<1> QED  BY <1>1 DEF Collecting, End

LEMMA OrderStep ==
  ASSUME Fits, TypeOK, BacklogInv, SliceClock, SentInv,
         NEW e \in Place, Line(fifo, NextPlace, e, due, rx),
         wren => Carries(din, e, due, rx), End(e).p = Len(due) + 1,
         NEW more \in Seq(Seq(Tokens)), Sent(more),
         Grows(due, rx, due \o more, rx'),
         wren' \in BOOLEAN, Collecting(End(e), due \o more, rx', wren', din', cntPkt')
  PROVE  OrderInv'
<1>1. /\ SentInv'
      /\ \E e2 \in Place :
           /\ Line(fifo', NextPlace', e2, due', rx')
           /\ \A w \in BOOLEAN : \A y, c : Collecting(End(e), due \o more, rx', w, y, c) =>
                                             Collecting(e2, due', rx', w, y, c)
  BY LineStep
<1> QED  BY <1>1 DEF OrderInv

LEMMA PauseOrder ==
  ASSUME Fits, TypeOK, BacklogInv, OrderInv, Pause
  PROVE  OrderInv'
<1>1. /\ SliceClock /\ wren' = FALSE /\ cntPkt' = cntPkt /\ din' = din /\ rx' = rx
      /\ Sent(<<>>) /\ SentInv
  BY DEF Pause, OrderInv
<1>2. PICK e \in Place : /\ Line(fifo, NextPlace, e, due, rx)
                         /\ Collecting(e, due, rx, wren, din, cntPkt)
  BY DEF OrderInv
<1> DEFINE z == End(e)
<1>3. /\ z \in Place /\ z.p = Len(due) + 1
      /\ wren => Carries(din, e, due, rx)
      /\ rx = <<>> => z.k = 0
      /\ rx # <<>> => /\ Len(rx) = Base(z.k) + cntPkt
                      /\ cntPkt # 0 => ~din.tail /\ (din.start <=> z.k = 0)
                      /\ \A s \in Slots : s < cntPkt => din.data[s] = rx[Pos(z.k, s)]
  BY <1>2, CollectingEnd
<1>4. due \o <<>> = due /\ <<>> \in Seq(Seq(Tokens))
  BY DEF TypeOK
<1>5. Grows(due, rx, due \o <<>>, rx')
  BY <1>1, <1>4 DEF Grows, TypeOK, Pkt
<1> HIDE DEF z
<1>6. Collecting(z, due \o <<>>, rx', wren', din', cntPkt') /\ wren' \in BOOLEAN
  BY <1>1, <1>3, <1>4 DEF Collecting
<1> QED  BY <1>1, <1>2, <1>3, <1>4, <1>5, <1>6, OrderStep DEF z

LEMMA HeadOrder ==
  ASSUME Fits, TypeOK, BacklogInv, OrderInv,
         NEW t \in Tokens, NEW isConf \in BOOLEAN, HeadWord(t, isConf)
  PROVE  OrderInv'
<1>1. /\ SliceClock /\ wren' = FALSE /\ cntPkt' = 1 % PKT_NUM /\ rx' = <<t>> /\ rx = <<>>
      /\ Sent(<<>>) /\ SentInv
  BY DEF HeadWord, OrderInv
<1>2. PICK e \in Place : /\ Line(fifo, NextPlace, e, due, rx)
                         /\ Collecting(e, due, rx, wren, din, cntPkt)
  BY DEF OrderInv
<1> DEFINE z == End(e)
<1>3. z \in Place /\ z.p = Len(due) + 1 /\ (wren => Carries(din, e, due, rx)) /\ z.k = 0
  BY <1>1, <1>2, CollectingEnd
<1>4. due \o <<>> = due /\ <<>> \in Seq(Seq(Tokens))
  BY DEF TypeOK
<1>5. Grows(due, rx, due \o <<>>, rx')
  <2>1. Len(<<t>>) = 1 /\ <<t>> \in Seq(Tokens)
    OBVIOUS
  <2> QED  BY <1>1, <1>4, <2>1 DEF Grows, TypeOK
<1> HIDE DEF z
<1>6. din'.start /\ ~din'.tail /\ din'.data[0] = t
  <2>1. 0 \in Slots
    BY GenAssumption DEF Slots
  <2> QED  BY <2>1 DEF HeadWord, TypeOK, PhvSlice
<1>7. Collecting(z, due \o <<>>, rx', wren', din', cntPkt') /\ wren' \in BOOLEAN
  <2>1. cntPkt' = 1
    <3>1. 1 % PKT_NUM = 1
      BY GenAssumption
    <3> QED  BY <1>1, <3>1
  <2>2. Len(<<t>>) = Base(z.k) + cntPkt' /\ <<t>> # <<>>
    BY <1>3, <2>1, BaseLemma
  <2>3. ASSUME NEW s \in Slots, s < cntPkt' PROVE din'.data[s] = <<t>>[Pos(z.k, s)]
    <3>1. s = 0
      BY <2>1, <2>3, GenAssumption DEF Slots
    <3>2. Pos(z.k, s) = 1
      BY <1>3, <3>1, BaseLemma DEF Pos
    <3> QED  BY <1>6, <3>1, <3>2
  <2> QED  BY <1>1, <1>3, <1>4, <1>6, <2>2, <2>3 DEF Collecting
<1> QED  BY <1>1, <1>2, <1>3, <1>4, <1>5, <1>7, OrderStep DEF z

LEMMA BodyOrder ==
  ASSUME Fits, TypeOK, BacklogInv, OrderInv,
         NEW t \in Tokens, NEW tail \in BOOLEAN, BodyWord(t, tail)
  PROVE  OrderInv'
<1>1. /\ SliceClock /\ wren' = SliceReady(tail) /\ cntPkt' = NextSlot
      /\ rx # <<>> /\ rx' = (IF tail THEN <<>> ELSE Append(rx, t))
      /\ Sent(IF tail THEN <<Append(rx, t)>> ELSE <<>>) /\ SentInv
  BY DEF BodyWord, OrderInv
<1>2. PICK e \in Place : /\ Line(fifo, NextPlace, e, due, rx)
                         /\ Collecting(e, due, rx, wren, din, cntPkt)
  BY DEF OrderInv
<1> DEFINE z == End(e)
<1>3. /\ z \in Place /\ z.p = Len(due) + 1
      /\ wren => Carries(din, e, due, rx)
      /\ Len(rx) = Base(z.k) + cntPkt
      /\ cntPkt # 0 => ~din.tail /\ (din.start <=> z.k = 0)
      /\ \A s \in Slots : s < cntPkt => din.data[s] = rx[Pos(z.k, s)]
  BY <1>1, <1>2, CollectingEnd
<1> HIDE DEF z
<1> DEFINE q == Append(rx, t)
           K == Base(z.k)
<1>5. /\ rx \in Seq(Tokens) /\ Len(rx) \in Nat /\ q \in Seq(Tokens) /\ Len(q) = Len(rx) + 1
      /\ q[Len(rx) + 1] = t /\ \A i \in 1 .. Len(rx) : q[i] = rx[i]
      /\ due \in Seq(Seq(Tokens)) /\ Len(due) \in Nat
      /\ q # <<>>
  <2>1. /\ rx \in Seq(Tokens) /\ Len(rx) \in Nat /\ due \in Seq(Seq(Tokens)) /\ Len(due) \in Nat
    BY DEF TypeOK
  <2>2. q \in Seq(Tokens) /\ Len(q) = Len(rx) + 1
    BY <2>1
  <2>3. q[Len(rx) + 1] = t /\ \A i \in 1 .. Len(rx) : q[i] = rx[i]
    BY <2>1
  <2>4. q # <<>>
    <3> HIDE DEF q
    <3> QED  BY <2>1, <2>2, LenZero
  <2> QED  BY <2>1, <2>2, <2>3, <2>4
<1>6. /\ z.k \in Nat /\ z.p \in Nat /\ K \in Nat /\ Base(z.k + 1) = K + PKT_NUM
      /\ cntPkt \in Nat /\ cntPkt < PKT_NUM /\ PKT_NUM \in Nat /\ PKT_NUM >= 2 /\ cntPkt \in Slots
  <2>1. z.k \in Nat /\ z.p \in Nat
    BY <1>3, PlaceLemma
  <2>2. K \in Nat /\ Base(z.k + 1) = K + PKT_NUM
    BY <2>1, BaseLemma
  <2>3. cntPkt \in Nat /\ cntPkt < PKT_NUM /\ PKT_NUM \in Nat /\ PKT_NUM >= 2 /\ cntPkt \in Slots
    BY GenAssumption DEF TypeOK, Slots
  <2> QED  BY <2>1, <2>2, <2>3
<1>7. /\ din'.start <=> (cntPkt # 0 /\ din.start)
      /\ din'.tail <=> (tail \/ (cntPkt # 0 /\ din.tail))
      /\ \A s \in Slots : din'.data[s] = IF s = cntPkt THEN t ELSE din.data[s]
  BY DEF BodyWord, TypeOK, PhvSlice
<1>8. (din'.start <=> z.k = 0) /\ (din'.tail <=> tail)
  <2>1. cntPkt = 0 => z.k # 0
    <3>1. ASSUME cntPkt = 0, z.k = 0 PROVE FALSE
      <4>1. Len(rx) = 0
        BY <1>3, <3>1, BaseLemma
      <4> QED  BY <1>1, <1>5, <4>1
    <3> QED  BY <3>1
  <2> QED  BY <1>3, <1>7, <2>1
<1> HIDE DEF q, K
<1>9. ASSUME NEW s \in Slots, s <= cntPkt PROVE din'.data[s] = q[Pos(z.k, s)]
  <2>1. s \in Nat /\ Pos(z.k, s) = K + (s + 1)
    BY GenAssumption DEF Slots, Pos, K
  <2>2. CASE s = cntPkt
    <3>1. Pos(z.k, s) = Len(rx) + 1
      BY <1>3, <1>6, <2>1, <2>2 DEF K
    <3> QED  BY <1>5, <1>7, <2>2, <3>1 DEF q
  <2>3. CASE s # cntPkt
    <3>1. s < cntPkt
      BY <1>6, <1>9, <2>1, <2>3
    <3>2. Pos(z.k, s) \in 1 .. Len(rx)
      BY SMTT(20), <1>3, <1>5, <1>6, <2>1, <3>1 DEF K
    <3>3. din'.data[s] = rx[Pos(z.k, s)]
      BY <1>3, <1>7, <2>3, <3>1
    <3> QED  BY <1>5, <3>2, <3>3 DEF q
  <2> QED  BY <2>2, <2>3
<1>10. CASE tail
  <2> DEFINE more == <<q>>
             d2 == due \o more
  <2>1. /\ more \in Seq(Seq(Tokens)) /\ d2 \in Seq(Seq(Tokens)) /\ Len(d2) = Len(due) + 1
        /\ d2[Len(due) + 1] = q /\ \A n \in 1 .. Len(due) : d2[n] = due[n]
        /\ <<>> \in Seq(Tokens) /\ Len(<<>>) = 0
    BY <1>5
  <2>2. rx' = <<>> /\ Sent(more) /\ wren'
    BY <1>1, <1>10 DEF SliceReady, q
  <2> HIDE DEF more
  <2>3. Grows(due, rx, d2, rx')
    <3> HIDE DEF d2
    <3>1. Pkt(Len(due) + 1, d2, <<>>) = q
      BY <1>5, <2>1 DEF Pkt
    <3>2. Len(due) <= Len(d2) /\ Len(d2) # Len(due) /\ Len(rx) < Len(q)
      BY <1>5, <2>1
    <3> QED  BY <1>5, <2>1, <2>2, <3>1, <3>2 DEF Grows
  <2>4. Carries(din', z, d2, <<>>)
    <3> HIDE DEF d2
    <3>1. z.p \in 1 .. Len(d2) + 1 /\ z.p <= Len(d2) /\ d2[z.p] = q /\ Pkt(z.p, d2, <<>>) = q
      BY <1>3, <1>5, <1>6, <2>1 DEF Pkt
    <3>2. Base(z.k) < Len(q) /\ Len(q) <= Base(z.k + 1)
      BY <1>3, <1>5, <1>6 DEF K
    <3>3. ASSUME NEW s \in Slots, Pos(z.k, s) <= Len(q) PROVE din'.data[s] = q[Pos(z.k, s)]
      <4>1. s \in Nat /\ Pos(z.k, s) = K + (s + 1)
        BY GenAssumption DEF Slots, Pos, K
      <4>2. Len(q) = K + cntPkt + 1
        BY <1>3, <1>5 DEF K
      <4>3. s <= cntPkt
        BY <1>6, <3>3, <4>1, <4>2
      <4> QED  BY <1>9, <4>3
    <3> QED  BY <1>8, <1>10, <3>1, <3>2, <3>3 DEF Carries
  <2>5. Collecting(z, d2, rx', wren', din', cntPkt') /\ wren' \in BOOLEAN
    <3>1. After(z, din').p = z.p + 1 /\ After(z, din').k = 0
      BY <1>8, <1>10 DEF After
    <3>2. After(z, din').p = Len(d2) + 1
      BY <1>3, <2>1, <3>1
    <3> HIDE DEF d2
    <3>3. wren' \in BOOLEAN
      BY <1>1, <1>10 DEF SliceReady
    <3> QED  BY <2>2, <2>4, <3>1, <3>2, <3>3 DEF Collecting
  <2> QED  BY <1>1, <1>2, <1>3, <2>1, <2>2, <2>3, <2>5, OrderStep DEF z
<1>11. CASE ~tail
  <2>1. due \o <<>> = due /\ <<>> \in Seq(Seq(Tokens))
    BY <1>5
  <2>2. rx' = q /\ Sent(<<>>) /\ (wren' <=> cntPkt = PKT_NUM - 1) /\ wren' \in BOOLEAN
    BY <1>1, <1>11 DEF SliceReady, q
  <2>3. Grows(due, rx, due \o <<>>, rx')
    <3>1. Pkt(Len(due) + 1, due, q) = q
      BY <1>5 DEF Pkt
    <3>2. Len(rx) <= Len(q)
      BY <1>5
    <3> QED  BY <1>5, <2>1, <2>2, <3>1, <3>2 DEF Grows
  <2>4. Collecting(z, due, q, wren', din', cntPkt')
    <3>1. ASSUME wren' PROVE Collecting(z, due, q, wren', din', cntPkt')
      <4>1. cntPkt + 1 = PKT_NUM
        BY <1>6, <2>2, <3>1
      <4>2. cntPkt' = 0
        <5>1. PKT_NUM % PKT_NUM = 0
          BY <1>6
        <5> QED  BY <1>1, <4>1, <5>1 DEF NextSlot
      <4>3. Len(q) = Base(z.k + 1)
        <5>1. \A l, b, c, k \in Nat : l = b + c /\ c + 1 = k => l + 1 = b + k
          OBVIOUS
        <5>2. Len(rx) + 1 = K + PKT_NUM
          <6>1. Len(rx) = K + cntPkt
            BY <1>3 DEF K
          <6> QED  BY <1>5, <1>6, <4>1, <5>1, <6>1
        <5> QED  BY <1>5, <1>6, <5>2
      <4>4. Carries(din', z, due, q)
        <5>1. z.p \in 1 .. Len(due) + 1 /\ ~(z.p <= Len(due)) /\ Pkt(z.p, due, q) = q
          BY <1>3, <1>5, <1>6 DEF Pkt
        <5>2. ASSUME NEW s \in Slots PROVE s <= cntPkt
          BY <1>6, <4>1 DEF Slots
        <5>3. Base(z.k + 1) <= Len(q)
          BY <1>5, <4>3
        <5> QED  BY <1>8, <1>9, <1>11, <5>1, <5>2, <5>3 DEF Carries
      <4>5. After(z, din').p = z.p /\ After(z, din').k = z.k + 1
        BY <1>8, <1>11 DEF After
      <4>6. Len(q) = Base(z.k + 1) + 0
        BY <1>5, <4>3
      <4>7. \A s \in Slots : ~(s < 0)
        BY <1>6 DEF Slots
      <4> QED  BY <1>3, <1>5, <4>2, <4>4, <3>1, <4>5, <4>6, <4>7 DEF Collecting
    <3>2. ASSUME ~wren' PROVE Collecting(z, due, q, wren', din', cntPkt')
      <4>1. cntPkt + 1 < PKT_NUM
        BY <1>6, <2>2, <3>2
      <4>2. cntPkt' = cntPkt + 1
        <5>1. \A a, b \in Nat : a < b => a % b = a
          OBVIOUS
        <5>2. cntPkt + 1 \in Nat
          BY <1>6
        <5>3. (cntPkt + 1) % PKT_NUM = cntPkt + 1
          BY <1>6, <4>1, <5>1, <5>2
        <5> QED  BY <1>1, <5>3 DEF NextSlot
      <4>3. Len(q) = Base(z.k) + cntPkt'
        BY <1>3, <1>5, <1>6, <4>2 DEF K
      <4>4. ASSUME NEW s \in Slots, s < cntPkt' PROVE din'.data[s] = q[Pos(z.k, s)]
        <5>1. s <= cntPkt
          BY <1>6, <4>2, <4>4 DEF Slots
        <5> QED  BY <1>9, <5>1
      <4> QED  BY <1>3, <1>5, <1>8, <1>11, <3>2, <4>3, <4>4 DEF Collecting
    <3> QED  BY <3>1, <3>2
  <2>5. Collecting(z, due \o <<>>, rx', wren', din', cntPkt')
    BY <2>1, <2>2, <2>4
  <2> QED  BY <1>1, <1>2, <1>3, <2>1, <2>2, <2>3, <2>5, OrderStep DEF z
<1> QED  BY <1>10, <1>11

(* Nothing is on its way.                                                  *)
LEMMA EmptyLine ==
  ASSUME NEW e, e = [p |-> 1, k |-> 0]
  PROVE  /\ e \in Place /\ Line(<<>>, e, e, <<>>, <<>>)
         /\ \A x, c : Collecting(e, <<>>, <<>>, FALSE, x, c)
<1>1. e \in Place /\ e.p = 1 /\ e.k = 0 /\ Len(<<>>) = 0
  BY DEF Place
<1> DEFINE at == [i \in 1 .. Len(<<>>) + 1 |-> e]
<1>2. at \in [1 .. Len(<<>>) + 1 -> Place]
  BY <1>1
<1>3. at[1] = e /\ at[Len(<<>>) + 1] = e
  BY <1>1
<1>4. Placed(<<>>, at, <<>>, <<>>)
  <2>1. 1 .. Len(<<>>) = {}
    BY <1>1
  <2>2. \A i \in 1 .. Len(<<>>) + 1 : at[i].p = 1
    BY <1>1
  <2> HIDE DEF at
  <2> QED  BY <2>1, <2>2 DEF Placed
<1>5. Line(<<>>, e, e, <<>>, <<>>)
  BY <1>2, <1>3, <1>4 DEF Line
<1>6. \A x, c : Collecting(e, <<>>, <<>>, FALSE, x, c)
  BY <1>1 DEF Collecting
<1> QED  BY <1>1, <1>5, <1>6

(* A packet that has been begun is complete: its tail is in the FIFO.      *)
LEMMA PacketDue ==
  ASSUME TypeOK, BacklogInv, OrderInv, Begun
  PROVE  due # <<>>
<1>1. PICK m \in 0 .. Len(fifo) : WriteInv(m)
  BY DEF BacklogInv
<1>2. rden /\ ReadInv
  BY DEF BacklogInv, ReadInv
<1>3. fifo \in Seq(PhvSlice) /\ Len(fifo) \in Nat /\ m \in Nat /\ m > 0 /\ m <= Len(fifo)
  BY <1>1, <1>2, Numbers
<1>4. m \in 1 .. Len(fifo) /\ fifo[m].tail
  BY <1>1, <1>3 DEF WriteInv, LastTail
<1>5. PICK e \in Place : Line(fifo, NextPlace, e, due, rx)
  BY DEF OrderInv
<1>6. PICK at \in [1 .. Len(fifo) + 1 -> Place] : Placed(fifo, at, due, rx)
  BY <1>5 DEF Line
<1>7. Carries(fifo[m], at[m], due, rx)
  BY <1>4, <1>6 DEF Placed
<1>8. at[m].p \in 1 .. Len(due) + 1 /\ at[m].p <= Len(due)
  BY <1>4, <1>7 DEF Carries
<1>9. due \in Seq(Seq(Tokens)) /\ Len(due) \in Nat
  BY DEF TypeOK
<1> QED  BY <1>8, <1>9

LEMMA Order ==
  ASSUME Fits
  PROVE  Spec => []OrderInv
<1>1. Init => OrderInv
  <2> SUFFICES ASSUME Init PROVE OrderInv
    OBVIOUS
  <2>1. /\ fifo = <<>> /\ wren = FALSE /\ rx = <<>> /\ due = <<>> /\ got = 0
        /\ oPhv = NoSlice
    BY DEF Init
  <2>2. SentInv /\ NextPlace = [p |-> 1, k |-> 0]
    BY <2>1 DEF SentInv, NextPlace, First, NoSlice
  <2> DEFINE e == [p |-> 1, k |-> 0]
  <2>3. e \in Place /\ Line(<<>>, e, e, <<>>, <<>>)
        /\ \A x, c : Collecting(e, <<>>, <<>>, FALSE, x, c)
    BY EmptyLine
  <2> QED  BY <2>1, <2>2, <2>3 DEF OrderInv
<1>2. TypeOK /\ BacklogInv /\ OrderInv /\ [Next]_vars => OrderInv'
  <2> SUFFICES ASSUME TypeOK, BacklogInv, OrderInv, [Next]_vars PROVE OrderInv'
    OBVIOUS
  <2>1. CASE Pause
    BY <2>1, PauseOrder
  <2>2. ASSUME NEW t \in Tokens, NEW isConf \in BOOLEAN, HeadWord(t, isConf)
        PROVE  OrderInv'
    BY <2>2, HeadOrder
  <2>3. ASSUME NEW t \in Tokens, NEW tail \in BOOLEAN, BodyWord(t, tail)
        PROVE  OrderInv'
    BY <2>3, BodyOrder
  <2>4. CASE Reset
    <3>1. /\ fifo' = <<>> /\ wren' = FALSE /\ rx' = <<>> /\ due' = <<>> /\ got' = 0
          /\ ~oPhv'.valid
      BY <2>4 DEF Reset, TypeOK, PhvSlice
    <3>2. SentInv' /\ NextPlace' = [p |-> 1, k |-> 0]
      BY <3>1 DEF SentInv, NextPlace, First
    <3> DEFINE e == [p |-> 1, k |-> 0]
    <3>3. e \in Place /\ Line(<<>>, e, e, <<>>, <<>>)
          /\ \A x, c : Collecting(e, <<>>, <<>>, FALSE, x, c)
      BY EmptyLine
    <3> QED  BY <3>1, <3>2, <3>3 DEF OrderInv
  <2>5. CASE UNCHANGED vars
    BY <2>5 DEF vars, wordVars, sliceVars, history, OrderInv, SentInv, NextPlace, First
  <2> QED  BY <2>1, <2>2, <2>3, <2>4, <2>5 DEF Next, Clock
<1> QED  BY <1>1, <1>2, TypeCorrect, Backlog, PTL DEF Spec

(* What is sent is a slice of the first complete packet.                   *)
SlicesInside == oPhv.valid => got + 1 <= NumSlices(due[1])

LEMMA Sending ==
  ASSUME Fits
  PROVE  Spec => [](PacketsInOrder /\ SlicesInside)
<1>1. TypeOK /\ BacklogInv /\ OrderInv => PacketsInOrder /\ SlicesInside
  <2> SUFFICES ASSUME TypeOK, BacklogInv, OrderInv, oPhv.valid PROVE PacketsInOrder /\ SlicesInside
    BY DEF PacketsInOrder, SlicesInside
  <2>1. Carries(oPhv, First, due, rx) /\ (oMeta <=> oPhv.start)
    BY DEF OrderInv, SentInv
  <2>2. First.p = 1 /\ First.k = got /\ got \in Nat /\ due \in Seq(Seq(Tokens)) /\ Len(due) \in Nat
    BY DEF First, TypeOK
  <2>3. due # <<>>
    <3>1. CASE oPhv.tail
      <4>1. 1 <= Len(due)
        BY <2>1, <2>2, <3>1 DEF Carries
      <4> QED  BY <2>2, <4>1
    <3>2. CASE ~oPhv.tail
      BY <3>2, PacketDue DEF Begun
    <3> QED  BY <3>1, <3>2
  <2> DEFINE packet == due[1]
  <2>4. 1 <= Len(due) /\ packet \in Seq(Tokens) /\ Len(packet) \in Nat
        /\ Pkt(1, due, rx) = packet
    <3>1. 1 \in 1 .. Len(due)
      BY <2>2, <2>3
    <3> QED  BY <2>2, <3>1 DEF Pkt
  <2> HIDE DEF packet
  <2>5. /\ oPhv.tail <=> got = NumSlices(packet) - 1
        /\ got + 1 <= NumSlices(packet)
    <3>1. NumSlices(packet) = Slices(Len(packet)) /\ Slices(Len(packet)) \in Nat
      BY <2>4, SlicesLemma DEF NumSlices, Slices
    <3>2. got + 1 \in Nat /\ Base(got) \in Nat /\ Base(got + 1) = Base(got) + PKT_NUM
          /\ Base(got + 1) \in Nat /\ PKT_NUM \in Nat
      <4>1. got + 1 \in Nat
        BY <2>2
      <4> QED  BY <2>2, <4>1, BaseLemma, GenAssumption
    <3>3. CASE oPhv.tail
      <4>1. Base(got) < Len(packet) /\ Len(packet) <= Base(got + 1)
        BY <2>1, <2>2, <3>3 DEF Carries, packet
      <4> DEFINE r == Len(packet) - Base(got)
      <4>2. r \in 1 .. PKT_NUM /\ Len(packet) = Base(got) + r
        BY <2>4, <3>2, <4>1
      <4> HIDE DEF r
      <4>3. Slices(Len(packet)) = got + 1
        BY <2>2, <4>2, SlicesLemma
      <4>4. got + 1 <= got + 1
        BY <2>2
      <4> QED  BY <2>2, <3>1, <3>3, <4>3, <4>4
    <3>4. CASE ~oPhv.tail
      <4>1. Base(got + 1) < Len(packet)
        BY <2>1, <2>2, <2>4, <3>4 DEF Carries, packet
      <4>2. got + 1 + 1 <= Slices(Len(packet))
        BY <2>4, <3>2, <4>1, SlicesLemma
      <4> QED  BY <2>2, <3>1, <3>4, <4>2
    <3> QED  BY <3>3, <3>4
  <2>6. ASSUME NEW s \in Slots, got * PKT_NUM + s + 1 <= Len(packet)
        PROVE  oPhv.data[s] = packet[got * PKT_NUM + s + 1]
    <3>1. got * PKT_NUM + s + 1 = Pos(got, s)
      <4>1. \A b, x \in Nat : b + x + 1 = b + (x + 1)
        OBVIOUS
      <4>2. got * PKT_NUM = Base(got) /\ Base(got) \in Nat /\ s \in Nat
        BY <2>2, BaseLemma, GenAssumption DEF Base, Slots
      <4> QED  BY <4>1, <4>2 DEF Pos
    <3>2. oPhv.data[s] = packet[Pos(got, s)]
      BY <2>1, <2>2, <2>4, <2>6, <3>1 DEF Carries
    <3> QED  BY <3>1, <3>2
  <2>7. oPhv.start <=> got = 0
    BY <2>1, <2>2 DEF Carries
  <2> QED  BY <2>1, <2>3, <2>5, <2>6, <2>7 DEF PacketsInOrder, SlicesInside, packet
<1> QED  BY <1>1, TypeCorrect, Backlog, Order, PTL

(* For packets that fit: every packet is sent once, in the order of        *)
(* arrival, from its start slice to its tail slice, each word in its place.*)
THEOREM InOrder ==
  ASSUME Fits
  PROVE  Spec => []PacketsInOrder
<1>1. PacketsInOrder /\ SlicesInside => PacketsInOrder
  OBVIOUS
<1> QED  BY <1>1, Sending, PTL
=============================================================================
