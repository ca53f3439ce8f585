-------------------------- MODULE EncapDecapProofs --------------------------
(* Theorems about Encap_Head and Decap_Head, for slices of any width,      *)
(* packets of any length, any requests and any slice counter.              *)
EXTENDS EncapDecap, SequenceTheorems, TLAPS

-----------------------------------------------------------------------------
(* The units of a packet as one row: unit u of slice k, counted from 0.    *)
LEMMA FlatAt ==
  ASSUME NEW q, NEW k \in Nat, NEW u \in UnitIds
  PROVE  /\ Flat(q, k * CANDI_NUM + u) = IF k < Len(q) THEN q[k + 1][u] ELSE Zero
         /\ (k * CANDI_NUM + u) % CANDI_NUM = u
<1> DEFINE n == k * CANDI_NUM + u
           d == n \div CANDI_NUM
           r == n % CANDI_NUM
<1>1. CANDI_NUM \in Nat \ {0} /\ u \in 0 .. CANDI_NUM - 1 /\ n \in Int
  BY WidthAssumption DEF UnitIds
<1>2. n = CANDI_NUM * d + r /\ d \in Int /\ r \in 0 .. CANDI_NUM - 1
  BY <1>1
<1>3. n = CANDI_NUM * k + u
  BY <1>1
<1> HIDE DEF n, d, r
<1> DEFINE m == d - k
<1>4. CANDI_NUM * m = u - r
  <2>1. CANDI_NUM * m = CANDI_NUM * d - CANDI_NUM * k
    BY <1>1, <1>2
  <2> QED  BY <1>1, <1>2, <1>3, <2>1
<1>5. m \in Int /\ CANDI_NUM * m < CANDI_NUM /\ CANDI_NUM * m > -CANDI_NUM
  BY <1>1, <1>2, <1>4
<1>6. d = k + m
  BY <1>2
<1> HIDE DEF m
<1>7. /\ m >= 1 => CANDI_NUM * m >= CANDI_NUM
      /\ m <= -1 => CANDI_NUM * m <= -CANDI_NUM
  BY <1>1, <1>5
<1>8. m = 0
  BY <1>1, <1>5, <1>7
<1>9. d = k /\ r = u
  BY <1>1, <1>2, <1>4, <1>6, <1>8
<1> QED  BY <1>9 DEF Flat, n, d, r

(* A place in an earlier slice is in front of one in a later slice.        *)
LEMMA RowOrder ==
  ASSUME NEW k \in Nat, NEW m \in Nat
  PROVE  /\ k * CANDI_NUM \in Nat
         /\ (k + 1) * CANDI_NUM = k * CANDI_NUM + CANDI_NUM
         /\ k < m => k * CANDI_NUM + CANDI_NUM <= m * CANDI_NUM
<1>1. CANDI_NUM \in Nat \ {0}
  BY WidthAssumption
<1>2. k * CANDI_NUM \in Nat /\ (k + 1) * CANDI_NUM = k * CANDI_NUM + CANDI_NUM
  BY <1>1
<1>3. ASSUME k < m PROVE k * CANDI_NUM + CANDI_NUM <= m * CANDI_NUM
  <2>1. m - k - 1 \in Nat
    BY <1>3
  <2>2. (m - k - 1) * CANDI_NUM >= 0
    BY <1>1, <2>1
  <2>3. (m - k - 1) * CANDI_NUM = m * CANDI_NUM - k * CANDI_NUM - CANDI_NUM
    BY <1>1
  <2> QED  BY <1>1, <2>2, <2>3
<1> QED  BY <1>2, <1>3

(* A slice that is behind the one of the field lies behind the field.      *)
LEMMA BehindField ==
  ASSUME NEW A \in Nat, NEW B \in Nat, NEW u \in Nat, NEW off \in Nat, NEW n \in Nat,
         A + CANDI_NUM <= B, off + n < CANDI_NUM
  PROVE  ~(B + u < A + off) /\ ~(B + u < A + off + (n + 1))
<1>1. CANDI_NUM \in Nat
  BY WidthAssumption
<1> QED  BY <1>1

(* A unit moved past the end of its slice is one of the next slice.        *)
LEMMA PastSlice ==
  ASSUME NEW K \in Nat, NEW u \in UnitIds, NEW n \in UnitIds, ~(u + n < CANDI_NUM)
  PROVE  /\ u + n - CANDI_NUM \in UnitIds
         /\ K + u + n = (K + CANDI_NUM) + (u + n - CANDI_NUM)
<1>1. CANDI_NUM \in Nat /\ UnitIds = 0 .. CANDI_NUM - 1
  BY WidthAssumption DEF UnitIds
<1> QED  BY <1>1

(* A number with a remainder.                                              *)
LEMMA ModUnique ==
  ASSUME NEW n \in Nat \ {0}, NEW d \in Int, NEW r \in 0 .. n - 1, NEW a \in Int,
         a = n * d + r
  PROVE  a % n = r
<1> DEFINE e == a \div n
           s == a % n
<1>1. a = n * e + s /\ e \in Int /\ s \in 0 .. n - 1
  OBVIOUS
<1> HIDE DEF e, s
<1> DEFINE m == e - d
<1>2. m \in Int /\ n * m = n * e - n * d
  BY <1>1
<1>3. n * m = r - s
  BY <1>1, <1>2
<1> HIDE DEF m
<1>4. n * m < n /\ n * m > -n
  BY <1>1, <1>3
<1>5. /\ m >= 1 => n * m >= n
      /\ m <= -1 => n * m <= -n
  BY <1>2
<1>6. m = 0
  BY <1>2, <1>4, <1>5
<1>7. r = s
  BY <1>1, <1>3, <1>6
<1> QED  BY <1>7 DEF s

LEMMA ModMultiple ==
  ASSUME NEW n \in Nat \ {0}, NEW d \in Int, NEW a \in Int, a = n * d
  PROVE  a % n = 0
<1> DEFINE z == 0
<1>1. z \in 0 .. n - 1 /\ a = n * d + z
  OBVIOUS
<1>2. z = 0
  OBVIOUS
<1> HIDE DEF z
<1> QED  BY <1>1, <1>2, ModUnique

(* The place of a unit in its block is that of its slice.                  *)
LEMMA BlockAt ==
  ASSUME NEW k \in Nat, NEW u \in UnitIds
  PROVE  /\ k % SliceNumMod \in 0 .. SliceNumMod - 1
         /\ k % SliceNumMod > 0 => k > 0
         /\ InBlock(k * CANDI_NUM + u) = (k % SliceNumMod) * CANDI_NUM + u
<1> DEFINE M == SliceNumMod
           C == CANDI_NUM
           d == k \div M
           c == k % M
<1>1. C \in Nat \ {0} /\ u \in 0 .. C - 1 /\ M \in Nat \ {0}
  BY WidthAssumption, RequestAssumption DEF UnitIds
<1>2. k = M * d + c /\ d \in Int /\ c \in 0 .. M - 1
  BY <1>1
<1>3. c > 0 => k > 0
  <2>1. k = 0 => c = 0
    BY <1>1
  <2> QED  BY <2>1
<1> HIDE DEF d, c
<1>4. c * C \in Nat /\ c * C + C <= M * C /\ M * C \in Nat \ {0}
  <2>1. c \in Nat /\ M \in Nat /\ c < M
    BY <1>1, <1>2
  <2>2. c * C \in Nat /\ c * C + C <= M * C
    BY <2>1, RowOrder
  <2>3. M * C \in Nat
    BY <1>1
  <2> HIDE DEF M, C
  <2> QED  BY <1>1, <2>2, <2>3
<1>5. k * C = (M * C) * d + c * C
  <2>1. k * C = (M * d + c) * C
    BY <1>2
  <2>2. (M * d + c) * C = (M * C) * d + c * C
    BY <1>1, <1>2
  <2> QED  BY <2>1, <2>2
<1>6. (k * C + u) % (M * C) = c * C + u
  <2> DEFINE L == M * C
             B == c * C
             X == k * C
  <2>1. L \in Nat \ {0} /\ B \in Nat /\ B + C <= L /\ X \in Int /\ X = L * d + B
    BY <1>1, <1>4, <1>5
  <2> HIDE DEF L, B, X
  <2>2. B + u \in 0 .. L - 1 /\ X + u \in Int
    BY <1>1, <2>1
  <2>3. X + u = L * d + (B + u)
    <3>1. L * d \in Int
      BY <1>2, <2>1
    <3> QED  BY <1>1, <2>1, <3>1
  <2>4. (X + u) % L = B + u
    <3> DEFINE Y == X + u
               R == B + u
    <3>1. d \in Int /\ L \in Nat \ {0} /\ Y \in Int /\ R \in 0 .. L - 1 /\ Y = L * d + R
      BY <1>2, <2>1, <2>2, <2>3
    <3> HIDE DEF Y, R
    <3>2. Y % L = R
      BY <3>1, ModUnique
    <3> QED  BY <3>2 DEF Y, R
  <2> QED  BY <2>4 DEF L, B, X
<1> QED  BY <1>2, <1>3, <1>6 DEF InBlock, c

-----------------------------------------------------------------------------
(* Constants and movers keep the widths of slices.                         *)
LEMMA SliceTypes ==
  /\ ZeroData \in Data /\ ZeroSlice \in Slice
  /\ \A d \in Data, b, t \in BOOLEAN : TaggedSlice(d, b, t) \in Slice
  /\ \A pre, next \in Data, s \in UnitIds : ShiftedData(pre, next, s) \in Data
<1>1. ZeroData \in Data /\ ZeroSlice \in Slice
  BY WidthAssumption DEF ZeroData, Data, Unit, Word, Zero, ZeroSlice, Slice, UnitIds
<1>2. \A d \in Data, b, t \in BOOLEAN : TaggedSlice(d, b, t) \in Slice
  BY WidthAssumption DEF TaggedSlice, Slice, UnitIds
<1>3. ASSUME NEW pre \in Data, NEW next \in Data, NEW s \in UnitIds
      PROVE  ShiftedData(pre, next, s) \in Data
  <2>1. \A u \in UnitIds : u + s < CANDI_NUM => u + s \in UnitIds
    BY WidthAssumption DEF UnitIds
  <2>2. \A u \in UnitIds : ~(u + s < CANDI_NUM) => u + s - CANDI_NUM \in UnitIds
    BY WidthAssumption DEF UnitIds
  <2> QED  BY <2>1, <2>2 DEF ShiftedData, Data
<1> QED  BY <1>1, <1>2, <1>3

(* One clock keeps the widths of the registers.                            *)
LEMMA ClockType ==
  ASSUME enc \in EncapRegs, dec \in DecapRegs,
         NEW h \in Slice, NEW m \in Slice, NEW r \in Request
  PROVE  EncapClock(h, m, r) \in EncapRegs /\ DecapClock(h, m, r) \in DecapRegs
<1>1. ASSUME NEW c \in 0 .. SliceNumMod - 1 PROVE NextCnt(c, m) \in 0 .. SliceNumMod - 1
  <2>1. 1 + c \in Nat /\ SliceNumMod \in Nat \ {0}
    BY RequestAssumption
  <2> QED  BY <2>1 DEF NextCnt
<1>2. MovedRight \in Data
  <2>1. CANDI_NUM - 1 - enc.request.length \in UnitIds
    BY WidthAssumption DEF EncapRegs, Request, UnitIds
  <2> QED  BY <2>1, SliceTypes DEF MovedRight, EncapRegs, Slice
<1>3. MovedLeft(m) \in Data
  BY SliceTypes DEF MovedLeft, DecapRegs, Slice, Request
<1>4. EncapMeta \in Slice
  <2> DEFINE d == [u \in UnitIds |-> IF enc.offsetAddLen < u THEN MovedRight[u]
                     ELSE IF enc.request.dataOffset <= u THEN enc.request.field[u]
                     ELSE enc.preMeta.data[u]]
  <2>1. d \in Data
    BY <1>2 DEF EncapRegs, Slice, Request, Data
  <2> HIDE DEF d
  <2>2. [enc.preMeta EXCEPT !.data = d] \in Slice
    BY <2>1 DEF EncapRegs, Slice
  <2>3. [enc.preMeta EXCEPT !.data = MovedRight, !.start = FALSE] \in Slice
    BY <1>2 DEF EncapRegs, Slice
  <2> QED  BY <2>2, <2>3 DEF EncapMeta, EncapRegs, d
<1>5. DecapMeta(m) \in Slice
  <2> DEFINE d == [u \in UnitIds |-> IF dec.request.dataOffset <= u THEN MovedLeft(m)[u]
                     ELSE dec.preMeta.data[u]]
  <2>1. d \in Data
    BY <1>3 DEF DecapRegs, Slice, Data
  <2> HIDE DEF d
  <2>2. [dec.preMeta EXCEPT !.data = d] \in Slice
    BY <2>1 DEF DecapRegs, Slice
  <2>3. [dec.preMeta EXCEPT !.data = MovedLeft(m), !.start = FALSE] \in Slice
    BY <1>3 DEF DecapRegs, Slice
  <2> QED  BY <2>2, <2>3 DEF DecapMeta, DecapRegs, d
<1>6. EncapHeadOut(h) \in Slice
  <2>1. ShiftedData(enc.preHead.data, h.data, enc.request.headShift) \in Data
    BY SliceTypes DEF EncapRegs, Slice, Request
  <2> QED  BY <2>1 DEF EncapHeadOut, EncapRegs, Slice
<1>7. r.dataOffset + r.length \in 0 .. 2 * CANDI_NUM - 2
  BY WidthAssumption DEF Request, UnitIds
<1>8. EncapClock(h, m, r) \in EncapRegs
  BY <1>1, <1>4, <1>6, <1>7 DEF EncapClock, EncapRegs
<1>9. DecapClock(h, m, r) \in DecapRegs
  BY <1>1, <1>5 DEF DecapClock, DecapRegs
<1> QED  BY <1>8, <1>9

(* The registers of Encap_Head and Decap_Head keep their widths.           *)
THEOREM TypeCorrect == Spec => []TypeOK
<1>1. Init => TypeOK
  <2> SUFFICES ASSUME NEW r \in Requests,
                 enc = [preHead |-> ZeroSlice, head |-> ZeroSlice, prePreMeta |-> ZeroSlice,
                        preMeta |-> ZeroSlice, meta |-> ZeroSlice, cntSlice |-> 0,
                        request |-> r, offsetAddLen |-> r.dataOffset + r.length],
                 dec = [preHead |-> ZeroSlice, head |-> ZeroSlice, preMeta |-> ZeroSlice,
                        meta |-> ZeroSlice, cntSlice |-> 0, request |-> r],
                 cur = [slices |-> <<>>, request |-> r], prev = cur
               PROVE  TypeOK
    BY DEF Init
  <2>1. r \in Request /\ 0 \in 0 .. SliceNumMod - 1
    BY RequestAssumption
  <2>2. r.dataOffset + r.length \in 0 .. 2 * CANDI_NUM - 2
    BY <2>1, WidthAssumption DEF Request, UnitIds
  <2>3. <<>> \in Seq(Data)
    OBVIOUS
  <2>4. enc \in EncapRegs
    BY <2>1, <2>2, SliceTypes DEF EncapRegs
  <2>5. dec \in DecapRegs
    BY <2>1, SliceTypes DEF DecapRegs
  <2> QED  BY <2>1, <2>3, <2>4, <2>5 DEF TypeOK
<1>2. TypeOK /\ [Next]_vars => TypeOK'
  <2> SUFFICES ASSUME TypeOK, [Next]_vars PROVE TypeOK'
    OBVIOUS
  <2>0. cur.request \in Request /\ cur.slices \in Seq(Data)
    BY DEF TypeOK
  <2>1. CASE Gap
    BY <2>0, <2>1, ClockType, SliceTypes DEF Gap, Clock, TypeOK
  <2>2. ASSUME NEW d \in DataInputs, NEW tail \in BOOLEAN, NextSlice(d, tail)
        PROVE  TypeOK'
    <3>1. d \in Data /\ TaggedSlice(d, FALSE, tail) \in Slice
      BY SliceTypes, RequestAssumption
    <3>2. Append(cur.slices, d) \in Seq(Data)
      BY <2>0, <3>1
    <3>3. cur' \in [slices : Seq(Data), request : Request]
      BY <2>0, <2>2, <3>2 DEF NextSlice, TypeOK
    <3> QED  BY <2>0, <2>2, <3>1, <3>3, ClockType, SliceTypes DEF NextSlice, Clock, TypeOK
  <2>3. ASSUME NEW d \in DataInputs, NEW tail \in BOOLEAN,
               NEW head \in HeadInputs, NEW r \in Requests,
               StartSlice(head, d, tail, r)
        PROVE  TypeOK'
    <3>1. /\ d \in Data /\ head \in Data /\ r \in Request
          /\ TaggedSlice(d, TRUE, tail) \in Slice /\ TaggedSlice(head, TRUE, TRUE) \in Slice
      BY SliceTypes, RequestAssumption
    <3>2. cur' \in [slices : Seq(Data), request : Request]
      BY <2>3, <3>1 DEF StartSlice
    <3> QED  BY <2>3, <3>1, <3>2, ClockType DEF StartSlice, Clock, TypeOK
  <2>4. CASE UNCHANGED vars
    BY <2>4 DEF TypeOK, vars
  <2> QED  BY <2>1, <2>2, <2>3, <2>4 DEF Next
<1> QED  BY <1>1, <1>2, PTL DEF Spec

-----------------------------------------------------------------------------
(* What the input registers of both hold: the last slice of the history,   *)
(* the one before it, its number and the request of its own packet.        *)
InputInv ==
  /\ dec.preMeta = enc.preMeta
  /\ enc.request = cur.request /\ dec.request = cur.request
  /\ enc.offsetAddLen = cur.request.dataOffset + cur.request.length
  /\ enc.preMeta.valid =>
       LET n == Len(cur.slices)
       IN  /\ n >= 1
           /\ enc.preMeta.data = cur.slices[n]
           /\ enc.preMeta.start <=> n = 1
           /\ n > 1 => enc.prePreMeta.data = cur.slices[n - 1]
           /\ enc.cntSlice = (n - 1) % SliceNumMod /\ dec.cntSlice = (n - 1) % SliceNumMod

(* The counter follows a slice's number around its range.                  *)
LEMMA CounterStep ==
  ASSUME NEW k \in Nat, NEW in, ~in.start, in.valid
  PROVE  NextCnt(k % SliceNumMod, in) = (k + 1) % SliceNumMod
<1> DEFINE M == SliceNumMod
           d == k \div M
           c == k % M
<1>1. M \in Nat \ {0}
  BY RequestAssumption
<1>2. k = M * d + c /\ d \in Int /\ c \in 0 .. M - 1
  BY <1>1
<1>3. NextCnt(c, in) = (1 + c) % M
  BY DEF NextCnt
<1> HIDE DEF M, d, c
<1>4. CASE 1 + c < M
  <2>1. k + 1 = M * d + (1 + c) /\ 1 + c = M * 0 + (1 + c) /\ 1 + c \in 0 .. M - 1
    BY <1>1, <1>2, <1>4
  <2>2. (k + 1) % M = 1 + c /\ (1 + c) % M = 1 + c
    BY <1>1, <1>2, <2>1, ModUnique
  <2> QED  BY <1>3, <2>2 DEF c, M
<1>5. CASE 1 + c = M
  <2>1. k + 1 = M * (d + 1) /\ 1 + c = M * 1
    <3>1. M * (d + 1) = M * d + M
      BY <1>1, <1>2
    <3> QED  BY <1>1, <1>2, <1>5, <3>1
  <2>2. (k + 1) % M = 0 /\ (1 + c) % M = 0
    <3>1. k + 1 \in Int /\ 1 + c \in Int /\ d + 1 \in Int /\ 1 \in Int
      BY <1>2
    <3>2. (k + 1) % M = 0
      <4> DEFINE e == d + 1
      <4>1. k + 1 = M * e /\ e \in Int
        BY <2>1, <3>1
      <4> HIDE DEF e
      <4> QED  BY <1>1, <3>1, <4>1, ModMultiple
    <3>3. (1 + c) % M = 0
      BY <1>1, <2>1, <3>1, ModMultiple
    <3> QED  BY <3>2, <3>3
  <2> QED  BY <1>3, <2>2 DEF c, M
<1> QED  BY <1>1, <1>2, <1>4, <1>5

LEMMA InputInvariant == Spec => []InputInv
<1>1. Init => InputInv
  BY DEF Init, InputInv, ZeroSlice
<1>2. TypeOK /\ InputInv /\ [Next]_vars => InputInv'
  <2> SUFFICES ASSUME TypeOK, InputInv, [Next]_vars PROVE InputInv'
    OBVIOUS
  <2>1. CASE Gap
    BY <2>1 DEF Gap, Clock, EncapClock, DecapClock, InputInv, ZeroSlice
  <2>2. ASSUME NEW d \in DataInputs, NEW tail \in BOOLEAN, NextSlice(d, tail)
        PROVE  InputInv'
    <3> DEFINE in == TaggedSlice(d, FALSE, tail)
    <3>1. d \in Data /\ in.valid /\ ~in.start /\ in.data = d
      BY RequestAssumption DEF TaggedSlice
    <3>2. PICK n \in Nat : n = Len(cur.slices)
      BY DEF TypeOK
    <3>3. /\ n >= 1 /\ enc.preMeta.valid
          /\ enc.preMeta.data = cur.slices[n]
          /\ enc.cntSlice = (n - 1) % SliceNumMod /\ dec.cntSlice = (n - 1) % SliceNumMod
      BY <2>2, <3>2 DEF InputInv, NextSlice
    <3>4. /\ cur'.slices = Append(cur.slices, d) /\ cur'.request = cur.request
      BY <2>2 DEF NextSlice, TypeOK
    <3>5. /\ Len(cur'.slices) = n + 1 /\ cur'.slices[n + 1] = d
          /\ cur'.slices[n] = cur.slices[n]
      BY <3>1, <3>2, <3>3, <3>4, AppendProperties DEF TypeOK
    <3>6. /\ enc'.preMeta = in /\ dec'.preMeta = in /\ enc'.prePreMeta = enc.preMeta
          /\ enc'.request = enc.request /\ dec'.request = dec.request
          /\ enc'.offsetAddLen = enc.offsetAddLen
          /\ enc'.cntSlice = NextCnt(enc.cntSlice, in)
          /\ dec'.cntSlice = NextCnt(dec.cntSlice, in)
      BY <2>2 DEF NextSlice, Clock, EncapClock, DecapClock, ZeroSlice
    <3>7. enc'.cntSlice = n % SliceNumMod /\ dec'.cntSlice = n % SliceNumMod
      <4> HIDE DEF in
      <4>1. n - 1 \in Nat /\ (n - 1) + 1 = n
        BY <3>3
      <4>2. NextCnt((n - 1) % SliceNumMod, in) = n % SliceNumMod
        BY <3>1, <4>1, CounterStep
      <4> QED  BY <3>3, <3>6, <4>2
    <3> HIDE DEF in
    <3>8. (n + 1) - 1 = n /\ n + 1 >= 1 /\ n + 1 > 1 /\ n + 1 # 1
      BY <3>2, <3>3
    <3> QED  BY <3>1, <3>3, <3>4, <3>5, <3>6, <3>7, <3>8 DEF InputInv
  <2>3. ASSUME NEW d \in DataInputs, NEW tail \in BOOLEAN,
               NEW head \in HeadInputs, NEW r \in Requests,
               StartSlice(head, d, tail, r)
        PROVE  InputInv'
    <3> DEFINE in == TaggedSlice(d, TRUE, tail)
    <3>1. in.valid /\ in.start /\ in.data = d
      BY DEF TaggedSlice
    <3>2. /\ enc'.preMeta = in /\ dec'.preMeta = in
          /\ enc'.request = r /\ dec'.request = r
          /\ enc'.offsetAddLen = r.dataOffset + r.length
          /\ enc'.cntSlice = 0 /\ dec'.cntSlice = 0 /\ 0 % SliceNumMod = 0
      BY <2>3, RequestAssumption, <3>1 DEF StartSlice, Clock, EncapClock, DecapClock, TaggedSlice, NextCnt
    <3>3. cur'.slices = <<d>> /\ cur'.request = r
      BY <2>3 DEF StartSlice
    <3>4. Len(cur'.slices) = 1 /\ cur'.slices[1] = d /\ 1 - 1 = 0
      BY <3>3
    <3> HIDE DEF in
    <3> QED  BY <3>1, <3>2, <3>3, <3>4 DEF InputInv
  <2>4. CASE UNCHANGED vars
    BY <2>4 DEF InputInv, vars
  <2> QED  BY <2>1, <2>2, <2>3, <2>4 DEF Next
<1> QED  BY <1>1, <1>2, TypeCorrect, PTL DEF Spec

-----------------------------------------------------------------------------
(* The slice that Encap_Head puts out on a clock is a slice of the packet  *)
(* with the field in it: in front of the field, around it and behind it.   *)
LEMMA EncapStep ==
  ASSUME TypeOK, InputInv, NEW k \in Nat, enc.preMeta.valid, k + 1 = Len(cur.slices),
         FieldFits(cur.request)
  PROVE  /\ EncapMeta.start <=> k = 0
         /\ \A u \in UnitIds : EncapMeta.data[u] = Encapsulated(cur, k * CANDI_NUM + u)
<1> DEFINE q == cur.slices
           c == k % SliceNumMod
           r == cur.request
           at == r.sliceOffset
           off == r.dataOffset
           len == r.length
<1>1. /\ CANDI_NUM \in Nat \ {0} /\ UnitIds = 0 .. CANDI_NUM - 1
      /\ at \in Nat /\ off \in UnitIds /\ len \in UnitIds /\ off + len < CANDI_NUM
  BY WidthAssumption, RequestAssumption DEF TypeOK, Request, FieldFits, UnitIds
<1>2. /\ enc.request = r /\ enc.cntSlice = c /\ enc.offsetAddLen = off + len
      /\ enc.preMeta.data = q[k + 1] /\ (enc.preMeta.start <=> k = 0)
      /\ k > 0 => enc.prePreMeta.data = q[k]
      /\ enc.preMeta \in Slice
  <2> DEFINE n == Len(q)
  <2>0. n = k + 1
    OBVIOUS
  <2>2. enc.request = r /\ enc.offsetAddLen = off + len
    BY DEF InputInv
  <2>3. /\ enc.preMeta.data = q[n] /\ (enc.preMeta.start <=> n = 1)
        /\ n > 1 => enc.prePreMeta.data = q[n - 1]
        /\ enc.cntSlice = (n - 1) % SliceNumMod
    BY DEF InputInv
  <2>4. enc.preMeta \in Slice
    BY DEF TypeOK, EncapRegs
  <2> HIDE DEF n
  <2>1. n - 1 = k /\ (n > 1 <=> k > 0) /\ (n = 1 <=> k = 0)
    BY <2>0
  <2> QED  BY <2>0, <2>1, <2>2, <2>3, <2>4
<1>3. ASSUME NEW u \in UnitIds
      PROVE  /\ Flat(q, k * CANDI_NUM + u) = q[k + 1][u]
             /\ (k * CANDI_NUM + u) % CANDI_NUM = u
  <2>1. k < Len(q)
    OBVIOUS
  <2> QED  BY <2>1, FlatAt
<1> DEFINE K == k * CANDI_NUM
           B == c * CANDI_NUM
           A == at * CANDI_NUM
<1>0. /\ c \in Nat /\ (c > 0 => k > 0)
      /\ \A u \in UnitIds : InBlock(K + u) = B + u
  <2>1. ASSUME NEW u \in UnitIds
        PROVE  c \in Nat /\ (c > 0 => k > 0) /\ InBlock(K + u) = B + u
    <3>1. /\ c \in 0 .. SliceNumMod - 1 /\ (c > 0 => k > 0)
          /\ InBlock(K + u) = B + u
      BY ZenonT(20), BlockAt
    <3>2. SliceNumMod \in Nat
      BY RequestAssumption
    <3> HIDE DEF c, K, B
    <3> QED  BY <3>1, <3>2
  <2>2. 0 \in UnitIds
    BY <1>1
  <2> HIDE DEF c, K, B
  <2> QED  BY <2>1, <2>2
<1> HIDE DEF c
<1>4. /\ K \in Nat /\ B \in Nat /\ A \in Nat /\ Place(r) = A + off
      /\ c < at => B + CANDI_NUM <= A
      /\ at < c => A + CANDI_NUM <= B
      /\ at = c => A = B
  BY <1>0, <1>1, RowOrder DEF Place
<1>5. ASSUME NEW u \in UnitIds, u > len \/ k > 0
      PROVE  MovedRight[u] = Flat(q, K + u - (len + 1))
  <2>1. CASE u > len
    <3>1. u - (len + 1) \in UnitIds /\ u + (CANDI_NUM - 1 - len) - CANDI_NUM = u - (len + 1)
          /\ ~(u + (CANDI_NUM - 1 - len) < CANDI_NUM)
      BY <1>1, <2>1
    <3>2. MovedRight[u] = q[k + 1][u - (len + 1)]
      BY <1>2, <3>1 DEF MovedRight, ShiftedData
    <3>3. K + u - (len + 1) = K + (u - (len + 1))
      BY <1>1, <1>4
    <3> QED  BY <1>3, <3>1, <3>2, <3>3
  <2>2. CASE u <= len /\ k > 0
    <3> DEFINE v == u + (CANDI_NUM - 1 - len)
    <3>1. v \in UnitIds /\ v < CANDI_NUM /\ v \in Int
      BY <1>1, <2>2
    <3>2. MovedRight[u] = q[k][v]
      BY <1>2, <2>2, <3>1 DEF MovedRight, ShiftedData
    <3>3. k - 1 \in Nat /\ (k - 1) + 1 = k /\ k - 1 < Len(q)
      BY <2>2
    <3>4. (k - 1) * CANDI_NUM + CANDI_NUM = K
      BY <3>3, RowOrder
    <3>5. (k - 1) * CANDI_NUM \in Nat
      BY <3>3, RowOrder
    <3>6. K + u - (len + 1) = (k - 1) * CANDI_NUM + v
      <4> DEFINE J == (k - 1) * CANDI_NUM
      <4>1. J \in Nat /\ J + CANDI_NUM = K
        BY <3>4, <3>5
      <4> HIDE DEF J
      <4>2. K + u - (len + 1) = J + v
        <5>1. /\ K \in Nat /\ u \in Nat /\ len \in Nat /\ CANDI_NUM \in Nat
              /\ v = u + (CANDI_NUM - 1 - len)
          BY <1>1, <1>4
        <5> HIDE DEF K, len, v
        <5> QED  BY <4>1, <5>1
      <4> QED  BY <4>2 DEF J
    <3>7. Flat(q, (k - 1) * CANDI_NUM + v) = q[k][v]
      BY <3>1, <3>3, FlatAt
    <3> QED  BY <3>2, <3>6, <3>7
  <2>3. u > len \/ (u <= len /\ k > 0)
    BY <1>1, <1>5
  <2> QED  BY <2>1, <2>2, <2>3
<1> HIDE DEF K, A, B
<1>6. CASE ~r.en \/ c < at
  <2>1. EncapMeta = enc.preMeta
    BY <1>2, <1>6 DEF EncapMeta
  <2>2. ASSUME NEW u \in UnitIds PROVE Encapsulated(cur, K + u) = Flat(q, K + u)
    <3>1. ~r.en \/ B + u < A + off
      BY <1>1, <1>4, <1>6
    <3> QED  BY <1>0, <1>4, <3>1 DEF Encapsulated
  <2> QED  BY <1>2, <1>3, <2>1, <2>2 DEF K
<1>7. CASE r.en /\ c = at
  <2>1. /\ EncapMeta.start <=> k = 0
        /\ \A u \in UnitIds : EncapMeta.data[u] =
             IF off + len < u THEN MovedRight[u]
             ELSE IF off <= u THEN r.field[u] ELSE q[k + 1][u]
    BY <1>1, <1>2, <1>7 DEF EncapMeta, Slice
  <2>2. ASSUME NEW u \in UnitIds PROVE EncapMeta.data[u] = Encapsulated(cur, K + u)
    <3>1. CASE u < off
      <4>1. B + u < A + off /\ ~(off + len < u) /\ ~(off <= u)
        BY <1>1, <1>4, <1>7, <3>1
      <4> QED  BY <1>0, <1>3, <1>4, <2>1, <4>1 DEF Encapsulated, K
    <3>2. CASE off <= u /\ u <= off + len
      <4>1. ~(B + u < A + off) /\ B + u < A + off + (len + 1) /\ ~(off + len < u)
        BY <1>1, <1>4, <1>7, <3>2
      <4>2. (K + u) % CANDI_NUM = u
        BY <1>3 DEF K
      <4> QED  BY <1>0, <1>4, <1>7, <2>1, <3>2, <4>1, <4>2 DEF Encapsulated
    <3>3. CASE off + len < u
      <4>1. ~(B + u < A + off) /\ ~(B + u < A + off + (len + 1)) /\ u > len
        BY <1>1, <1>4, <1>7, <3>3
      <4>2. Encapsulated(cur, K + u) = Flat(q, K + u - (len + 1))
        BY <1>0, <1>1, <1>4, <1>7, <4>1 DEF Encapsulated
      <4> QED  BY <1>5, <2>1, <3>3, <4>1, <4>2
    <3> QED  BY <1>1, <3>1, <3>2, <3>3
  <2> QED  BY <2>1, <2>2 DEF K
<1>8. CASE r.en /\ c > at
  <2>1. ~EncapMeta.start /\ EncapMeta.data = MovedRight
    BY <1>0, <1>1, <1>2, <1>8 DEF EncapMeta, Slice
  <2>2. k > 0 /\ k # 0
    BY <1>0, <1>1, <1>8
  <2>3. ASSUME NEW u \in UnitIds PROVE MovedRight[u] = Encapsulated(cur, K + u)
    <3>1. ~(B + u < A + off) /\ ~(B + u < A + off + (len + 1))
      <4>1. at < c /\ A + CANDI_NUM <= B /\ off + len < CANDI_NUM
        BY <1>1, <1>4, <1>8
      <4>2. B \in Nat /\ A \in Nat /\ u \in Nat /\ off \in Nat /\ len \in Nat
        BY <1>1, <1>4
      <4> HIDE DEF at, off, len, A, B
      <4> QED  BY ZenonT(20), <4>1, <4>2, BehindField
    <3>2. Encapsulated(cur, K + u) = Flat(q, K + u - (len + 1))
      <4>1. InBlock(K + u) = B + u /\ Place(r) = A + off
        BY <1>0, <1>4
      <4>2. r.en
        BY <1>8
      <4>3. /\ ~(InBlock(K + u) < Place(r))
            /\ ~(InBlock(K + u) < Place(r) + (len + 1))
        <5> HIDE DEF K, B, A, off, len
        <5> QED  BY <3>1, <4>1
      <4>4. K \in Nat /\ u \in Nat /\ len \in Nat /\ Place(r) \in Nat /\ InBlock(K + u) \in Nat
        BY <1>1, <1>4, <4>1
      <4> HIDE DEF K
      <4> QED  BY <4>2, <4>3, <4>4 DEF Encapsulated
    <3> QED  BY <1>5, <2>2, <3>2
  <2>4. EncapMeta.start <=> k = 0
    BY <2>1, <2>2
  <2>5. \A u \in UnitIds : EncapMeta.data[u] = Encapsulated(cur, K + u)
    BY <2>1, <2>3
  <2> QED  BY <2>4, <2>5 DEF K
<1> QED  BY <1>0, <1>1, <1>6, <1>7, <1>8

(* The slice that Decap_Head puts out on a clock is a slice of its packet  *)
(* without the removed units, if what enters on that clock is the packet's *)
(* next slice, or a gap behind its tail, or another packet, of which it    *)
(* then has units behind the packet's end.                                 *)
LEMMA DecapStep ==
  ASSUME TypeOK, InputInv, NEW k \in Nat, enc.preMeta.valid, k + 1 = Len(cur.slices),
         NEW in \in Slice, NEW p, p.request = cur.request,
         \/ p = cur /\ in = ZeroSlice
         \/ p = cur /\ in.start
         \/ p.slices = Append(cur.slices, in.data) /\ ~in.start
  PROVE  /\ DecapMeta(in).start <=> k = 0
         /\ \A u \in UnitIds :
              LET s == Source(p, k * CANDI_NUM + u)
              IN  (in.start => s < CANDI_NUM * Len(p.slices)) =>
                    DecapMeta(in).data[u] = Flat(p.slices, s)
<1> DEFINE q == cur.slices
           c == k % SliceNumMod
           r == cur.request
           at == r.sliceOffset
           off == r.dataOffset
           len == r.length
<1>1. /\ CANDI_NUM \in Nat \ {0} /\ UnitIds = 0 .. CANDI_NUM - 1
      /\ at \in Nat /\ off \in UnitIds /\ len \in UnitIds
  BY SMTT(20), WidthAssumption, RequestAssumption DEF TypeOK, Request, UnitIds
<1>2. /\ dec.request = r /\ dec.cntSlice = c
      /\ dec.preMeta.data = q[k + 1] /\ (dec.preMeta.start <=> k = 0)
      /\ dec.preMeta.valid /\ dec.preMeta \in Slice
  <2> DEFINE n == Len(q)
  <2>0. n = k + 1
    OBVIOUS
  <2>2. dec.request = r /\ dec.preMeta = enc.preMeta
    BY DEF InputInv
  <2>3. /\ enc.preMeta.data = q[n] /\ (enc.preMeta.start <=> n = 1)
        /\ dec.cntSlice = (n - 1) % SliceNumMod
    BY DEF InputInv
  <2>4. dec.preMeta \in Slice
    BY DEF TypeOK, DecapRegs
  <2> HIDE DEF n
  <2>1. n - 1 = k /\ (n = 1 <=> k = 0)
    BY <2>0
  <2> QED  BY <2>0, <2>1, <2>2, <2>3, <2>4
<1>3. p.slices[k + 1] = q[k + 1] /\ k < Len(p.slices)
  <2>1. q \in Seq(Data) /\ Len(q) = k + 1 /\ in.data \in Data
    BY DEF TypeOK, Slice
  <2>2. /\ Append(q, in.data)[k + 1] = q[k + 1] /\ Len(Append(q, in.data)) = k + 2
    BY <2>1, AppendProperties
  <2>3. CASE p = cur
    BY <2>1, <2>3
  <2>4. CASE p.slices = Append(q, in.data)
    BY <2>2, <2>4
  <2> QED  BY <2>3, <2>4
<1>4. \/ p = cur /\ in = ZeroSlice /\ ~(k + 1 < Len(p.slices))
      \/ p = cur /\ in.start /\ Len(p.slices) = k + 1
      \/ ~in.start /\ p.slices[k + 2] = in.data /\ k + 1 < Len(p.slices)
  <2>1. q \in Seq(Data) /\ Len(q) = k + 1 /\ in.data \in Data
    BY DEF TypeOK, Slice
  <2>2. /\ Append(q, in.data)[k + 2] = in.data /\ Len(Append(q, in.data)) = k + 2
    BY <2>1, AppendProperties
  <2>3. CASE p = cur
    BY <2>1, <2>3
  <2>4. CASE p.slices = Append(q, in.data) /\ ~in.start
    BY <2>2, <2>4
  <2> QED  BY <2>3, <2>4
<1> DEFINE K == k * CANDI_NUM
           B == c * CANDI_NUM
           A == at * CANDI_NUM
<1>0. /\ c \in Nat /\ (c > 0 => k > 0)
      /\ \A u \in UnitIds : InBlock(K + u) = B + u
  <2>1. ASSUME NEW u \in UnitIds
        PROVE  c \in Nat /\ (c > 0 => k > 0) /\ InBlock(K + u) = B + u
    <3>1. /\ c \in 0 .. SliceNumMod - 1 /\ (c > 0 => k > 0)
          /\ InBlock(K + u) = B + u
      BY ZenonT(20), BlockAt
    <3>2. SliceNumMod \in Nat
      BY RequestAssumption
    <3> HIDE DEF c, K, B
    <3> QED  BY <3>1, <3>2
  <2>2. 0 \in UnitIds
    BY <1>1
  <2> HIDE DEF c, K, B
  <2> QED  BY <2>1, <2>2
<1> HIDE DEF c
<1>5. /\ K \in Nat /\ B \in Nat /\ A \in Nat /\ Place(r) = A + off
      /\ c < at => B + CANDI_NUM <= A
      /\ at < c => A + CANDI_NUM <= B
      /\ at = c => A = B
  BY <1>0, <1>1, RowOrder DEF Place
<1>6. ASSUME NEW u \in UnitIds, in.start => K + u + len < CANDI_NUM * Len(p.slices)
      PROVE  MovedLeft(in)[u] = Flat(p.slices, K + u + len)
  <2>1. CASE u + len < CANDI_NUM
    <3>1. u + len \in UnitIds /\ K + u + len = K + (u + len)
      <4>1. u \in Nat /\ len \in Nat /\ K \in Nat
        BY <1>1, <1>5
      <4>2. u + len \in UnitIds
        BY <1>1, <2>1
      <4> HIDE DEF K
      <4> QED  BY <4>1, <4>2
    <3>2. MovedLeft(in)[u] = q[k + 1][u + len]
      BY <1>2, <2>1 DEF MovedLeft, ShiftedData
    <3>3. Flat(p.slices, K + (u + len)) = p.slices[k + 1][u + len]
      BY SMTT(20), <1>3, <3>1, FlatAt
    <3> QED  BY <1>3, <3>1, <3>2, <3>3
  <2>2. CASE ~(u + len < CANDI_NUM)
    <3> DEFINE v == u + len - CANDI_NUM
    <3>0. len \in UnitIds /\ K \in Nat
      BY <1>1, <1>5
    <3>1. v \in UnitIds
      BY <2>2, <3>0, PastSlice
    <3>2. MovedLeft(in)[u] = in.data[v]
      BY <1>2, <2>2 DEF MovedLeft, ShiftedData
    <3>3. (k + 1) * CANDI_NUM = K + CANDI_NUM
      BY RowOrder
    <3>4. K + u + len = (k + 1) * CANDI_NUM + v
      <4>1. K + u + len = (K + CANDI_NUM) + v
        <5> HIDE DEF K, len
        <5> QED  BY ZenonT(20), <2>2, <3>0, PastSlice DEF v
      <4> QED  BY <3>3, <4>1
    <3>5. Flat(p.slices, (k + 1) * CANDI_NUM + v) =
            IF k + 1 < Len(p.slices) THEN p.slices[k + 2][v] ELSE Zero
      <4>1. k + 1 \in Nat /\ (k + 1) + 1 = k + 2
        OBVIOUS
      <4> HIDE DEF v
      <4> QED  BY <3>1, <4>1, FlatAt
    <3>6. CASE in = ZeroSlice /\ ~(k + 1 < Len(p.slices))
      BY <3>1, <3>2, <3>4, <3>5, <3>6 DEF ZeroSlice, ZeroData
    <3>7. CASE in.start /\ Len(p.slices) = k + 1
      <4>1. CANDI_NUM * Len(p.slices) = K + CANDI_NUM
        BY <1>1, <3>3, <3>7
      <4>2. K + u + len < CANDI_NUM * Len(p.slices)
        BY <1>6, <3>7
      <4> HIDE DEF K
      <4> QED  BY SMTT(20), <1>1, <1>5, <2>2, <4>1, <4>2
    <3>8. CASE p.slices[k + 2] = in.data /\ k + 1 < Len(p.slices)
      BY <3>2, <3>4, <3>5, <3>8
    <3> QED  BY <1>4, <3>6, <3>7, <3>8
  <2> QED  BY <2>1, <2>2
<1>7. ASSUME NEW u \in UnitIds
      PROVE  q[k + 1][u] = Flat(p.slices, K + u)
  BY <1>3, FlatAt
<1> HIDE DEF K, A, B
<1> DEFINE Out(u) == (in.start => Source(p, K + u) < CANDI_NUM * Len(p.slices)) =>
                       DecapMeta(in).data[u] = Flat(p.slices, Source(p, K + u))
<1> SUFFICES (DecapMeta(in).start <=> k = 0) /\ \A u \in UnitIds : Out(u)
  BY DEF K
<1>8. CASE ~r.en \/ c < at
  <2>1. DecapMeta(in) = dec.preMeta
    BY <1>2, <1>8 DEF DecapMeta
  <2>2. ASSUME NEW u \in UnitIds PROVE Source(p, K + u) = K + u
    <3>1. ~r.en \/ ~(A + off <= B + u)
      BY <1>1, <1>5, <1>8
    <3> QED  BY <1>0, <1>5, <3>1 DEF Source
  <2> QED  BY <1>2, <1>7, <2>1, <2>2
<1>9. CASE r.en /\ c = at
  <2>1. /\ DecapMeta(in).start <=> k = 0
        /\ \A u \in UnitIds : DecapMeta(in).data[u] =
             IF off <= u THEN MovedLeft(in)[u] ELSE q[k + 1][u]
    BY <1>1, <1>2, <1>9 DEF DecapMeta, Slice
  <2>2. ASSUME NEW u \in UnitIds PROVE Out(u)
    <3>1. CASE u < off
      <4>1. ~(A + off <= B + u) /\ ~(off <= u)
        BY <1>1, <1>5, <1>9, <3>1
      <4>2. Source(p, K + u) = K + u
        BY <1>0, <1>5, <4>1 DEF Source
      <4> QED  BY <1>7, <2>1, <4>1, <4>2
    <3>2. CASE off <= u
      <4>1. A + off <= B + u
        BY <1>1, <1>5, <1>9, <3>2
      <4>2. Source(p, K + u) = K + u + len
        BY <1>0, <1>5, <1>9, <4>1 DEF Source
      <4> QED  BY <1>6, <2>1, <3>2, <4>2
    <3> QED  BY <1>1, <3>1, <3>2
  <2> QED  BY <2>1, <2>2
<1>10. CASE r.en /\ c > at
  <2>1. ~DecapMeta(in).start /\ DecapMeta(in).data = MovedLeft(in)
    BY <1>0, <1>1, <1>2, <1>10 DEF DecapMeta, Slice
  <2>2. k > 0 /\ k # 0
    BY <1>0, <1>1, <1>10
  <2>3. ASSUME NEW u \in UnitIds PROVE Out(u)
    <3>1. A + off <= B + u
      BY <1>1, <1>5, <1>10
    <3>2. Source(p, K + u) = K + u + len
      BY <1>0, <1>5, <1>10, <3>1 DEF Source
    <3> QED  BY <1>6, <2>1, <3>2
  <2>4. DecapMeta(in).start <=> k = 0
    BY <2>1, <2>2
  <2> HIDE DEF Out
  <2> QED  BY <2>3, <2>4
<1> QED  BY <1>0, <1>1, <1>8, <1>9, <1>10

-----------------------------------------------------------------------------
(* A slice leaves one clock after it entered, from the same registers.     *)
LEMMA OutputOf ==
  ASSUME TypeOK, InputInv, NEW h, NEW m \in Slice, NEW r, Clock(h, m, r)
  PROVE  /\ prev' = cur /\ enc'.meta = EncapMeta /\ dec'.meta = DecapMeta(m)
         /\ dec'.preMeta = m
         /\ enc'.meta.valid <=> enc.preMeta.valid
         /\ dec'.meta.valid <=> enc.preMeta.valid
         /\ LeavingSlice' = Len(cur.slices) - 1 /\ Len(cur.slices) \in Nat
         /\ enc.preMeta.valid => Len(cur.slices) - 1 \in Nat
BY DEF Clock, EncapClock, DecapClock, LeavingSlice, InputInv, TypeOK, EncapMeta,
       DecapMeta, EncapRegs, DecapRegs, Slice

(* Every slice of every packet leaves Encap_Head with its packet's own     *)
(* field in the place asked for and all units behind it moved.             *)
THEOREM Insertion == Spec => []FieldInserted
<1>1. Init => FieldInserted
  BY DEF Init, FieldInserted, ZeroSlice
<1>2. TypeOK /\ InputInv /\ FieldInserted /\ [Next]_vars => FieldInserted'
  <2> SUFFICES ASSUME TypeOK, InputInv, FieldInserted, [Next]_vars PROVE FieldInserted'
    OBVIOUS
  <2>1. ASSUME NEW h, NEW m \in Slice, NEW r, Clock(h, m, r) PROVE FieldInserted'
    <3> SUFFICES ASSUME enc'.meta.valid, FieldFits(cur.request)
                 PROVE  /\ enc'.meta.start <=> LeavingSlice' = 0
                        /\ \A u \in UnitIds :
                             enc'.meta.data[u] = Encapsulated(cur, LeavingSlice' * CANDI_NUM + u)
      BY <2>1, OutputOf DEF FieldInserted, FieldFits, Encapsulated, InBlock, Place, Flat
    <3> DEFINE k == Len(cur.slices) - 1
    <3>1. /\ enc'.meta = EncapMeta /\ enc.preMeta.valid /\ LeavingSlice' = k
          /\ k \in Nat /\ k + 1 = Len(cur.slices)
      BY <2>1, OutputOf
    <3> HIDE DEF k
    <3> QED  BY <3>1, EncapStep
  <2>2. CASE Gap
    BY <2>1, <2>2, SliceTypes DEF Gap
  <2>3. ASSUME NEW d \in DataInputs, NEW tail \in BOOLEAN, NextSlice(d, tail)
        PROVE  FieldInserted'
    BY <2>1, <2>3, SliceTypes, RequestAssumption DEF NextSlice
  <2>4. ASSUME NEW d \in DataInputs, NEW tail \in BOOLEAN,
               NEW head \in HeadInputs, NEW r \in Requests,
               StartSlice(head, d, tail, r)
        PROVE  FieldInserted'
    BY <2>1, <2>4, SliceTypes, RequestAssumption DEF StartSlice
  <2>5. CASE UNCHANGED vars
    BY <2>5 DEF vars, FieldInserted, FieldFits, LeavingSlice, Encapsulated, InBlock, Place, Flat
  <2> QED  BY <2>2, <2>3, <2>4, <2>5 DEF Next
<1> QED  BY <1>1, <1>2, TypeCorrect, InputInvariant, PTL DEF Spec

(* Every slice of every packet leaves Decap_Head without the units its own *)
(* request removes, the later units moved up to close the hole.            *)
THEOREM Removal == Spec => []UnitsRemoved
<1>1. Init => UnitsRemoved
  BY DEF Init, UnitsRemoved, ZeroSlice
<1>2. TypeOK /\ InputInv /\ UnitsRemoved /\ [Next]_vars => UnitsRemoved'
  <2> SUFFICES ASSUME TypeOK, InputInv, UnitsRemoved, [Next]_vars PROVE UnitsRemoved'
    OBVIOUS
  <2>1. ASSUME NEW h, NEW m \in Slice, NEW r, Clock(h, m, r),
               \/ cur' = cur /\ m = ZeroSlice
               \/ m.start
               \/ /\ ~m.start /\ cur'.request = cur.request
                  /\ cur'.slices = Append(cur.slices, m.data)
        PROVE  UnitsRemoved'
    <3> DEFINE p == IF m.start THEN cur ELSE cur'
               k == Len(cur.slices) - 1
    <3>0. Leaving' = p
      BY <2>1, OutputOf DEF Leaving
    <3>1. /\ dec'.meta = DecapMeta(m) /\ dec'.preMeta = m /\ LeavingSlice' = k
          /\ dec'.meta.valid <=> enc.preMeta.valid
          /\ enc.preMeta.valid => k \in Nat
          /\ k + 1 = Len(cur.slices)
      BY <2>1, OutputOf
    <3>2. /\ p.request = cur.request
          /\ \/ p = cur /\ m = ZeroSlice
             \/ p = cur /\ m.start
             \/ p.slices = Append(cur.slices, m.data) /\ ~m.start
      BY <2>1 DEF ZeroSlice
    <3> HIDE DEF p, k
    <3>3. ASSUME enc.preMeta.valid
          PROVE  /\ DecapMeta(m).start <=> k = 0
                 /\ \A u \in UnitIds :
                      LET s == Source(p, k * CANDI_NUM + u)
                      IN  (m.start => s < CANDI_NUM * Len(p.slices)) =>
                            DecapMeta(m).data[u] = Flat(p.slices, s)
      BY <2>1, <3>1, <3>2, <3>3, DecapStep
    <3> QED  BY <3>0, <3>1, <3>3 DEF UnitsRemoved, Source, InBlock, Place, Flat
  <2>2. CASE Gap
    BY <2>1, <2>2, SliceTypes DEF Gap
  <2>3. ASSUME NEW d \in DataInputs, NEW tail \in BOOLEAN, NextSlice(d, tail)
        PROVE  UnitsRemoved'
    <3> DEFINE in == TaggedSlice(d, FALSE, tail)
    <3>1. in \in Slice /\ ~in.start /\ in.data = d
      BY SliceTypes, RequestAssumption DEF TaggedSlice
    <3>2. /\ cur'.slices = Append(cur.slices, d) /\ cur'.request = cur.request
          /\ Clock(ZeroSlice, in, cur.request)
      BY <2>3 DEF NextSlice, TypeOK
    <3> HIDE DEF in
    <3> QED  BY <2>1, <3>1, <3>2
  <2>4. ASSUME NEW d \in DataInputs, NEW tail \in BOOLEAN,
               NEW head \in HeadInputs, NEW r \in Requests,
               StartSlice(head, d, tail, r)
        PROVE  UnitsRemoved'
    <3> DEFINE in == TaggedSlice(d, TRUE, tail)
    <3>1. in \in Slice /\ in.start
      BY SliceTypes, RequestAssumption DEF TaggedSlice
    <3>2. Clock(TaggedSlice(head, TRUE, TRUE), in, r)
      BY <2>4 DEF StartSlice
    <3> HIDE DEF in
    <3> QED  BY <2>1, <3>1, <3>2
  <2>5. CASE UNCHANGED vars
    BY <2>5 DEF vars, UnitsRemoved, LeavingSlice, Leaving, Source, InBlock, Place, Flat
  <2> QED  BY <2>2, <2>3, <2>4, <2>5 DEF Next
<1> QED  BY <1>1, <1>2, TypeCorrect, InputInvariant, PTL DEF Spec
=============================================================================
