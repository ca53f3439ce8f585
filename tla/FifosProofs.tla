---------------------------- MODULE FifosProofs ----------------------------
(* Theorems about the two FIFOs, for memories of any size, any values and  *)
(* any order of the edges of the two clocks: the pointers and the memory   *)
(* implement the queue of FifoQueue.                                       *)
EXTENDS Fifos, SequenceTheorems, TLAPS

-----------------------------------------------------------------------------
(* Remainders of numbers near 0 .. m - 1: at most one wrap to undo.        *)
LEMMA ModShort ==
  ASSUME NEW m \in Nat \ {0}, NEW n \in Int
  PROVE  /\ n \in 0 .. m - 1 => n % m = n
         /\ n \in m .. 2 * m - 1 => n % m = n - m
         /\ n \in -m .. -1 => n % m = n + m
<1> DEFINE k == n \div m
           r == n % m
<1>1. n = m * k + r /\ k \in Int /\ r \in 0 .. m - 1
  OBVIOUS
<1> HIDE DEF k, r
<1>2. /\ k >= 1 => m * k >= m
      /\ k >= 2 => m * k >= 2 * m
      /\ k <= -1 => m * k <= -m
      /\ k <= -2 => m * k <= -2 * m
  BY <1>1
<1>3. n \in 0 .. m - 1 => r = n
  BY <1>1, <1>2
<1>4. n \in m .. 2 * m - 1 => r = n - m
  BY <1>1, <1>2
<1>5. n \in -m .. -1 => r = n + m
  BY <1>1, <1>2
<1> QED  BY <1>3, <1>4, <1>5 DEF r

(* Arithmetic on pointers: the next address, how far w is in front of r,   *)
(* the address i places from r, and the words from r up to w, as Contents  *)
(* has them.                                                               *)
Inc(a) == (a + 1) % Words
Apart(w, r) == (w - r) % Words
Place(r, i) == (r + i - 1) % Words
Span(mem, w, r) == [i \in 1 .. Apart(w, r) |-> mem[Place(r, i)]]

(* How far apart two pointers are, without the remainder.                  *)
LEMMA ApartCases ==
  ASSUME NEW w \in Addresses, NEW r \in Addresses
  PROVE  /\ Apart(w, r) = IF r <= w THEN w - r ELSE w - r + Words
         /\ Apart(w, r) \in Addresses
         /\ Apart(w, r) = 0 <=> w = r
<1>1. w - r \in Int /\ Words \in Nat \ {0}
  BY FifoAssumption DEF Addresses
<1>2. /\ w - r \in 0 .. Words - 1 => Apart(w, r) = w - r
      /\ w - r \in -Words .. -1 => Apart(w, r) = w - r + Words
  BY <1>1, ModShort DEF Apart
<1> QED  BY <1>2, FifoAssumption DEF Addresses

(* A pointer that moves on by one stays an address.                        *)
LEMMA AdvanceCases ==
  ASSUME NEW a \in Addresses
  PROVE  /\ Inc(a) = IF a = Words - 1 THEN 0 ELSE a + 1
         /\ Inc(a) \in Addresses
<1> DEFINE n == a + 1
<1>1. n \in Int /\ Words \in Nat \ {0} /\ Inc(a) = n % Words
  BY FifoAssumption DEF Addresses, Inc
<1> HIDE DEF n
<1>2. /\ n \in 0 .. Words - 1 => Inc(a) = n
      /\ n \in Words .. 2 * Words - 1 => Inc(a) = n - Words
  BY <1>1, ModShort
<1> QED  BY <1>2, FifoAssumption DEF Addresses, n

(* A pointer that moves on makes the distance one longer or shorter.       *)
LEMMA ApartStep ==
  ASSUME NEW w \in Addresses, NEW r \in Addresses
  PROVE  /\ Inc(w) # r => Apart(Inc(w), r) = Apart(w, r) + 1
         /\ w # r => Apart(w, Inc(r)) = Apart(w, r) - 1
         /\ Inc(w) = r <=> Apart(w, r) = Words - 1
<1>1. Inc(w) = IF w = Words - 1 THEN 0 ELSE w + 1
  BY AdvanceCases
<1>2. Inc(r) = IF r = Words - 1 THEN 0 ELSE r + 1
  BY AdvanceCases
<1>3. Apart(w, r) = IF r <= w THEN w - r ELSE w - r + Words
  BY ApartCases
<1>4. Inc(w) \in Addresses /\ Inc(r) \in Addresses
  BY AdvanceCases
<1>5. Apart(Inc(w), r) = IF r <= Inc(w) THEN Inc(w) - r ELSE Inc(w) - r + Words
  BY <1>4, ApartCases
<1>6. Apart(w, Inc(r)) = IF Inc(r) <= w THEN w - Inc(r) ELSE w - Inc(r) + Words
  BY <1>4, ApartCases
<1>7. Inc(w) # r => Apart(Inc(w), r) = Apart(w, r) + 1
  BY <1>1, <1>3, <1>5, FifoAssumption DEF Addresses
<1>8. w # r => Apart(w, Inc(r)) = Apart(w, r) - 1
  BY <1>2, <1>3, <1>6, FifoAssumption DEF Addresses
<1>9. Inc(w) = r <=> Apart(w, r) = Words - 1
  BY <1>1, <1>3, FifoAssumption DEF Addresses
<1> QED  BY <1>7, <1>8, <1>9

(* Where the word at a place of the queue is.                              *)
LEMMA PlaceCases ==
  ASSUME NEW r \in Addresses, NEW i \in 1 .. Words
  PROVE  /\ Place(r, i) = IF r + i - 1 < Words THEN r + i - 1 ELSE r + i - 1 - Words
         /\ Place(r, i) \in Addresses
<1> DEFINE n == r + i - 1
<1>1. n \in Int /\ Words \in Nat \ {0} /\ Place(r, i) = n % Words
  BY FifoAssumption DEF Addresses, Place
<1> HIDE DEF n
<1>2. /\ n \in 0 .. Words - 1 => Place(r, i) = n
      /\ n \in Words .. 2 * Words - 1 => Place(r, i) = n - Words
  BY <1>1, ModShort
<1> QED  BY <1>2, FifoAssumption DEF Addresses, n

(* The words of a span.                                                    *)
LEMMA SpanType ==
  ASSUME NEW mem \in [Addresses -> Values], NEW w \in Addresses, NEW r \in Addresses
  PROVE  /\ Span(mem, w, r) \in Seq(Values)
         /\ Len(Span(mem, w, r)) = Apart(w, r)
         /\ Span(mem, w, r) = <<>> <=> w = r
         /\ \A i \in 1 .. Apart(w, r) : Span(mem, w, r)[i] = mem[Place(r, i)]
<1>0. Apart(w, r) \in Addresses
  BY ApartCases
<1>1. Apart(w, r) \in Nat /\ Apart(w, r) < Words
  BY <1>0, FifoAssumption DEF Addresses
<1>2. \A i \in 1 .. Apart(w, r) : mem[Place(r, i)] \in Values
  BY <1>1, PlaceCases, FifoAssumption
<1>3. Span(mem, w, r) \in [1 .. Apart(w, r) -> Values]
  BY <1>2 DEF Span
<1>4. Span(mem, w, r) \in Seq(Values) /\ Len(Span(mem, w, r)) = Apart(w, r)
  BY <1>1, <1>3
<1>5. Span(mem, w, r) = <<>> <=> Apart(w, r) = 0
  BY <1>4, EmptySeq
<1> QED  BY <1>4, <1>5, ApartCases DEF Span

(* A read moves the read pointer on: the span loses its first word.        *)
LEMMA ReadSpan ==
  ASSUME NEW mem \in [Addresses -> Values], NEW w \in Addresses, NEW r \in Addresses,
         w # r
  PROVE  /\ Span(mem, w, Inc(r)) = Tail(Span(mem, w, r))
         /\ mem[r] = Span(mem, w, r)[1]
<1> DEFINE s == Span(mem, w, r)
           t == Span(mem, w, Inc(r))
<1>1. /\ s \in Seq(Values) /\ Len(s) = Apart(w, r) /\ s # <<>>
      /\ \A i \in 1 .. Apart(w, r) : s[i] = mem[Place(r, i)]
  BY SpanType
<1>2. Inc(r) \in Addresses
  BY AdvanceCases
<1>3. /\ t \in Seq(Values) /\ Len(t) = Apart(w, Inc(r))
      /\ \A i \in 1 .. Apart(w, Inc(r)) :
           t[i] = mem[Place(Inc(r), i)]
  BY <1>2, SpanType
<1>4. /\ Apart(w, Inc(r)) = Apart(w, r) - 1
      /\ Apart(w, r) \in 1 .. Words - 1
  <2>1. Apart(w, Inc(r)) = Apart(w, r) - 1
    BY ApartStep
  <2>2. Apart(w, r) \in Addresses /\ Apart(w, r) # 0
    BY ApartCases
  <2> QED  BY <2>1, <2>2, FifoAssumption DEF Addresses
<1>5. ASSUME NEW i \in 1 .. Apart(w, r) - 1
      PROVE  Place(Inc(r), i) = Place(r, i + 1)
  <2>1. i \in 1 .. Words /\ i + 1 \in 1 .. Words
    BY <1>4, FifoAssumption
  <2>2. Place(Inc(r), i) =
          IF Inc(r) + i - 1 < Words THEN Inc(r) + i - 1 ELSE Inc(r) + i - 1 - Words
    BY <1>2, <2>1, PlaceCases
  <2>3. Place(r, i + 1) =
          IF r + (i + 1) - 1 < Words THEN r + (i + 1) - 1 ELSE r + (i + 1) - 1 - Words
    BY <2>1, PlaceCases
  <2>4. Inc(r) = IF r = Words - 1 THEN 0 ELSE r + 1
    BY AdvanceCases
  <2> QED  BY <2>1, <2>2, <2>3, <2>4, FifoAssumption DEF Addresses
<1>6. /\ Tail(s) \in Seq(Values) /\ Len(Tail(s)) = Apart(w, r) - 1
      /\ \A i \in 1 .. Apart(w, r) - 1 : Tail(s)[i] = s[i + 1]
  BY <1>1, HeadTailProperties
<1>7. \A i \in 1 .. Apart(w, r) - 1 : t[i] = Tail(s)[i]
  BY <1>1, <1>3, <1>4, <1>5, <1>6
<1>8. t = Tail(s)
  BY <1>3, <1>4, <1>6, <1>7, SeqEqual
<1>9. mem[r] = s[1]
  <2>1. 1 \in 1 .. Words /\ 1 \in 1 .. Apart(w, r)
    BY <1>4, FifoAssumption
  <2>2. Place(r, 1) = IF r + 1 - 1 < Words THEN r + 1 - 1 ELSE r + 1 - 1 - Words
    BY <2>1, PlaceCases
  <2>3. Place(r, 1) = r
    BY <2>2, FifoAssumption DEF Addresses
  <2> QED  BY <1>1, <2>1, <2>3
<1> QED  BY <1>8, <1>9

(* A write puts a word at the write pointer and moves it on: the span has  *)
(* one word more at its end, or none when the pointers meet.               *)
LEMMA WriteSpan ==
  ASSUME NEW mem \in [Addresses -> Values], NEW w \in Addresses, NEW r \in Addresses,
         NEW d \in Values
  PROVE  Span([mem EXCEPT ![w] = d], Inc(w), r) =
           IF Apart(w, r) + 1 < Words THEN Append(Span(mem, w, r), d) ELSE <<>>
<1> DEFINE new == [mem EXCEPT ![w] = d]
           s == Span(mem, w, r)
           t == Span(new, Inc(w), r)
<1>1. /\ new \in [Addresses -> Values] /\ Inc(w) \in Addresses
      /\ \A a \in Addresses : new[a] = IF a = w THEN d ELSE mem[a]
  BY AdvanceCases
<1> HIDE DEF new
<1>2. /\ s \in Seq(Values) /\ Len(s) = Apart(w, r)
      /\ \A i \in 1 .. Apart(w, r) : s[i] = mem[Place(r, i)]
  BY SpanType
<1>3. /\ t \in Seq(Values) /\ Len(t) = Apart(Inc(w), r)
      /\ t = <<>> <=> Inc(w) = r
      /\ \A i \in 1 .. Apart(Inc(w), r) : t[i] = new[Place(r, i)]
  BY ZenonT(30), <1>1, SpanType
<1>4. /\ Apart(w, r) + 1 < Words => Apart(Inc(w), r) = Apart(w, r) + 1
      /\ ~(Apart(w, r) + 1 < Words) => Inc(w) = r
      /\ Apart(w, r) \in Addresses
  <2>1. Apart(w, r) \in Addresses
    BY ApartCases
  <2>2. Inc(w) = r <=> ~(Apart(w, r) + 1 < Words)
    BY <2>1, ApartStep, FifoAssumption DEF Addresses
  <2> QED  BY <2>1, <2>2, ApartStep
<1>5. CASE Apart(w, r) + 1 < Words
  <2> DEFINE n == Apart(w, r)
  <2>1. n \in Nat /\ n + 1 < Words /\ Len(s) = n /\ Len(t) = n + 1
    BY <1>2, <1>3, <1>4, <1>5, FifoAssumption DEF Addresses
  <2>n. n = IF r <= w THEN w - r ELSE w - r + Words
    BY ApartCases
  <2> HIDE DEF n
  <2>2. /\ Append(s, d) \in Seq(Values) /\ Len(Append(s, d)) = n + 1
        /\ \A i \in 1 .. n : Append(s, d)[i] = s[i]
        /\ Append(s, d)[n + 1] = d
    BY <1>2, <2>1, AppendProperties
  <2>3. ASSUME NEW i \in 1 .. n PROVE t[i] = Append(s, d)[i]
    <3>1. i \in 1 .. n + 1 /\ i \in 1 .. Words
      BY <2>1, FifoAssumption
    <3>p. /\ Place(r, i) = IF r + i - 1 < Words THEN r + i - 1 ELSE r + i - 1 - Words
          /\ Place(r, i) \in Addresses
      BY <3>1, PlaceCases
    <3>2. Place(r, i) # w
      BY <3>1, <3>p, <2>1, <2>n, FifoAssumption DEF Addresses
    <3>3. t[i] = new[Place(r, i)]
      BY <1>3, <1>4, <1>5, <3>1 DEF n
    <3>4. new[Place(r, i)] = mem[Place(r, i)]
      BY <1>1, <3>2, <3>p
    <3>5. s[i] = mem[Place(r, i)]
      BY <1>2 DEF n
    <3> QED  BY <2>2, <3>3, <3>4, <3>5
  <2>4. t[n + 1] = d
    <3>1. n + 1 \in 1 .. n + 1 /\ n + 1 \in 1 .. Words
      BY <2>1, FifoAssumption
    <3>p. Place(r, n + 1) =
            IF r + (n + 1) - 1 < Words THEN r + (n + 1) - 1 ELSE r + (n + 1) - 1 - Words
      BY <3>1, PlaceCases
    <3>2. Place(r, n + 1) = w
      BY <3>p, <2>1, <2>n, FifoAssumption DEF Addresses
    <3>3. t[n + 1] = new[Place(r, n + 1)]
      BY <1>3, <1>4, <1>5, <3>1 DEF n
    <3> QED  BY <1>1, <3>2, <3>3
  <2> HIDE DEF s, t
  <2>5. ASSUME NEW i \in 1 .. n + 1 PROVE t[i] = Append(s, d)[i]
    <3>1. CASE i = n + 1
      BY <2>2, <2>4, <3>1
    <3>2. CASE i # n + 1
      <4>1. i \in 1 .. n
        BY <2>1, <3>2
      <4> QED  BY <2>3, <4>1
    <3> QED  BY <3>1, <3>2
  <2>6. t = Append(s, d)
    BY <1>3, <2>1, <2>2, <2>5, SeqEqual
  <2> QED  BY <1>5, <2>6 DEF n, s, t, new
<1>6. CASE ~(Apart(w, r) + 1 < Words)
  BY <1>3, <1>4, <1>6 DEF new
<1> QED  BY <1>5, <1>6
-----------------------------------------------------------------------------
(* The queue as Fifos states it is the span between the pointers.          *)
LEMMA ContentsSpan ==
  /\ Contents = Span(memory, wr_addr, rd_addr)
  /\ Used = Apart(wr_addr, rd_addr)
  /\ full <=> rd_addr = Inc(wr_addr)
  /\ \A a, req : Advance(a, req) = IF req THEN Inc(a) ELSE a
BY DEF Contents, Used, Span, Apart, Place, full, Inc, Advance

(* The registers after an edge with request r of both ports, and what the  *)
(* edge does to the queue; a read only happens when the queue is not empty.*)
LEMMA EdgeOnQueue ==
  ASSUME TypeOK, NEW r \in Request, r.rdreq => ~empty
  PROVE  Span(Stored(r), Advance(wr_addr, r.wrreq), Advance(rd_addr, r.rdreq)) =
           Queue!QueueAfter(Contents, Words, r.data, r.wrreq, r.rdreq)
<1> DEFINE rest == IF r.rdreq /\ Contents # <<>> THEN Tail(Contents) ELSE Contents
           rd == Advance(rd_addr, r.rdreq)
<1>1. /\ r.data \in Values /\ r.wrreq \in BOOLEAN /\ r.rdreq \in BOOLEAN
      /\ memory \in [Addresses -> Values] /\ wr_addr \in Addresses /\ rd_addr \in Addresses
  BY DEF TypeOK, Request
<1>2. rd \in Addresses
  BY <1>1, AdvanceCases, ContentsSpan
<1>3. rest = Span(memory, wr_addr, rd)
  <2>1. CASE r.rdreq
    <3>1. wr_addr # rd_addr /\ rd = Inc(rd_addr)
      BY <2>1, ContentsSpan DEF empty
    <3>2. Contents # <<>> /\ Span(memory, wr_addr, Inc(rd_addr)) = Tail(Contents)
      BY <1>1, <3>1, ContentsSpan, ReadSpan, SpanType
    <3> QED  BY <2>1, <3>1, <3>2
  <2>2. CASE ~r.rdreq
    BY <2>2, ContentsSpan
  <2> QED  BY <2>1, <2>2
<1> HIDE DEF rest, rd
<1>4. rest \in Seq(Values) /\ Len(rest) = Apart(wr_addr, rd) /\ Len(rest) \in Addresses
  BY <1>1, <1>2, <1>3, SpanType, ApartCases
<1>5. CASE r.wrreq
  <2>1. Span(Stored(r), Advance(wr_addr, r.wrreq), rd) =
          IF Apart(wr_addr, rd) + 1 < Words THEN Append(rest, r.data) ELSE <<>>
    BY <1>1, <1>2, <1>3, <1>5, WriteSpan, ContentsSpan DEF Stored
  <2>2. Len(Append(rest, r.data)) = Len(rest) + 1
    BY <1>1, <1>4, AppendProperties
  <2>3. Queue!QueueAfter(Contents, Words, r.data, r.wrreq, r.rdreq) =
          IF Len(Append(rest, r.data)) < Words THEN Append(rest, r.data) ELSE <<>>
    BY <1>5 DEF Queue!QueueAfter, rest
  <2> QED  BY <1>4, <2>1, <2>2, <2>3 DEF rd
<1>6. CASE ~r.wrreq
  <2>1. Span(Stored(r), Advance(wr_addr, r.wrreq), rd) = rest
    BY <1>3, <1>6, ContentsSpan DEF Stored
  <2>2. Len(rest) < Words
    BY <1>4, FifoAssumption DEF Addresses
  <2>3. Queue!QueueAfter(Contents, Words, r.data, r.wrreq, r.rdreq) =
          IF Len(rest) < Words THEN rest ELSE <<>>
    BY <1>6 DEF Queue!QueueAfter, rest
  <2> QED  BY <2>1, <2>2, <2>3 DEF rd
<1> QED  BY <1>1, <1>5, <1>6

-----------------------------------------------------------------------------
(* The pointers, the counts and the memory keep their widths.              *)
THEOREM TypeCorrect == Spec => []TypeOK
<1>1. Init => TypeOK
  BY FifoAssumption DEF Init, TypeOK, Addresses
<1>2. TypeOK /\ [Next]_vars => TypeOK'
  <2> SUFFICES ASSUME TypeOK, [Next]_vars PROVE TypeOK'
    OBVIOUS
  <2> DEFINE Parts(r) == /\ Stored(r) \in [Addresses -> Values]
                         /\ Advance(wr_addr, r.wrreq) \in Addresses
                         /\ Advance(rd_addr, r.rdreq) \in Addresses
  <2>1. Used \in Addresses /\ Front \in Values
    BY ApartCases, ContentsSpan DEF TypeOK, Front
  <2>2. \A r \in Request : Parts(r)
    BY AdvanceCases, ContentsSpan DEF TypeOK, Stored, Request
  <2> HIDE DEF Parts
  <2>3. CASE Clear
    BY <2>3, FifoAssumption DEF Clear, TypeOK, Addresses
  <2>4. ASSUME NEW r \in Request, SyncEdge(r) PROVE TypeOK'
    BY <2>1, <2>2, <2>4 DEF SyncEdge, TypeOK, Parts
  <2>5. ASSUME NEW r \in Request, WrEdge(r) PROVE TypeOK'
    BY <2>1, <2>2, <2>5 DEF WrEdge, WrSide, TypeOK, Parts
  <2>6. ASSUME NEW r \in Request, RdEdge(r) PROVE TypeOK'
    BY <2>1, <2>2, <2>6 DEF RdEdge, RdSide, TypeOK, Parts
  <2>7. ASSUME NEW r \in Request, BothEdges(r) PROVE TypeOK'
    BY <2>1, <2>2, <2>7 DEF BothEdges, WrSide, RdSide, TypeOK, Parts
  <2>8. CASE UNCHANGED vars
    BY <2>8 DEF vars, TypeOK
  <2> QED  BY <2>3, <2>4, <2>5, <2>6, <2>7, <2>8 DEF Next
<1> QED  BY <1>1, <1>2, PTL DEF Spec

(* The flags tell the empty and the full queue apart in every state, and   *)
(* the word syncfifo shows is the front of the queue.                      *)
THEOREM PortsCorrect == Spec => []PortsShowQueue
<1>1. TypeOK => PortsShowQueue
  <2> SUFFICES ASSUME TypeOK PROVE PortsShowQueue
    OBVIOUS
  <2>1. memory \in [Addresses -> Values] /\ wr_addr \in Addresses /\ rd_addr \in Addresses
    BY DEF TypeOK
  <2>2. empty <=> Contents = <<>>
    BY <2>1, SpanType, ContentsSpan DEF empty
  <2>3. Len(Contents) = Apart(wr_addr, rd_addr)
    BY <2>1, SpanType, ContentsSpan
  <2>4. rd_addr = Inc(wr_addr) <=> Apart(wr_addr, rd_addr) = Words - 1
    BY <2>1, ApartStep
  <2>5. ~empty => Front = Contents[1]
    BY <2>1, ReadSpan, ContentsSpan DEF empty, Front
  <2> QED  BY <2>2, <2>3, <2>4, <2>5, ContentsSpan DEF PortsShowQueue
<1> QED  BY <1>1, TypeCorrect, PTL

-----------------------------------------------------------------------------
(* Every edge of a clock, of either FIFO, is an edge of the queue.         *)
LEMMA StepOfQueue ==
  ASSUME TypeOK, NEW r \in Request, SyncEdge(r) \/ WrEdge(r) \/ RdEdge(r) \/ BothEdges(r)
  PROVE  /\ request' = r /\ (r.rdreq => Contents # <<>>)
         /\ Contents' = Queue!QueueAfter(Contents, Words, r.data, r.wrreq, r.rdreq)
         /\ r.rdreq => Out' = Head(Contents)
<1>1. request' = r /\ (r.rdreq => ~empty)
  BY DEF SyncEdge, WrEdge, RdEdge, BothEdges, WrSide, RdSide
<1>2. memory' = Stored(r) /\ wr_addr' = Advance(wr_addr, r.wrreq)
  BY DEF SyncEdge, WrEdge, RdEdge, BothEdges, WrSide, Stored, Advance
<1>3. rd_addr' = Advance(rd_addr, r.rdreq)
  BY DEF SyncEdge, WrEdge, RdEdge, BothEdges, RdSide, Advance
<1>4. Contents' = Span(memory', wr_addr', rd_addr')
  BY DEF Contents, Used, Span, Apart, Place
<1>5. Contents # <<>> \/ empty
  BY SpanType, ContentsSpan DEF TypeOK, empty
<1>6. r.rdreq => Out' = Front
  <2>1. CASE SyncEdge(r)
    BY <2>1 DEF SyncEdge, Out
  <2>2. CASE WrEdge(r)
    BY <2>2 DEF WrEdge
  <2>3. ASSUME RdSide(r), UNCHANGED twoClocks PROVE Out' = Front
    BY <2>3 DEF RdSide, Out
  <2>4. CASE RdEdge(r) \/ BothEdges(r)
    BY <2>3, <2>4 DEF RdEdge, BothEdges
  <2> QED  BY <2>1, <2>2, <2>4
<1>7. ~empty => Front = Head(Contents)
  <2>1. ~empty => Front = Contents[1]
    BY ReadSpan, ContentsSpan DEF TypeOK, empty, Front
  <2> QED  BY <2>1 DEF Contents
<1> QED  BY <1>1, <1>2, <1>3, <1>4, <1>5, <1>6, <1>7, EdgeOnQueue

(* The registers of both FIFOs implement the queue.                        *)
THEOREM QueueImplemented == Spec => ImplementsQueue
<1>1. Init => Queue!Init
  <2> SUFFICES ASSUME Init PROVE Queue!Init
    OBVIOUS
  <2>1. /\ wr_addr = 0 /\ rd_addr = 0 /\ 0 \in Addresses
        /\ memory \in [Addresses -> Values]
    BY FifoAssumption DEF Init, Addresses
  <2>2. Contents = <<>>
    BY <2>1, SpanType, ContentsSpan
  <2> QED  BY <2>2, FifoAssumption DEF Init, Queue!Init, Request, Queue!Request, Out
<1>2. TypeOK /\ TypeOK' /\ [Next]_vars => [Queue!Next]_<<Contents, Out, request>>
  <2> SUFFICES ASSUME TypeOK, TypeOK', [Next]_vars
               PROVE  [Queue!Next]_<<Contents, Out, request>>
    OBVIOUS
  <2>1. CASE Clear
    <3>1. /\ wr_addr' = 0 /\ rd_addr' = 0 /\ 0 \in Addresses
          /\ memory' \in [Addresses -> Values]
      BY <2>1, FifoAssumption DEF Clear, Addresses
    <3>2. Span(memory', wr_addr', rd_addr') = <<>>
      BY <3>1, SpanType
    <3>3. Contents' = <<>>
      BY <3>2 DEF Contents, Used, Span, Apart, Place
    <3> QED  BY <2>1, <3>3 DEF Clear, Queue!Next, Queue!Clear, Out
  <2>2. ASSUME NEW r \in Request,
               SyncEdge(r) \/ WrEdge(r) \/ RdEdge(r) \/ BothEdges(r)
        PROVE  Queue!Next
    <3>1. Out' \in Values
      BY DEF TypeOK, Out
    <3> QED  BY <2>2, <3>1, StepOfQueue DEF Queue!Next, Queue!Edge, Queue!Request, Request
  <2>3. CASE UNCHANGED vars
    BY <2>3 DEF vars, Contents, Used, Out
  <2> QED  BY <2>1, <2>2, <2>3 DEF Next
<1> QED  BY <1>1, <1>2, TypeCorrect, PTL DEF Spec, ImplementsQueue, Queue!Spec

-----------------------------------------------------------------------------
(* The length of the queue after an edge of asyncfifo's clocks: a write    *)
(* makes it one longer, a read one shorter.                                *)
LEMMA UsedAfter ==
  ASSUME TypeOK, NEW r \in Request, WrEdge(r) \/ RdEdge(r) \/ BothEdges(r)
  PROVE  Used' = Used + (IF r.wrreq THEN 1 ELSE 0) - (IF r.rdreq THEN 1 ELSE 0)
<1> DEFINE w == wr_addr
           p == rd_addr
<1>1. /\ w \in Addresses /\ p \in Addresses /\ Inc(w) \in Addresses
      /\ Used = Apart(w, p) /\ Used \in Addresses
  BY AdvanceCases, ApartCases, ContentsSpan DEF TypeOK
<1>2. Used' = Apart(w', p')
  BY DEF Used, Apart
<1>3. IF r.wrreq THEN w' = Inc(w) /\ p # Inc(w) ELSE w' = w
  BY ContentsSpan DEF WrEdge, RdEdge, BothEdges, WrSide
<1>4. IF r.rdreq THEN p' = Inc(p) /\ w # p ELSE p' = p
  BY ContentsSpan DEF WrEdge, RdEdge, BothEdges, RdSide, empty
<1>5. Used \in Int
  BY <1>1, FifoAssumption DEF Addresses
<1> HIDE DEF w, p
<1>6. CASE r.wrreq /\ r.rdreq
  <2>1. w' = Inc(w) /\ p' = Inc(p) /\ Inc(w) # p /\ w # p
    BY <1>3, <1>4, <1>6
  <2>2. Apart(Inc(w), Inc(p)) = Apart(Inc(w), p) - 1 /\ Apart(Inc(w), p) = Apart(w, p) + 1
    BY <1>1, <2>1, ApartStep
  <2> QED  BY <1>1, <1>2, <1>5, <1>6, <2>1, <2>2
<1>7. CASE r.wrreq /\ ~r.rdreq
  <2>1. w' = Inc(w) /\ p' = p /\ Apart(Inc(w), p) = Apart(w, p) + 1
    BY <1>1, <1>3, <1>4, <1>7, ApartStep
  <2> QED  BY <1>1, <1>2, <1>5, <1>7, <2>1
<1>8. CASE ~r.wrreq /\ r.rdreq
  <2>1. w' = w /\ p' = Inc(p) /\ Apart(w, Inc(p)) = Apart(w, p) - 1
    BY <1>1, <1>3, <1>4, <1>8, ApartStep
  <2> QED  BY <1>1, <1>2, <1>5, <1>8, <2>1
<1>9. CASE ~r.wrreq /\ ~r.rdreq
  BY <1>1, <1>2, <1>3, <1>4, <1>5, <1>9
<1> QED  BY <1>6, <1>7, <1>8, <1>9

(* A writer of an asyncfifo that acts on wrusedw, and a reader that acts   *)
(* on rdusedw, err on the safe side by at most one word.                   *)
THEOREM CountsCorrect == Spec => []CountsSafe
<1> DEFINE Counts == twoClocks => Used <= usedw + 1 /\ Used + 1 >= rdusedw
<1>1. TypeOK => /\ Counts <=> CountsSafe
                /\ Used \in Int /\ usedw \in Int /\ rdusedw \in Int
  <2> SUFFICES ASSUME TypeOK
               PROVE  /\ Counts <=> CountsSafe
                      /\ Used \in Int /\ usedw \in Int /\ rdusedw \in Int
    OBVIOUS
  <2>1. Len(Contents) = Used /\ Used \in Addresses
    BY SpanType, ApartCases, ContentsSpan DEF TypeOK
  <2> QED  BY <2>1, FifoAssumption DEF TypeOK, CountsSafe, Addresses
<1>2. Init => Counts
  <2> SUFFICES ASSUME Init PROVE Counts
    OBVIOUS
  <2>1. wr_addr = 0 /\ rd_addr = 0 /\ 0 \in Addresses
    BY FifoAssumption DEF Init, Addresses
  <2>2. Used = 0
    BY <2>1, ApartCases, ContentsSpan
  <2> QED  BY <2>2 DEF Init
<1>3. TypeOK /\ Counts /\ [Next]_vars => Counts'
  <2> SUFFICES ASSUME TypeOK, Counts, [Next]_vars PROVE Counts'
    OBVIOUS
  <2>1. CASE Clear
    <3>1. wr_addr' = 0 /\ rd_addr' = 0 /\ 0 \in Addresses /\ usedw' = 0 /\ rdusedw' = 0
      BY <2>1, FifoAssumption DEF Clear, Addresses
    <3>2. Used' = 0
      BY <3>1, ApartCases DEF Used, Apart
    <3> QED  BY <3>1, <3>2
  <2>2. ASSUME NEW r \in Request, SyncEdge(r) PROVE Counts'
    BY <2>2 DEF SyncEdge
  <2>3. ASSUME NEW r \in Request, WrEdge(r) PROVE Counts'
    <3>1. /\ Used' = Used + (IF r.wrreq THEN 1 ELSE 0)
          /\ usedw' = Used /\ rdusedw' = rdusedw
      BY <1>1, <2>3, UsedAfter DEF WrEdge, WrSide
    <3> QED  BY <1>1, <2>3, <3>1 DEF WrEdge, WrSide
  <2>4. ASSUME NEW r \in Request, RdEdge(r) PROVE Counts'
    <3>1. /\ Used' = Used - (IF r.rdreq THEN 1 ELSE 0)
          /\ usedw' = usedw /\ rdusedw' = Used
      BY <1>1, <2>4, UsedAfter DEF RdEdge, RdSide
    <3> QED  BY <1>1, <2>4, <3>1 DEF RdEdge, RdSide
  <2>5. ASSUME NEW r \in Request, BothEdges(r) PROVE Counts'
    <3>1. /\ Used' = Used + (IF r.wrreq THEN 1 ELSE 0) - (IF r.rdreq THEN 1 ELSE 0)
          /\ usedw' = Used /\ rdusedw' = Used
      BY <2>5, UsedAfter DEF BothEdges, WrSide, RdSide
    <3> QED  BY <1>1, <3>1
  <2>6. CASE UNCHANGED vars
    BY <2>6 DEF vars, Used
  <2> QED  BY <2>1, <2>2, <2>3, <2>4, <2>5, <2>6 DEF Next
<1>4. TypeOK /\ Counts => CountsSafe
  BY <1>1
<1> QED  BY <1>2, <1>3, <1>4, TypeCorrect, PTL DEF Spec
=============================================================================
