--------------------------- MODULE ParserTopProofs ---------------------------
(* Theorems about Parser_Top, for any number of layers and rules, slices   *)
(* of any width, packets of any length, any spacing the input keeps, and   *)
(* configuration words at any clock.                                       *)
EXTENDS ParserTop, SequenceTheorems, WellFoundedInduction, TLAPS

-----------------------------------------------------------------------------
(* Induction as a fact about sets: a set of numbers has a least one, and a *)
(* set that has 0 and every successor of its members has all the numbers.  *)
LEMMA LeastNumber ==
  ASSUME NEW T, T \subseteq Nat, T # {}
  PROVE  \E x \in T : \A y \in T : x <= y
<1> DEFINE R == OpToRel(<, Nat)
<1>1. IsWellFoundedOn(R, Nat)
  BY NatLessThanWellFounded
<1>2. \A x \in Nat, y \in Nat : y < x => <<y, x>> \in R
  BY DEF OpToRel
<1> HIDE DEF R
<1>3. \E x \in T : \A y \in T : ~(<<y, x>> \in R)
  BY <1>1, WFMin
<1>4. PICK x \in T : \A y \in T : ~(<<y, x>> \in R)
  BY <1>3
<1>5. ASSUME NEW y \in T PROVE x <= y
  <2>1. x \in Nat /\ y \in Nat
    OBVIOUS
  <2>2. ~(y < x)
    BY <1>2, <1>4, <2>1
  <2> QED  BY <2>1, <2>2
<1> QED  BY <1>5

LEMMA InductionOnSets ==
  ASSUME NEW S, 0 \in S, \A n \in Nat : n \in S => n + 1 \in S
  PROVE  Nat \subseteq S
<1> SUFFICES ASSUME NEW z \in Nat, z \notin S PROVE FALSE
  OBVIOUS
<1> DEFINE T == {n \in Nat : n \notin S}
<1>1. PICK x \in T : \A y \in T : x <= y
  BY LeastNumber
<1>2. x \in Nat /\ x # 0 /\ x - 1 \in Nat /\ x - 1 \notin T
  BY <1>1
<1> QED  BY <1>2

(* The running sum is a function on the numbers, so its equation holds.    *)
LEMMA SumExists ==
  ASSUME NEW s
  PROVE  \E g : g = [m \in Nat |-> IF m = 0 THEN 0 ELSE g[m - 1] + s[m]]
<1> DEFINE Sums(g, n) == g = [m \in 0 .. n |-> IF m = 0 THEN 0 ELSE g[m - 1] + s[m]]
           S == {n \in Nat : \E g : Sums(g, n)}
<1>1. 0 \in S
  <2>1. Sums([m \in 0 .. 0 |-> 0], 0)
    OBVIOUS
  <2> QED  BY <2>1
<1>2. ASSUME NEW n \in Nat, n \in S PROVE n + 1 \in S
  <2>1. PICK g : Sums(g, n)
    BY <1>2
  <2> DEFINE h == [m \in 0 .. n + 1 |-> IF m = n + 1 THEN g[n] + s[n + 1] ELSE g[m]]
  <2>2. ASSUME NEW m \in 0 .. n + 1
        PROVE  h[m] = IF m = 0 THEN 0 ELSE h[m - 1] + s[m]
    <3>1. CASE m = n + 1
      BY <3>1
    <3>2. CASE m # n + 1
      <4>1. m \in 0 .. n /\ h[m] = g[m] /\ (m # 0 => h[m - 1] = g[m - 1])
        BY <3>2
      <4>2. g[m] = IF m = 0 THEN 0 ELSE g[m - 1] + s[m]
        BY <2>1, <4>1
      <4> QED  BY <4>1, <4>2
    <3> QED  BY <3>1, <3>2
  <2> HIDE DEF h
  <2>3. h = [m \in 0 .. n + 1 |-> h[m]]
    BY DEF h
  <2>4. Sums(h, n + 1)
    BY <2>2, <2>3
  <2> QED  BY <2>4
<1>3. \A n \in Nat : \E g : Sums(g, n)
  <2> HIDE DEF Sums
  <2>1. Nat \subseteq S
    BY <1>1, <1>2, InductionOnSets
  <2> QED  BY <2>1
<1>4. ASSUME NEW a \in Nat, NEW b \in Nat, a <= b, NEW g, Sums(g, a), NEW h, Sums(h, b)
      PROVE  g[a] = h[a]
  <2> DEFINE U == {n \in Nat : n <= a => g[n] = h[n]}
  <2>1. 0 \in U
    BY <1>4
  <2>2. ASSUME NEW n \in Nat, n \in U PROVE n + 1 \in U
    <3> SUFFICES ASSUME n + 1 <= a PROVE g[n + 1] = h[n + 1]
      OBVIOUS
    <3>1. n + 1 \in 0 .. a /\ n + 1 \in 0 .. b /\ n + 1 # 0 /\ (n + 1) - 1 = n /\ g[n] = h[n]
      BY <1>4, <2>2
    <3>2. g[n + 1] = g[(n + 1) - 1] + s[n + 1]
      BY <1>4, <3>1
    <3>3. h[n + 1] = h[(n + 1) - 1] + s[n + 1]
      BY <1>4, <3>1
    <3> QED  BY <3>1, <3>2, <3>3
  <2> HIDE DEF U
  <2>3. Nat \subseteq U
    BY <2>1, <2>2, InductionOnSets
  <2>4. a \in U
    BY <2>3
  <2> QED  BY <2>4 DEF U
<1> DEFINE part == [n \in Nat |-> CHOOSE g : Sums(g, n)]
           sum == [n \in Nat |-> part[n][n]]
<1>5. \A n \in Nat : Sums(part[n], n)
  BY <1>3
<1> HIDE DEF part, Sums
<1>6. ASSUME NEW m \in Nat PROVE sum[m] = IF m = 0 THEN 0 ELSE sum[m - 1] + s[m]
  <2>1. sum[m] = part[m][m] /\ Sums(part[m], m)
    BY <1>5
  <2>2. part[m][m] = IF m = 0 THEN 0 ELSE part[m][m - 1] + s[m]
    BY <2>1 DEF Sums
  <2>3. CASE m = 0
    BY <2>1, <2>2, <2>3
  <2>4. CASE m # 0
    <3>1. m - 1 \in Nat /\ m - 1 <= m
      BY <2>4
    <3>2. Sums(part[m - 1], m - 1) /\ sum[m - 1] = part[m - 1][m - 1]
      BY <1>5, <3>1
    <3>3. part[m - 1][m - 1] = part[m][m - 1]
      BY <1>4, <2>1, <3>1, <3>2
    <3> QED  BY <2>1, <2>2, <2>4, <3>2, <3>3
  <2> QED  BY <2>3, <2>4
<1>7. sum = [m \in Nat |-> sum[m]]
  OBVIOUS
<1> HIDE DEF sum
<1>8. sum = [m \in Nat |-> IF m = 0 THEN 0 ELSE sum[m - 1] + s[m]]
  BY <1>6, <1>7
<1> QED  BY <1>8

LEMMA SumStep ==
  ASSUME NEW s
  PROVE  SumTo(s, 0) = 0 /\ \A n \in Nat : SumTo(s, n + 1) = SumTo(s, n) + s[n + 1]
<1> DEFINE Sum(g) == g = [m \in Nat |-> IF m = 0 THEN 0 ELSE g[m - 1] + s[m]]
           sum == CHOOSE g : Sum(g)
<1>1. Sum(sum)
  BY SumExists
<1>2. \A n : SumTo(s, n) = sum[n]
  BY DEF SumTo
<1> HIDE DEF sum
<1>3. sum[0] = 0 /\ \A n \in Nat : sum[n + 1] = sum[n] + s[n + 1]
  <2>1. \A m \in Nat : sum[m] = IF m = 0 THEN 0 ELSE sum[m - 1] + s[m]
    BY <1>1
  <2>2. ASSUME NEW n \in Nat PROVE sum[n + 1] = sum[n] + s[n + 1]
    <3>1. n + 1 \in Nat /\ n + 1 # 0 /\ (n + 1) - 1 = n
      OBVIOUS
    <3>2. sum[n + 1] = sum[(n + 1) - 1] + s[n + 1]
      BY <2>1, <3>1
    <3> QED  BY <3>1, <3>2
  <2> QED  BY <2>1, <2>2
<1> QED  BY <1>2, <1>3

-----------------------------------------------------------------------------
(* Where the headers and fields of a packet are: each position follows     *)
(* from the one before, no head position runs further ahead than a slice   *)
(* per layer, and a position depends on the layers before it only.         *)
Row(k) == k * CANDI_NUM

LEMMA RowLemma ==
  /\ Row(0) = 0
  /\ \A k \in Nat : Row(k) \in Nat /\ Row(k + 1) = Row(k) + CANDI_NUM
  /\ \A k, m \in Nat : /\ k <= m => Row(k) <= Row(m)
                       /\ k < m => Row(k) + CANDI_NUM <= Row(m)
                       /\ Row(k + m) = Row(k) + Row(m)
<1>1. CANDI_NUM \in Nat \ {0}
  BY WidthAssumption
<1>2. Row(0) = 0 /\ \A k \in Nat : Row(k) \in Nat /\ Row(k + 1) = Row(k) + CANDI_NUM
  BY <1>1 DEF Row
<1>3. \A k, m \in Nat : Row(k + m) = Row(k) + Row(m)
  BY <1>1 DEF Row
<1>4. ASSUME NEW k \in Nat, NEW m \in Nat, k <= m PROVE Row(k) <= Row(m)
  <2>1. m - k \in Nat /\ k + (m - k) = m
    BY <1>4
  <2>2. Row(k + (m - k)) = Row(k) + Row(m - k)
    BY <1>3, <2>1
  <2>3. Row(k) \in Nat /\ Row(m - k) \in Nat
    BY <1>2, <2>1
  <2> QED  BY <2>1, <2>2, <2>3
<1>5. ASSUME NEW k \in Nat, NEW m \in Nat, k < m PROVE Row(k) + CANDI_NUM <= Row(m)
  BY <1>2, <1>4, <1>5
<1> QED  BY <1>2, <1>3, <1>4, <1>5

LEMMA Positions ==
  ASSUME NEW infos \in Seq(LookupRst)
  PROVE  /\ HeadPos(infos, 1) = 0 /\ MetaPos(infos, 1) = 0
         /\ \A k \in 1 .. Len(infos) :
              /\ HeadPos(infos, k + 1) = HeadPos(infos, k) + infos[k].headShift
              /\ MetaPos(infos, k + 1) = MetaPos(infos, k) + infos[k].metaShift
         /\ \A k \in 1 .. Len(infos) + 1 :
              /\ HeadPos(infos, k) \in Nat /\ HeadPos(infos, k) <= Row(k - 1)
              /\ MetaPos(infos, k) \in Nat
<1> DEFINE hs == [i \in 1 .. Len(infos) |-> infos[i].headShift]
           ms == [i \in 1 .. Len(infos) |-> infos[i].metaShift]
           N == Len(infos)
<1>1. N \in Nat /\ \A i \in 1 .. N : hs[i] \in 0 .. CANDI_NUM - 1 /\ ms[i] \in 0 .. CANDI_NUM - 1
  <2>1. \A i \in 1 .. N : infos[i] \in LookupRst
    OBVIOUS
  <2> QED  BY <2>1 DEF LookupRst, UnitIds
<1>2. \A k \in Nat : HeadPos(infos, k + 1) = SumTo(hs, k) /\ MetaPos(infos, k + 1) = SumTo(ms, k)
  <2>1. \A k : HeadPos(infos, k) = SumTo(hs, k - 1) /\ MetaPos(infos, k) = SumTo(ms, k - 1)
    BY DEF HeadPos, MetaPos
  <2>2. \A k \in Nat : (k + 1) - 1 = k
    OBVIOUS
  <2> QED  BY <2>1, <2>2
<1>3. /\ SumTo(hs, 0) = 0 /\ SumTo(ms, 0) = 0
      /\ \A n \in Nat : SumTo(hs, n + 1) = SumTo(hs, n) + hs[n + 1]
      /\ \A n \in Nat : SumTo(ms, n + 1) = SumTo(ms, n) + ms[n + 1]
  BY SumStep
<1>4. HeadPos(infos, 1) = 0 /\ MetaPos(infos, 1) = 0
  <2>1. 0 + 1 = 1
    OBVIOUS
  <2> QED  BY <1>2, <1>3, <2>1
<1>5. \A k \in 1 .. N :
        /\ HeadPos(infos, k + 1) = HeadPos(infos, k) + hs[k]
        /\ MetaPos(infos, k + 1) = MetaPos(infos, k) + ms[k]
  <2> TAKE k \in 1 .. N
  <2>1. k \in Nat /\ k - 1 \in Nat /\ (k - 1) + 1 = k
    OBVIOUS
  <2> QED  BY <1>2, <1>3, <2>1
<1> DEFINE Good(n) == /\ HeadPos(infos, n + 1) \in Nat /\ HeadPos(infos, n + 1) <= Row(n)
                      /\ MetaPos(infos, n + 1) \in Nat
           S == {n \in Nat : n <= N => Good(n)}
<1>6. 0 \in S
  <2>1. 0 + 1 = 1
    OBVIOUS
  <2> QED  BY <1>4, <2>1, RowLemma
<1>7. ASSUME NEW n \in Nat, n \in S PROVE n + 1 \in S
  <2> SUFFICES ASSUME n + 1 <= N PROVE Good(n + 1)
    OBVIOUS
  <2>1. Good(n) /\ n + 1 \in 1 .. N
    BY <1>1, <1>7
  <2>2. /\ HeadPos(infos, (n + 1) + 1) = HeadPos(infos, n + 1) + hs[n + 1]
        /\ MetaPos(infos, (n + 1) + 1) = MetaPos(infos, n + 1) + ms[n + 1]
    BY <1>5, <2>1
  <2>3. Row(n + 1) = Row(n) + CANDI_NUM /\ Row(n) \in Nat
    BY RowLemma
  <2>4. hs[n + 1] \in 0 .. CANDI_NUM - 1 /\ ms[n + 1] \in 0 .. CANDI_NUM - 1
    BY <1>1, <2>1
  <2> HIDE DEF hs, ms, N
  <2> QED  BY <2>1, <2>2, <2>3, <2>4, WidthAssumption
<1> HIDE DEF S
<1>8. Nat \subseteq S
  BY <1>6, <1>7, InductionOnSets
<1>9. ASSUME NEW k \in 1 .. N + 1
      PROVE  /\ HeadPos(infos, k) \in Nat /\ HeadPos(infos, k) <= Row(k - 1)
             /\ MetaPos(infos, k) \in Nat
  <2>1. k - 1 \in Nat /\ (k - 1) + 1 = k /\ k - 1 <= N
    BY <1>1
  <2>2. k - 1 \in S
    BY <1>8, <2>1
  <2> QED  BY <2>1, <2>2 DEF S
<1> QED  BY <1>4, <1>5, <1>9

LEMMA PositionsKept ==
  ASSUME NEW a \in Seq(LookupRst), NEW b \in Seq(LookupRst), Len(a) <= Len(b),
         \A i \in 1 .. Len(a) : b[i] = a[i]
  PROVE  \A k \in 1 .. Len(a) + 1 :
           HeadPos(b, k) = HeadPos(a, k) /\ MetaPos(b, k) = MetaPos(a, k)
<1> DEFINE Same(n) == HeadPos(b, n + 1) = HeadPos(a, n + 1) /\ MetaPos(b, n + 1) = MetaPos(a, n + 1)
           S == {n \in Nat : n <= Len(a) => Same(n)}
<1>1. 0 \in S
  <2>1. 0 + 1 = 1
    OBVIOUS
  <2> QED  BY <2>1, Positions
<1>2. ASSUME NEW n \in Nat, n \in S PROVE n + 1 \in S
  <2> SUFFICES ASSUME n + 1 <= Len(a) PROVE Same(n + 1)
    OBVIOUS
  <2>1. n + 1 \in 1 .. Len(a) /\ n + 1 \in 1 .. Len(b) /\ Same(n)
    BY <1>2
  <2>2. /\ HeadPos(a, (n + 1) + 1) = HeadPos(a, n + 1) + a[n + 1].headShift
        /\ MetaPos(a, (n + 1) + 1) = MetaPos(a, n + 1) + a[n + 1].metaShift
        /\ HeadPos(b, (n + 1) + 1) = HeadPos(b, n + 1) + b[n + 1].headShift
        /\ MetaPos(b, (n + 1) + 1) = MetaPos(b, n + 1) + b[n + 1].metaShift
    BY <2>1, Positions
  <2>3. b[n + 1] = a[n + 1]
    BY <2>1
  <2> QED  BY <2>1, <2>2, <2>3
<1> HIDE DEF S
<1>3. Nat \subseteq S
  BY <1>1, <1>2, InductionOnSets
<1>4. ASSUME NEW k \in 1 .. Len(a) + 1
      PROVE  HeadPos(b, k) = HeadPos(a, k) /\ MetaPos(b, k) = MetaPos(a, k)
  <2>1. k - 1 \in Nat /\ (k - 1) + 1 = k /\ k - 1 <= Len(a)
    OBVIOUS
  <2>2. k - 1 \in S
    BY <1>3, <2>1
  <2> QED  BY <2>1, <2>2 DEF S
<1> QED  BY <1>4

-----------------------------------------------------------------------------
(* A packet as a row of units.                                             *)
LEMMA RowOf ==
  ASSUME NEW n \in Nat
  PROVE  \E k \in Nat, u \in UnitIds : n = Row(k) + u
<1> DEFINE k == n \div CANDI_NUM
           u == n % CANDI_NUM
<1>1. CANDI_NUM \in Nat \ {0}
  BY WidthAssumption
<1>2. n = CANDI_NUM * k + u /\ k \in Int /\ u \in 0 .. CANDI_NUM - 1
  BY <1>1
<1> HIDE DEF k, u
<1>3. k <= -1 => CANDI_NUM * k <= -CANDI_NUM
  BY <1>1, <1>2
<1>4. k \in Nat
  BY <1>1, <1>2, <1>3
<1> QED  BY <1>1, <1>2, <1>4 DEF Row, UnitIds

LEMMA FlatAt ==
  ASSUME NEW q, NEW k \in Nat, NEW u \in UnitIds
  PROVE  Flat(q, Row(k) + u) = IF k < Len(q) THEN q[k + 1][u] ELSE Zero
<1> DEFINE n == k * CANDI_NUM + u
           d == n \div CANDI_NUM
           r == n % CANDI_NUM
<1>1. CANDI_NUM \in Nat \ {0} /\ u \in 0 .. CANDI_NUM - 1 /\ n \in Int
  BY WidthAssumption DEF UnitIds
<1>2. n = CANDI_NUM * d + r /\ d \in Int /\ r \in 0 .. CANDI_NUM - 1
  BY <1>1
<1>3. n = CANDI_NUM * k + u
  BY <1>1
<1> HIDE DEF n, d, r
<1> DEFINE m == d - k
<1>4. CANDI_NUM * m = u - r
  <2>1. CANDI_NUM * m = CANDI_NUM * d - CANDI_NUM * k
    BY <1>1, <1>2
  <2> QED  BY <1>1, <1>2, <1>3, <2>1
<1>5. m \in Int /\ CANDI_NUM * m < CANDI_NUM /\ CANDI_NUM * m > -CANDI_NUM
  BY <1>1, <1>2, <1>4
<1>6. d = k + m
  BY <1>2
<1> HIDE DEF m
<1>7. /\ m >= 1 => CANDI_NUM * m >= CANDI_NUM
      /\ m <= -1 => CANDI_NUM * m <= -CANDI_NUM
  BY <1>1, <1>5
<1>8. m = 0
  BY <1>1, <1>5, <1>7
<1>9. d = k /\ r = u
  BY <1>1, <1>2, <1>4, <1>6, <1>8
<1> QED  BY <1>9 DEF Flat, Row, n, d, r

LEMMA FlatLemma ==
  ASSUME NEW q \in Seq(Data), NEW n \in Nat
  PROVE  /\ Flat(q, n) \in Unit
         /\ n >= Row(Len(q)) => Flat(q, n) = Zero
         /\ n < Row(Len(q)) => \A d \in Data : Flat(Append(q, d), n) = Flat(q, n)
<1>1. PICK k \in Nat, u \in UnitIds : n = Row(k) + u
  BY RowOf
<1>2. \A p : Flat(p, n) = IF k < Len(p) THEN p[k + 1][u] ELSE Zero
  BY <1>1, FlatAt
<1>3. u \in 0 .. CANDI_NUM - 1 /\ CANDI_NUM \in Nat /\ Row(k) \in Nat /\ Len(q) \in Nat
  <2>1. Len(q) \in Nat
    OBVIOUS
  <2>2. Row(k) \in Nat
    BY RowLemma
  <2> QED  BY <2>1, <2>2, WidthAssumption DEF UnitIds
<1>4. Flat(q, n) \in Unit
  <2>1. CASE k < Len(q)
    <3>1. q[k + 1] \in Data
      BY <1>3, <2>1
    <3> QED  BY <1>2, <2>1, <3>1 DEF Data
  <2>2. CASE ~(k < Len(q))
    BY <1>2, <2>2 DEF Zero, Unit, Word
  <2> QED  BY <2>1, <2>2
<1>5. ASSUME n >= Row(Len(q)) PROVE Flat(q, n) = Zero
  <2>1. k < Len(q) => Row(k) + CANDI_NUM <= Row(Len(q))
    BY <1>3, RowLemma
  <2>2. Row(Len(q)) \in Nat
    BY <1>3, RowLemma
  <2>3. ~(k < Len(q))
    BY <1>1, <1>3, <1>5, <2>1, <2>2
  <2> QED  BY <1>2, <2>3
<1>6. ASSUME n < Row(Len(q)), NEW d \in Data PROVE Flat(Append(q, d), n) = Flat(q, n)
  <2>1. Len(q) <= k => Row(Len(q)) <= Row(k)
    BY <1>3, RowLemma
  <2>2. Row(Len(q)) \in Nat
    BY <1>3, RowLemma
  <2>3. k < Len(q)
    BY <1>1, <1>3, <1>6, <2>1, <2>2
  <2>4. Len(Append(q, d)) = Len(q) + 1 /\ Append(q, d)[k + 1] = q[k + 1]
    BY <1>3, <2>3
  <2>5. k < Len(q) + 1
    BY <1>3, <2>3
  <2> QED  BY <1>2, <2>3, <2>4, <2>5
<1> QED  BY <1>4, <1>5, <1>6

(* The shifter of a layer moves a window of a packet along its row, behind *)
(* the tail too, where the slice that follows is empty.                    *)
LEMMA WindowShifted ==
  ASSUME NEW q \in Seq(Data), NEW pos \in Nat, NEW s \in UnitIds, NEW next,
         \/ next = Window(q, pos + CANDI_NUM)
         \/ next = ZeroData /\ pos + CANDI_NUM >= Row(Len(q))
  PROVE  ShiftedData(Window(q, pos), next, s) = Window(q, pos + s)
<1>1. CANDI_NUM \in Nat \ {0} /\ s \in 0 .. CANDI_NUM - 1 /\ \A u \in UnitIds : u \in 0 .. CANDI_NUM - 1
  BY WidthAssumption DEF UnitIds
<1>2. ASSUME NEW u \in UnitIds PROVE next[u] = Flat(q, pos + CANDI_NUM + u)
  <2>1. CASE next = Window(q, pos + CANDI_NUM)
    BY <2>1 DEF Window
  <2>2. CASE next = ZeroData /\ pos + CANDI_NUM >= Row(Len(q))
    <3>1. Row(Len(q)) \in Nat /\ pos + CANDI_NUM + u \in Nat /\ pos + CANDI_NUM + u >= Row(Len(q))
      <4>1. Len(q) \in Nat
        OBVIOUS
      <4>2. Row(Len(q)) \in Nat
        BY <4>1, RowLemma
      <4> QED  BY <1>1, <2>2, <4>2
    <3> QED  BY <2>2, <3>1, FlatLemma DEF ZeroData
  <2> QED  BY <2>1, <2>2
<1>3. ASSUME NEW u \in UnitIds
      PROVE  (IF u + s < CANDI_NUM THEN Window(q, pos)[u + s] ELSE next[u + s - CANDI_NUM])
               = Flat(q, pos + s + u)
  <2>1. CASE u + s < CANDI_NUM
    <3>1. u + s \in UnitIds /\ pos + (u + s) = pos + s + u
      BY <1>1, <2>1 DEF UnitIds
    <3> QED  BY <2>1, <3>1 DEF Window
  <2>2. CASE ~(u + s < CANDI_NUM)
    <3>1. u + s - CANDI_NUM \in UnitIds /\ pos + CANDI_NUM + (u + s - CANDI_NUM) = pos + s + u
      BY <1>1, <2>2 DEF UnitIds
    <3> QED  BY <1>2, <2>2, <3>1
  <2> QED  BY <2>1, <2>2
<1> QED  BY <1>3 DEF ShiftedData, Window

-----------------------------------------------------------------------------
(* The widths of what the operators of a layer return.                     *)
LEMMA ModLemma ==
  ASSUME NEW a \in Nat, NEW n \in Nat \ {0}
  PROVE  a % n \in 0 .. n - 1
  OBVIOUS

LEMMA OffsetTypes ==
  ASSUME NEW w \in ConfWord \cup {NoWord}
  PROVE  /\ w.kind = "typeOffset" => w.offset % TypeCandiNum \in TypeOffsets
         /\ w.kind \in {"keyOffset", "headShift", "metaShift"} => w.offset % CANDI_NUM \in UnitIds
<1>1. w.kind \in {"typeOffset", "keyOffset", "headShift", "metaShift"} => w.offset \in Nat
  BY DEF ConfWord, NoWord
<1>2. TypeCandiNum \in Nat \ {0} /\ CANDI_NUM \in Nat \ {0}
  BY WidthAssumption DEF TypeCandiNum
<1>3. \A a \in Nat : a % TypeCandiNum \in TypeOffsets /\ a % CANDI_NUM \in UnitIds
  BY <1>2, ModLemma DEF TypeOffsets, UnitIds
<1> QED  BY <1>1, <1>3

LEMMA ConstantTypes ==
  /\ 0 \in UnitIds /\ 0 \in TypeOffsets /\ CANDI_NUM - 1 \in UnitIds /\ Zero \in Unit
  /\ ZeroData \in Data /\ ZeroSlice \in Slice /\ EmptyMeta \in Slice /\ ZeroRst \in LookupRst
  /\ \A d \in Data, b, t \in BOOLEAN : HeadSlice(d, b, t) \in Slice
<1>1. TypeCandiNum \in Nat \ {0}
  BY WidthAssumption DEF TypeCandiNum
<1>2. 0 \in UnitIds /\ 0 \in TypeOffsets /\ CANDI_NUM - 1 \in UnitIds /\ Zero \in Unit
  BY <1>1, WidthAssumption DEF UnitIds, TypeOffsets, Zero, Unit, Word
<1>3. ZeroData \in Data
  BY <1>2 DEF ZeroData, Data
<1>4. ZeroSlice \in Slice /\ EmptyMeta \in Slice
  BY <1>2, <1>3 DEF ZeroSlice, EmptyMeta, Slice
<1>5. ZeroRst \in LookupRst
  BY <1>2 DEF ZeroRst, LookupRst
<1>6. \A d \in Data, b, t \in BOOLEAN : HeadSlice(d, b, t) \in Slice
  BY <1>2 DEF HeadSlice, Slice
<1> QED  BY <1>2, <1>3, <1>4, <1>5, <1>6

LEMMA MoverTypes ==
  /\ \A pre, next \in Data, s \in UnitIds : ShiftedData(pre, next, s) \in Data
  /\ \A d, e \in Data : MergeData(d, e) \in Data
  /\ \A f \in [KeyIds -> Unit], at \in UnitIds : PlaceFields(f, at) \in Data
  /\ \A d \in Data, r \in LookupRst : ExtractTypes(d, r) \in [TypeIds -> Type]
  /\ \A d \in Data, r \in LookupRst : ExtractKeys(d, r) \in [KeyIds -> Unit]
<1>1. ASSUME NEW pre \in Data, NEW next \in Data, NEW s \in UnitIds
      PROVE  ShiftedData(pre, next, s) \in Data
  <2>1. \A u \in UnitIds : u + s < CANDI_NUM => u + s \in UnitIds
    BY WidthAssumption DEF UnitIds
  <2>2. \A u \in UnitIds : ~(u + s < CANDI_NUM) => u + s - CANDI_NUM \in UnitIds
    BY WidthAssumption DEF UnitIds
  <2> QED  BY <2>1, <2>2 DEF ShiftedData, Data
<1>2. ASSUME NEW d \in Data, NEW e \in Data PROVE MergeData(d, e) \in Data
  BY DEF MergeData, Data, Unit, Word
<1>3. ASSUME NEW f \in [KeyIds -> Unit], NEW at \in UnitIds
      PROVE  PlaceFields(f, at) \in Data
  BY DEF PlaceFields, Data, Unit, Word, Zero
<1>4. ASSUME NEW d \in Data, NEW r \in LookupRst
      PROVE  ExtractTypes(d, r) \in [TypeIds -> Type]
  <2>1. \A off : TypeField(d, off) \in Type
    BY DEF TypeField, Type, Word
  <2> QED  BY <2>1 DEF ExtractTypes
<1>5. ASSUME NEW d \in Data, NEW r \in LookupRst
      PROVE  ExtractKeys(d, r) \in [KeyIds -> Unit]
  BY ConstantTypes DEF ExtractKeys, LookupRst, Data
<1> QED  BY <1>1, <1>2, <1>3, <1>4, <1>5

LEMMA ShiftClockType ==
  ASSUME NEW s \in ShiftHeadRegs, NEW h \in Slice, NEW m \in Slice,
         NEW hs \in UnitIds, NEW ms \in UnitIds, NEW f \in [KeyIds -> Unit]
  PROVE  ShiftHeadClock(s, h, m, hs, ms, f) \in ShiftHeadRegs
<1>1. NextHead(s, h) \in Slice
  BY MoverTypes DEF NextHead, ShiftHeadRegs, Slice
<1>2. NextMeta(s) \in Slice
  BY MoverTypes DEF NextMeta, ShiftHeadRegs, Slice
<1>3. NextMetaShift(s, h, m, ms) \in UnitIds
  <2>1. MetaShiftSum(s, h, m, ms) \in UnitIds
    <3>1. (IF h.start THEN ms ELSE s.metaShift) + m.offset \in Nat
      BY DEF ShiftHeadRegs, Slice, UnitIds
    <3> QED  BY <3>1, ModLemma, WidthAssumption DEF MetaShiftSum, UnitIds
  <2> QED  BY <2>1 DEF NextMetaShift, ShiftHeadRegs
<1>4. StartBitMetaTag(s, m) \in BOOLEAN
  BY DEF StartBitMetaTag
<1>5. PlaceFields(f, m.offset) \in Data
  BY MoverTypes DEF Slice
<1> QED  BY <1>1, <1>2, <1>3, <1>4, <1>5 DEF ShiftHeadClock, ShiftHeadRegs

Tables == [RuleIds -> TypeRule]

LEMMA RuleTypes ==
  /\ \A s \in TypeRule, w \in ConfWord \cup {NoWord} : Staged(s, w) \in TypeRule
  /\ \A w : Committing(w) \in SUBSET RuleIds
  /\ \A t \in Tables, s \in TypeRule, e \in SUBSET RuleIds : Written(t, e, s) \in Tables
  /\ \A t \in Tables : Invalidated(t) \in Tables
<1>1. ASSUME NEW s \in TypeRule, NEW w \in ConfWord \cup {NoWord}
      PROVE  Staged(s, w) \in TypeRule
  <2>1. w.kind = "rule" => w.valid \in BOOLEAN
    BY DEF ConfWord, NoWord
  <2>2. w.kind = "type" => w.data \in Type /\ w.mask \in Type
    BY DEF ConfWord, NoWord
  <2>3. w.kind = "typeOffset" => w.offset % TypeCandiNum \in TypeOffsets
    BY OffsetTypes
  <2>4. w.kind = "keyOffset" => w.valid \in BOOLEAN
    BY DEF ConfWord, NoWord
  <2>5. w.kind \in {"keyOffset", "headShift", "metaShift"} => w.offset % CANDI_NUM \in UnitIds
    BY OffsetTypes
  <2> QED  BY <2>1, <2>2, <2>3, <2>4, <2>5, ConstantTypes DEF Staged, TypeRule
<1>2. \A w : Committing(w) \in SUBSET RuleIds
  BY DEF Committing
<1>3. ASSUME NEW t \in Tables, NEW s \in TypeRule, NEW e \in SUBSET RuleIds
      PROVE  Written(t, e, s) \in Tables
  BY DEF Written, Tables
<1>4. ASSUME NEW t \in Tables PROVE Invalidated(t) \in Tables
  <2>1. \A r \in TypeRule : [r EXCEPT !.valid = FALSE] \in TypeRule
    BY DEF TypeRule
  <2> QED  BY <2>1 DEF Invalidated, Tables
<1> QED  BY <1>1, <1>2, <1>3, <1>4

(* A lookup has a result: among the rules hit, one has the lowest number.  *)
LEMMA LookupTyped ==
  ASSUME NEW t \in Tables, NEW type
  PROVE  LookupType(t, type) \in LookupRst
<1>1. CASE HitRules(t, type) = {}
  BY <1>1, ConstantTypes DEF LookupType
<1>2. CASE HitRules(t, type) # {}
  <2>1. HitRules(t, type) \subseteq Nat /\ HitRules(t, type) \subseteq RuleIds
    BY NumAssumption DEF HitRules, RuleIds
  <2>2. \E i \in HitRules(t, type) : \A k \in HitRules(t, type) : i <= k
    BY <1>2, <2>1, LeastNumber
  <2>3. FirstHit(t, type) \in RuleIds
    BY <2>1, <2>2 DEF FirstHit
  <2>4. t[FirstHit(t, type)] \in TypeRule
    BY <2>3 DEF Tables
  <2>5. \A r \in TypeRule : RstOf(r) \in LookupRst
    BY DEF RstOf, TypeRule, LookupRst
  <2> QED  BY <1>2, <2>4, <2>5 DEF LookupType
<1> QED  BY <1>1, <1>2

LEMMA LayerClockType ==
  ASSUME NEW l \in LayerRegs, NEW in \in LayerInfo, NEW w \in ConfWord \cup {NoWord}
  PROVE  LayerClock(l, in, w) \in LayerRegs
<1>1. in.head \in Slice /\ in.head.data \in Data /\ in.meta \in Slice /\ in.info \in LookupRst
  BY DEF LayerInfo, Slice
<1>2. in.info.headShift \in UnitIds /\ in.info.metaShift \in UnitIds
  BY <1>1 DEF LookupRst
<1>3. /\ ExtractTypes(in.head.data, in.info) \in [TypeIds -> Type]
      /\ ExtractKeys(in.head.data, in.info) \in [KeyIds -> Unit]
  BY <1>1, MoverTypes
<1>4. LookupType(l.table, l.type) \in LookupRst
  BY LookupTyped DEF LayerRegs, Tables
<1>5. ShiftHeadClock(l.sh, l.head, l.meta, l.headShift, l.metaShift, l.key) \in ShiftHeadRegs
  BY ShiftClockType DEF LayerRegs
<1>6. Staged(l.stage, w) \in TypeRule /\ Committing(w) \in SUBSET RuleIds
  BY RuleTypes DEF LayerRegs
<1>7. Written(l.table, l.wren, l.stage) \in [RuleIds -> TypeRule]
  BY RuleTypes DEF LayerRegs, Tables
<1>8. l.s1 \in LookupRst
  BY DEF LayerRegs
<1> QED  BY <1>1, <1>2, <1>3, <1>4, <1>5, <1>6, <1>7, <1>8 DEF LayerClock, LayerRegs

LEMMA InfoTypes ==
  /\ \A l \in LayerRegs : LayerOut(l) \in LayerInfo
  /\ \A r \in LookupRst, w \in ConfWord \cup {NoWord} : Info0Conf(r, w) \in LookupRst
  /\ \A k \in Layers, w \in ConfWord \cup {NoWord} : WordFor(k, w) \in ConfWord \cup {NoWord}
  /\ \A w \in ConfWord \cup {NoWord} : WordFor(0, w) \in ConfWord \cup {NoWord}
<1>1. \A l \in LayerRegs : LayerOut(l) \in LayerInfo
  BY DEF LayerOut, LayerInfo, LayerRegs, ShiftHeadRegs
<1>2. ASSUME NEW r \in LookupRst, NEW w \in ConfWord \cup {NoWord}
      PROVE  Info0Conf(r, w) \in LookupRst
  <2>1. w.kind = "typeOffset" => w.offset % TypeCandiNum \in TypeOffsets
    BY OffsetTypes
  <2>2. w.kind = "keyOffset" => w.valid \in BOOLEAN
    BY DEF ConfWord, NoWord
  <2>3. w.kind \in {"keyOffset", "headShift", "metaShift"} => w.offset % CANDI_NUM \in UnitIds
    BY OffsetTypes
  <2> QED  BY <2>1, <2>2, <2>3 DEF Info0Conf, LookupRst
<1> QED  BY <1>1, <1>2 DEF WordFor

(* A clock of all the layers.                                              *)
LEMMA ClockType ==
  ASSUME TypeOK, NEW h \in Slice, NEW m \in Slice, NEW w \in ConfWord \cup {NoWord},
         Clock(h, m, w)
  PROVE  layer' \in [Layers -> LayerRegs] /\ info0' \in LookupRst
<1> DEFINE in(k) == IF k = 1 THEN [head |-> h, meta |-> m, info |-> info0]
                    ELSE LayerOut(layer[k - 1])
<1>1. ASSUME NEW k \in Layers PROVE in(k) \in LayerInfo
  <2>1. k # 1 => k - 1 \in Layers
    BY TopAssumption DEF Layers
  <2> QED  BY <2>1, InfoTypes DEF TypeOK, LayerInfo
<1>2. layer' = [k \in Layers |-> LayerClock(layer[k], in(k), WordFor(k, w))]
  BY DEF Clock
<1> HIDE DEF in
<1>3. layer' \in [Layers -> LayerRegs]
  BY <1>1, <1>2, LayerClockType, InfoTypes DEF TypeOK
<1>4. info0' \in LookupRst
  BY InfoTypes DEF Clock, TypeOK
<1> QED  BY <1>3, <1>4

(* The registers after the pipeline has flushed, and after a reset.        *)
LEMMA RegTypes ==
  /\ \A t \in Tables, r \in TypeRule : ZeroLayer(t, r) \in LayerRegs
  /\ \A l \in LayerRegs : LayerReset(l) \in LayerRegs
<1>1. ASSUME NEW t \in Tables, NEW r \in TypeRule PROVE ZeroLayer(t, r) \in LayerRegs
  <2> DEFINE sh0 == [preHead |-> ZeroSlice, preMeta |-> ZeroSlice,
                     head |-> ZeroSlice, meta |-> ZeroSlice, headShift |-> 0,
                     metaShift |-> 0, startBit |-> FALSE, toShift |-> FALSE,
                     extMeta |-> ZeroData]
  <2>1. sh0 \in ShiftHeadRegs
    BY ConstantTypes DEF ShiftHeadRegs
  <2>2. [i \in TypeIds |-> Zero] \in [TypeIds -> Type]
    BY DEF Zero, Type, Word
  <2> HIDE DEF sh0
  <2>3. ZeroLayer(t, r) =
          [type |-> [i \in TypeIds |-> Zero], key |-> [j \in KeyIds |-> Zero],
           head |-> ZeroSlice, meta |-> ZeroSlice, headShift |-> 0, metaShift |-> 0,
           s1 |-> ZeroRst, s2 |-> ZeroRst, sh |-> sh0,
           stage |-> r, wren |-> {}, table |-> t]
    BY DEF ZeroLayer, sh0
  <2> QED  BY <2>1, <2>2, <2>3, ConstantTypes DEF LayerRegs, Tables
<1>2. \A l \in LayerRegs : LayerReset(l) \in LayerRegs
  BY RuleTypes DEF LayerReset, LayerRegs, Tables
<1> QED  BY <1>1, <1>2

(* The pipeline registers of every layer keep their widths.                *)
THEOREM TypeCorrect == Spec => []TypeOK
<1>1. Init => TypeOK
  <2> SUFFICES ASSUME Init PROVE TypeOK
    OBVIOUS
  <2>1. PICK c \in Configs :
          /\ info0 = c.info0
          /\ layer = [k \in Layers |-> ZeroLayer(c.tables[k], c.tables[k][RULE_NUM - 1])]
    BY DEF Init
  <2>2. c.info0 \in LookupRst /\ c.tables \in [Layers -> Tables]
    BY TopAssumption DEF Layers, Tables
  <2>3. \A k \in Layers : c.tables[k][RULE_NUM - 1] \in TypeRule
    <3>1. RULE_NUM - 1 \in RuleIds
      BY NumAssumption DEF RuleIds
    <3> QED  BY <2>2, <3>1 DEF Tables
  <2> QED  BY <2>1, <2>2, <2>3, RegTypes DEF Init, TypeOK
<1>2. TypeOK /\ [Next]_vars => TypeOK'
  <2> SUFFICES ASSUME TypeOK, [Next]_vars PROVE TypeOK'
    OBVIOUS
  <2>0. ConfInputs \cup {NoWord} \subseteq ConfWord \cup {NoWord}
    BY TopAssumption
  <2>1. \A w : Write(w) => words' \in Nat
    BY DEF Write, TypeOK
  <2>2. CASE Reset
    BY <2>2, RegTypes DEF Reset, TypeOK
  <2>3. ASSUME NEW w \in ConfInputs \cup {NoWord}, Gap(w) PROVE TypeOK'
    BY <2>0, <2>1, <2>3, ClockType, ConstantTypes DEF Gap, TypeOK
  <2>4. ASSUME NEW w \in ConfInputs \cup {NoWord}, NEW d \in DataInputs, NEW tail \in BOOLEAN,
               StartSlice(d, tail, w)
        PROVE  TypeOK'
    <3>1. HeadSlice(d, TRUE, tail) \in Slice
      BY ConstantTypes, TopAssumption
    <3>2. layer' \in [Layers -> LayerRegs] /\ info0' \in LookupRst
      BY <2>0, <2>4, <3>1, ClockType, ConstantTypes DEF StartSlice
    <3> QED  BY <2>1, <2>4, <3>2 DEF StartSlice, TypeOK
  <2>5. ASSUME NEW w \in ConfInputs \cup {NoWord}, NEW d \in DataInputs, NEW tail \in BOOLEAN,
               NextSlice(d, tail, w)
        PROVE  TypeOK'
    <3>1. HeadSlice(d, FALSE, tail) \in Slice
      BY ConstantTypes, TopAssumption
    <3>2. layer' \in [Layers -> LayerRegs] /\ info0' \in LookupRst
      BY <2>0, <2>5, <3>1, ClockType, ConstantTypes DEF NextSlice
    <3> QED  BY <2>1, <2>5, <3>2 DEF NextSlice, TypeOK
  <2>6. CASE UNCHANGED vars
    BY <2>6 DEF TypeOK, vars
  <2> QED  BY <2>2, <2>3, <2>4, <2>5, <2>6 DEF Next
<1> QED  BY <1>1, <1>2, PTL DEF Spec

-----------------------------------------------------------------------------
(* The packets in flight, apart from the pipeline: a packet has as many    *)
(* lookup results as layers it has been looked up in, and between the      *)
(* packets the input left a gap.                                           *)
Packet == [slices : Seq(Data), age : Nat, infos : Seq(LookupRst)]

PacketOK(p) ==
  /\ p \in Packet
  /\ Len(p.slices) \in 1 .. p.age
  /\ Len(p.infos) \in 1 .. NUM_LAYER + 1
  /\ \A k \in Layers : LookupAge(k) < p.age <=> k + 1 <= Len(p.infos)

FlightOK(fl) ==
  /\ fl \in Seq(Packet)
  /\ \A i \in 1 .. Len(fl) : PacketOK(fl[i]) /\ fl[i].age < Latency * NUM_LAYER + Len(fl[i].slices)
  /\ \A i, j \in 1 .. Len(fl) : i < j => fl[i].age > fl[j].age + Len(fl[i].slices)

(* Packet q is packet p one clock later, when the slice "in" arrives.      *)
Grown(p, q, lay, in) ==
  /\ q.age = p.age + 1
  /\ q.slices = IF p.age = Len(p.slices) /\ in.valid THEN Append(p.slices, in.data) ELSE p.slices
  /\ Len(p.infos) <= Len(q.infos)
  /\ \A n \in 1 .. Len(p.infos) : q.infos[n] = p.infos[n]
  /\ \A k \in Layers : p.age = LookupAge(k) => q.infos[k + 1] = Looked(p, k, lay[k].table)

(* The packets fl become the packets fl2: none appears but with its first  *)
(* slice, and none disappears but with its last.                           *)
Moved(fl, fl2, lay, in) ==
  /\ \A j \in 1 .. Len(fl2) :
       fl2[j].age = 1 \/ \E i \in 1 .. Len(fl) : Grown(fl[i], fl2[j], lay, in)
  /\ \A i \in 1 .. Len(fl) :
       \/ fl[i].age + 1 >= Latency * NUM_LAYER + Len(fl[i].slices)
       \/ \E j \in 1 .. Len(fl2) : Grown(fl[i], fl2[j], lay, in)

LEMMA PacketFacts ==
  ASSUME NEW p, PacketOK(p)
  PROVE  /\ p.slices \in Seq(Data) /\ p.age \in Nat /\ p.infos \in Seq(LookupRst)
         /\ Len(p.slices) \in Nat /\ Len(p.infos) \in Nat
         /\ 1 <= Len(p.slices) /\ Len(p.slices) <= p.age /\ 1 <= Len(p.infos)
         /\ \A k \in Layers : p.age >= LookupAge(k) => k <= Len(p.infos)
         /\ Len(p.infos) <= p.age
<1>1. /\ p.slices \in Seq(Data) /\ p.age \in Nat /\ p.infos \in Seq(LookupRst)
      /\ Len(p.slices) \in Nat /\ Len(p.infos) \in Nat
  BY DEF PacketOK, Packet
<1>2. 1 <= Len(p.slices) /\ Len(p.slices) <= p.age /\ 1 <= Len(p.infos)
  BY <1>1 DEF PacketOK
<1>3. ASSUME NEW k \in Layers, p.age >= LookupAge(k) PROVE k <= Len(p.infos)
  <2>1. CASE k = 1
    BY <1>2, <2>1
  <2>2. CASE k # 1
    <3>1. k - 1 \in Layers /\ LookupAge(k - 1) < p.age
      BY <1>1, <1>3, <2>2, TopAssumption DEF Layers, LookupAge, Latency
    <3>2. (k - 1) + 1 <= Len(p.infos)
      BY <3>1 DEF PacketOK
    <3> QED  BY <3>2 DEF Layers
  <2> QED  BY <2>1, <2>2
<1>4. Len(p.infos) <= p.age
  <2>1. CASE Len(p.infos) = 1
    BY <1>1, <1>2, <2>1
  <2>2. CASE Len(p.infos) # 1
    <3> DEFINE k == Len(p.infos) - 1
    <3>1. k \in Layers /\ k + 1 <= Len(p.infos)
      <4>1. Len(p.infos) \in 1 .. NUM_LAYER + 1
        BY DEF PacketOK
      <4>2. NUM_LAYER \in Nat
        BY TopAssumption
      <4>3. \A n \in Nat : n \in 1 .. NUM_LAYER + 1 /\ n # 1 => n - 1 \in Layers /\ (n - 1) + 1 <= n
        BY <4>2 DEF Layers
      <4> QED  BY <1>1, <2>2, <4>1, <4>3
    <3>2. LookupAge(k) < p.age
      BY <3>1 DEF PacketOK
    <3>3. LookupAge(k) = 3 * (k - 1) + 1
      BY DEF LookupAge, Latency
    <3>4. k \in Nat /\ k >= 1 /\ Len(p.infos) = k + 1
      BY <1>1, <3>1, TopAssumption DEF Layers
    <3> HIDE DEF k
    <3> QED  BY <1>1, <3>2, <3>3, <3>4
  <2> QED  BY <2>1, <2>2
<1> QED  BY <1>1, <1>2, <1>3, <1>4

(* A packet one clock older is that packet grown.                          *)
LEMMA AgedGrown ==
  ASSUME TypeOK, NEW p, PacketOK(p), NEW in, in.data \in Data, NEW more,
         more = IF p.age = Len(p.slices) /\ in.valid THEN <<in.data>> ELSE <<>>
  PROVE  /\ PacketOK(Aged(p, more)) /\ Grown(p, Aged(p, more), layer, in)
         /\ Len(Aged(p, more).slices) >= Len(p.slices)
<1> DEFINE q == Aged(p, more)
<1>0. /\ p.slices \in Seq(Data) /\ p.age \in Nat /\ p.infos \in Seq(LookupRst)
      /\ Len(p.slices) \in Nat /\ Len(p.infos) \in Nat
      /\ 1 <= Len(p.slices) /\ Len(p.slices) <= p.age
  BY PacketFacts
<1>1. q.age = p.age + 1 /\ q = [slices |-> q.slices, age |-> q.age, infos |-> q.infos]
  BY DEF Aged
<1>2. /\ q.slices = IF p.age = Len(p.slices) /\ in.valid THEN Append(p.slices, in.data)
                    ELSE p.slices
      /\ q.slices \in Seq(Data)
      /\ Len(q.slices) \in 1 .. p.age + 1 /\ Len(q.slices) >= Len(p.slices)
  <2>1. q.slices = p.slices \o more
    BY DEF Aged
  <2>2. CASE p.age = Len(p.slices) /\ in.valid
    <3>1. p.slices \o more = Append(p.slices, in.data)
      BY <1>0, <2>2
    <3>2. Append(p.slices, in.data) \in Seq(Data) /\ Len(Append(p.slices, in.data)) = Len(p.slices) + 1
      BY <1>0
    <3>3. q.slices = Append(p.slices, in.data)
      BY <2>1, <3>1
    <3> HIDE DEF q
    <3> QED  BY <1>0, <2>2, <3>2, <3>3
  <2>3. CASE ~(p.age = Len(p.slices) /\ in.valid)
    <3>1. more = <<>>
      BY <2>3
    <3>2. p.slices \o <<>> = p.slices
      BY <1>0
    <3>3. q.slices = p.slices
      BY <2>1, <3>1, <3>2
    <3> HIDE DEF q
    <3> QED  BY <1>0, <2>3, <3>3
  <2> QED  BY <2>2, <2>3
<1>3. CASE \E k \in Layers : p.age = LookupAge(k)
  <2> DEFINE k == CHOOSE n \in Layers : p.age = LookupAge(n)
             r == Looked(p, k, layer[k].table)
  <2>1. k \in Layers /\ p.age = LookupAge(k)
    BY <1>3
  <2>2. q.infos = Append(p.infos, r)
    BY <1>3 DEF Aged
  <2> HIDE DEF k
  <2>3. \A n \in Layers : p.age = LookupAge(n) => n = k
    BY <2>1, TopAssumption DEF Layers, LookupAge, Latency
  <2>4. r \in LookupRst
    <3>1. layer[k].table \in Tables
      BY <2>1 DEF TypeOK, LayerRegs, Tables
    <3> QED  BY <3>1, LookupTyped DEF Looked
  <2> HIDE DEF r
  <2>5. /\ q.infos \in Seq(LookupRst) /\ Len(q.infos) = Len(p.infos) + 1
        /\ q.infos[Len(p.infos) + 1] = r
        /\ \A n \in 1 .. Len(p.infos) : q.infos[n] = p.infos[n]
    <3> HIDE DEF q
    <3>1. Append(p.infos, r) \in Seq(LookupRst) /\ Len(Append(p.infos, r)) = Len(p.infos) + 1
      BY <1>0, <2>4
    <3>2. Append(p.infos, r)[Len(p.infos) + 1] = r
      BY <1>0
    <3>3. \A n \in 1 .. Len(p.infos) : Append(p.infos, r)[n] = p.infos[n]
      BY <1>0
    <3> QED  BY <2>2, <3>1, <3>2, <3>3
  <2>6. Len(p.infos) = k
    <3>1. k <= Len(p.infos)
      BY <2>1, PacketFacts DEF LookupAge
    <3>2. ~(k + 1 <= Len(p.infos))
      <4>1. ~(LookupAge(k) < p.age)
        BY <1>0, <2>1
      <4> QED  BY <2>1, <4>1 DEF PacketOK
    <3> QED  BY <1>0, <2>1, <3>1, <3>2 DEF Layers
  <2>7. \A n \in Layers : LookupAge(n) < p.age + 1 <=> n + 1 <= k + 1
    BY <2>1, TopAssumption DEF Layers, LookupAge, Latency
  <2>8. Len(q.infos) \in 1 .. NUM_LAYER + 1
    BY <2>1, <2>5, <2>6, TopAssumption DEF Layers
  <2>9. PacketOK(q)
    BY <1>0, <1>1, <1>2, <2>5, <2>6, <2>7, <2>8 DEF PacketOK, Packet
  <2>10. \A n \in Layers : p.age = LookupAge(n) => q.infos[n + 1] = Looked(p, n, layer[n].table)
    BY <2>3, <2>5, <2>6 DEF r
  <2>11. Grown(p, q, layer, in)
    BY <1>0, <1>1, <1>2, <2>5, <2>10 DEF Grown
  <2> QED  BY <1>2, <2>9, <2>11
<1>4. CASE ~ \E k \in Layers : p.age = LookupAge(k)
  <2>1. q.infos = p.infos
    BY <1>4 DEF Aged
  <2>2. \A n \in Layers : LookupAge(n) < p.age + 1 <=> LookupAge(n) < p.age
    BY <1>0, <1>4 DEF Layers, LookupAge, Latency
  <2>3. PacketOK(q)
    BY <1>0, <1>1, <1>2, <2>1, <2>2 DEF PacketOK, Packet
  <2>4. Grown(p, q, layer, in)
    BY <1>0, <1>1, <1>2, <1>4, <2>1 DEF Grown
  <2> QED  BY <1>2, <2>3, <2>4
<1> QED  BY <1>3, <1>4

(* One clock of the packets in flight.                                     *)
LEMMA FlyingStep ==
  ASSUME TypeOK, NEW fl, FlightOK(fl), NEW in, in.data \in Data, NEW more,
         in.valid => in.data \in Data,
         \/ more = <<>> /\ \A i \in 1 .. Len(fl) :
              ~(fl[i].age = Len(fl[i].slices) /\ in.valid)
         \/ /\ more = <<in.data>> /\ in.valid /\ Len(fl) > 0
            /\ fl[Len(fl)].age = Len(fl[Len(fl)].slices)
  PROVE  /\ FlightOK(Flown(fl, more)) /\ Moved(fl, Flown(fl, more), layer, in)
         /\ \A j \in 1 .. Len(Flown(fl, more)) :
              \E i \in 1 .. Len(fl) : Grown(fl[i], Flown(fl, more)[j], layer, in)
<1> DEFINE last == Len(fl)
           M(i) == IF i = last THEN more ELSE <<>>
           aged == [i \in 1 .. last |-> Aged(fl[i], M(i))]
           Out(p) == p.age >= Latency * NUM_LAYER + Len(p.slices)
<1>0. last \in Nat /\ \A i \in 1 .. last : PacketOK(fl[i])
  BY DEF FlightOK
<1>1. ASSUME NEW i \in 1 .. last
      PROVE  M(i) = IF fl[i].age = Len(fl[i].slices) /\ in.valid THEN <<in.data>> ELSE <<>>
  <2>1. CASE i = last
    BY <2>1
  <2>2. CASE i # last
    <3>1. fl[i].age > fl[last].age + Len(fl[i].slices)
      BY <1>0, <2>2 DEF FlightOK
    <3>2. fl[last].age \in Nat /\ fl[i].age \in Nat /\ Len(fl[i].slices) \in Nat
      BY <1>0, PacketFacts
    <3>3. fl[i].age # Len(fl[i].slices)
      BY <3>1, <3>2
    <3> QED  BY <2>2, <3>3
  <2> QED  BY <2>1, <2>2
<1> HIDE DEF M
<1>2. ASSUME NEW i \in 1 .. last
      PROVE  /\ PacketOK(aged[i]) /\ Grown(fl[i], aged[i], layer, in)
             /\ Len(aged[i].slices) >= Len(fl[i].slices) /\ aged[i].age = fl[i].age + 1
             /\ fl[i].age # Len(fl[i].slices) => aged[i].slices = fl[i].slices
  <2>1. aged[i] = Aged(fl[i], M(i))
    OBVIOUS
  <2>2. PacketOK(aged[i]) /\ Grown(fl[i], aged[i], layer, in)
        /\ Len(aged[i].slices) >= Len(fl[i].slices)
    BY <1>0, <1>1, <2>1, AgedGrown
  <2> QED  BY <2>2 DEF Grown
<1>3. Len(aged) = last /\ aged \in Seq(Packet)
  BY <1>0, <1>2 DEF PacketOK
<1>4. ASSUME NEW i \in 1 .. last, NEW j \in 1 .. last, i < j
      PROVE  aged[i].age > aged[j].age + Len(aged[i].slices)
  <2>1. fl[i].age > fl[j].age + Len(fl[i].slices)
    BY <1>4 DEF FlightOK
  <2>2. fl[j].age \in Nat /\ fl[i].age \in Nat /\ Len(fl[i].slices) \in Nat
        /\ fl[j].age >= 1
    BY <1>0, PacketFacts
  <2>3. aged[i].slices = fl[i].slices
    BY <1>2, <2>1, <2>2
  <2> QED  BY SMTT(20), <1>2, <2>1, <2>2, <2>3
<1>7. Flown(fl, more) = IF last > 0 /\ Out(aged[1]) THEN Tail(aged) ELSE aged
  BY DEF Flown, M
<1> HIDE DEF aged
<1> DEFINE F == Flown(fl, more)
           L == Latency * NUM_LAYER
<1>L. L \in Nat
  BY TopAssumption DEF Latency
<1> HIDE DEF L
<1>5. ASSUME NEW i \in 1 .. last, Out(aged[i]) PROVE i = 1
  <2> SUFFICES ASSUME i # 1 PROVE FALSE
    OBVIOUS
  <2>0. 1 \in 1 .. last /\ 1 < i
    BY <1>0
  <2>1. fl[1].age > fl[i].age + Len(fl[1].slices)
    BY <2>0 DEF FlightOK
  <2>2. fl[1].age < L + Len(fl[1].slices)
    BY <2>0 DEF FlightOK, L
  <2>3. /\ fl[1].age \in Nat /\ fl[i].age \in Nat /\ Len(fl[1].slices) \in Nat
        /\ Len(fl[i].slices) \in Nat /\ Len(fl[i].slices) >= 1
        /\ Len(aged[i].slices) \in Nat
    BY <1>0, <1>2, <2>0, PacketFacts
  <2>4. aged[i].age = fl[i].age + 1 /\ Len(aged[i].slices) >= Len(fl[i].slices)
    BY <1>2
  <2>5. aged[i].age >= L + Len(aged[i].slices)
    BY <1>5 DEF L
  <2> QED  BY SMTT(20), <1>L, <2>1, <2>2, <2>3, <2>4, <2>5
<1>6. ASSUME NEW i \in 1 .. last, Out(aged[i])
      PROVE  fl[i].age + 1 >= L + Len(fl[i].slices)
  <2>1. /\ fl[i].age \in Nat /\ Len(fl[i].slices) \in Nat /\ Len(aged[i].slices) \in Nat
    BY <1>0, <1>2, PacketFacts
  <2>2. aged[i].age >= L + Len(aged[i].slices)
    BY <1>6 DEF L
  <2> QED  BY SMTT(20), <1>L, <1>2, <2>1, <2>2
<1>8. CASE last > 0 /\ Out(aged[1])
  <2>1. F = Tail(aged)
    BY <1>7, <1>8
  <2>2. aged # <<>>
    BY <1>3, <1>8
  <2>3. F \in Seq(Packet) /\ Len(F) = last - 1 /\ \A j \in 1 .. Len(F) : F[j] = aged[j + 1]
    BY <1>3, <2>1, <2>2, HeadTailProperties
  <2>4. \A j \in 1 .. Len(F) : j + 1 \in 1 .. last /\ j + 1 # 1
    BY <1>0, <2>3
  <2>5. FlightOK(F)
    <3>1. \A j \in 1 .. Len(F) : PacketOK(F[j])
      BY <1>2, <2>3, <2>4
    <3>2. \A j \in 1 .. Len(F) : F[j].age < Latency * NUM_LAYER + Len(F[j].slices)
      <4> TAKE j \in 1 .. Len(F)
      <4>1. ~(F[j].age >= L + Len(F[j].slices))
        BY <1>5, <2>3, <2>4 DEF L
      <4>2. F[j].age \in Nat /\ Len(F[j].slices) \in Nat
        BY <3>1, PacketFacts
      <4>3. F[j].age < L + Len(F[j].slices)
        BY <1>L, <4>1, <4>2
      <4> QED  BY <4>3 DEF L
    <3>3. \A i, j \in 1 .. Len(F) : i < j => F[i].age > F[j].age + Len(F[i].slices)
      BY <1>4, <2>3, <2>4
    <3> QED  BY <2>3, <3>1, <3>2, <3>3 DEF FlightOK
  <2>6. \A j \in 1 .. Len(F) : \E i \in 1 .. last : Grown(fl[i], F[j], layer, in)
    BY <1>2, <2>3, <2>4
  <2>7. ASSUME NEW i \in 1 .. last
        PROVE  \/ fl[i].age + 1 >= Latency * NUM_LAYER + Len(fl[i].slices)
               \/ \E j \in 1 .. Len(F) : Grown(fl[i], F[j], layer, in)
    <3>1. CASE i = 1
      BY <1>6, <1>8, <3>1 DEF L
    <3>2. CASE i # 1
      <4>1. i - 1 \in 1 .. Len(F) /\ F[i - 1] = aged[i]
        BY <1>0, <2>3, <3>2
      <4> QED  BY <1>2, <4>1
    <3> QED  BY <3>1, <3>2
  <2> QED  BY <2>5, <2>6, <2>7 DEF Moved
<1>9. CASE ~(last > 0 /\ Out(aged[1]))
  <2>1. F = aged
    BY <1>7, <1>9
  <2>2. \A j \in 1 .. last : aged[j].age < Latency * NUM_LAYER + Len(aged[j].slices)
    <3> TAKE j \in 1 .. last
    <3>1. ~(aged[j].age >= L + Len(aged[j].slices))
      BY <1>0, <1>5, <1>9 DEF L
    <3>2. aged[j].age \in Nat /\ Len(aged[j].slices) \in Nat
      BY <1>2, PacketFacts
    <3>3. aged[j].age < L + Len(aged[j].slices)
      BY <1>L, <3>1, <3>2
    <3> QED  BY <3>3 DEF L
  <2>3. FlightOK(F)
    BY <1>2, <1>3, <1>4, <2>1, <2>2 DEF FlightOK
  <2>4. \A j \in 1 .. Len(F) : \E i \in 1 .. last : Grown(fl[i], F[j], layer, in)
    BY <1>2, <1>3, <2>1
  <2>5. \A i \in 1 .. last : \E j \in 1 .. Len(F) : Grown(fl[i], F[j], layer, in)
    BY <1>2, <1>3, <2>1
  <2> QED  BY <2>3, <2>4, <2>5 DEF Moved
<1> QED  BY <1>8, <1>9

(* The same packet by packet: which one is gone, and where the others are. *)
More(fl, more, i) == IF i = Len(fl) THEN more ELSE <<>>

Ends(fl, more) ==
  Len(fl) > 0 /\ fl[1].age + 1 >= Latency * NUM_LAYER + Len(fl[1].slices \o More(fl, more, 1))
Leaves(fl, more) == IF Ends(fl, more) THEN 1 ELSE 0

LEMMA FlownParts ==
  ASSUME NEW fl \in Seq(Packet), NEW more
  PROVE  /\ Len(fl) \in Nat /\ Leaves(fl, more) \in Nat /\ Leaves(fl, more) <= Len(fl)
         /\ \E S : Flown(fl, more) \in Seq(S)
         /\ Len(Flown(fl, more)) = Len(fl) - Leaves(fl, more)
         /\ \A j \in 1 .. Len(fl) - Leaves(fl, more) :
              Flown(fl, more)[j] =
                Aged(fl[j + Leaves(fl, more)], More(fl, more, j + Leaves(fl, more)))
<1> DEFINE n == Len(fl)
           A(i) == Aged(fl[i], More(fl, more, i))
           new == [i \in 1 .. n |-> A(i)]
           gone == Leaves(fl, more)
<1>1. Flown(fl, more) =
        IF n > 0 /\ new[1].age >= Latency * NUM_LAYER + Len(new[1].slices) THEN Tail(new) ELSE new
  BY DEF Flown, More
<1>2. n \in Nat /\ \A i \in 1 .. n : new[i] = A(i)
  OBVIOUS
<1>3. n > 0 => A(1).age = fl[1].age + 1 /\ A(1).slices = fl[1].slices \o More(fl, more, 1)
  BY DEF Aged
<1>4. new \in Seq({new[i] : i \in 1 .. n}) /\ Len(new) = n
  <2> HIDE DEF A
  <2> QED  OBVIOUS
<1> HIDE DEF A, n, new
<1>5. n > 0 => new[1] = A(1)
  BY <1>2
<1>6. Flown(fl, more) = IF gone = 1 THEN Tail(new) ELSE new
  <2>3. gone = 1 <=> Ends(fl, more)
    BY DEF Leaves
  <2>1. gone = 1 <=> n > 0 /\ A(1).age >= Latency * NUM_LAYER + Len(A(1).slices)
    <3>1. Ends(fl, more) <=> n > 0 /\ A(1).age >= Latency * NUM_LAYER + Len(A(1).slices)
      BY <1>3 DEF Ends, n
    <3> QED  BY <2>3, <3>1
  <2>2. n > 0 /\ new[1].age >= Latency * NUM_LAYER + Len(new[1].slices) <=> gone = 1
    BY <1>5, <2>1
  <2> QED  BY <1>1, <2>2
<1>7. gone \in Nat /\ gone <= n /\ (gone = 1 \/ gone = 0)
  <2>1. Ends(fl, more) => n > 0
    BY DEF Ends, n
  <2>2. (gone = 1 /\ Ends(fl, more)) \/ gone = 0
    BY DEF Leaves
  <2> HIDE DEF gone
  <2> QED  BY <1>2, <2>1, <2>2
<1> HIDE DEF gone
<1>8. CASE gone = 1
  <2>1. n > 0 /\ new # <<>>
    BY <1>2, <1>4, <1>7, <1>8
  <2>2. /\ Tail(new) \in Seq({new[i] : i \in 1 .. n}) /\ Len(Tail(new)) = n - 1
        /\ \A j \in 1 .. n - 1 : Tail(new)[j] = new[j + 1]
    BY <1>4, <2>1, HeadTailProperties
  <2>3. \A j \in 1 .. n - 1 : Tail(new)[j] = A(j + 1)
    BY <1>2, <2>2
  <2> QED  BY <1>2, <1>6, <1>7, <1>8, <2>2, <2>3 DEF n, A, gone
<1>9. CASE gone = 0
  <2>1. Flown(fl, more) = new /\ \A j \in 1 .. n : new[j] = A(j + 0)
    BY <1>2, <1>6, <1>9
  <2> QED  BY <1>2, <1>4, <1>7, <1>9, <2>1 DEF n, A, gone
<1> QED  BY <1>7, <1>8, <1>9

-----------------------------------------------------------------------------
(* What the registers of the pipeline hold.  Packet p has the slice that   *)
(* came t clocks ago; register r holds the slice that came t clocks ago,   *)
(* moved as the layers before layer k told.  Behind a tail it is empty.    *)
Came(p, t) == p.age - t \in 0 .. Len(p.slices) - 1

Place(p, t, k) == HeadPos(p.infos, k) + Row(p.age - t)

SliceOf(r, t, k, fl) ==
  /\ r.valid <=> \E i \in 1 .. Len(fl) : Came(fl[i], t)
  /\ ~r.valid => /\ ~r.start /\ ~r.tail
                 /\ (\E i \in 1 .. Len(fl) : Came(fl[i], t + 1)) => r.data = ZeroData
  /\ \A i \in 1 .. Len(fl) : Came(fl[i], t) =>
       /\ r.start <=> fl[i].age = t
       /\ t > 1 => (r.tail <=> fl[i].age - t = Len(fl[i].slices) - 1)
       /\ r.data = Window(fl[i].slices, Place(fl[i], t, k))

(* A slice that has come stays the packet's, at its place.                 *)
LEMMA GrownCame ==
  ASSUME NEW p, PacketOK(p), NEW q, PacketOK(q), NEW lay, NEW in, in.data \in Data,
         Grown(p, q, lay, in), NEW t \in Nat \ {0}
  PROVE  /\ Came(q, t + 1) <=> Came(p, t)
         /\ q.age - (t + 1) = p.age - t
         /\ Came(p, t) /\ t > 1 =>
              (q.age - (t + 1) = Len(q.slices) - 1 <=> p.age - t = Len(p.slices) - 1)
         /\ Came(p, 1) => p.age = Len(p.slices)
<1>1. /\ p.age \in Nat /\ q.age = p.age + 1
      /\ Len(p.slices) \in Nat /\ 1 <= Len(p.slices) /\ Len(p.slices) <= p.age
      /\ p.slices \in Seq(Data)
  BY PacketFacts DEF Grown
<1>2. CASE p.age = Len(p.slices) /\ in.valid
  <2>1. Len(q.slices) = Len(p.slices) + 1
    BY <1>1, <1>2 DEF Grown
  <2> QED  BY <1>1, <1>2, <2>1 DEF Came
<1>3. CASE ~(p.age = Len(p.slices) /\ in.valid)
  <2>1. q.slices = p.slices
    BY <1>3 DEF Grown
  <2> QED  BY <1>1, <2>1 DEF Came
<1> QED  BY <1>2, <1>3

(* So does what has been read of it, for the slices to come are behind it. *)
LEMMA GrownFlat ==
  ASSUME NEW p, PacketOK(p), NEW q, PacketOK(q), NEW lay, NEW in, in.data \in Data,
         Grown(p, q, lay, in), NEW n \in Nat, n < Row(p.age)
  PROVE  Flat(q.slices, n) = Flat(p.slices, n)
<1>1. p.slices \in Seq(Data)
  BY PacketFacts
<1>2. CASE p.age = Len(p.slices) /\ in.valid
  BY <1>1, <1>2, FlatLemma DEF Grown
<1>3. CASE ~(p.age = Len(p.slices) /\ in.valid)
  BY <1>3 DEF Grown
<1> QED  BY <1>2, <1>3

LEMMA GrownPos ==
  ASSUME NEW p, PacketOK(p), NEW q, PacketOK(q), NEW lay, NEW in,
         Grown(p, q, lay, in)
  PROVE  \A k \in 1 .. Len(p.infos) + 1 :
           HeadPos(q.infos, k) = HeadPos(p.infos, k) /\ MetaPos(q.infos, k) = MetaPos(p.infos, k)
<1>1. p.infos \in Seq(LookupRst) /\ q.infos \in Seq(LookupRst)
  BY PacketFacts
<1> QED  BY <1>1, PositionsKept DEF Grown

LEMMA GrownWindow ==
  ASSUME NEW p, PacketOK(p), NEW q, PacketOK(q), NEW lay, NEW in, in.data \in Data,
         Grown(p, q, lay, in), NEW t \in Nat \ {0}, Came(p, t),
         NEW k \in Nat \ {0}, k <= t, k <= Len(p.infos) + 1
  PROVE  Window(q.slices, Place(q, t + 1, k)) = Window(p.slices, Place(p, t, k))
<1>1. /\ p.age \in Nat /\ Len(p.infos) \in Nat /\ p.infos \in Seq(LookupRst)
  BY PacketFacts
<1>2. p.age - t \in Nat /\ q.age - (t + 1) = p.age - t
  <2>1. p.age - t \in Nat
    BY <1>1 DEF Came
  <2> QED  BY <2>1, GrownCame
<1>3. HeadPos(q.infos, k) = HeadPos(p.infos, k)
  BY <1>1, GrownPos
<1>4. HeadPos(p.infos, k) \in Nat /\ HeadPos(p.infos, k) <= Row(k - 1)
  BY <1>1, Positions
<1>5. /\ Row(p.age - t) \in Nat
      /\ Row(k - 1) \in Nat
      /\ Row((k - 1) + (p.age - t)) = Row(k - 1) + Row(p.age - t)
      /\ Row((k - 1) + (p.age - t)) + CANDI_NUM <= Row(p.age)
  <2>1. k - 1 \in Nat /\ (k - 1) + (p.age - t) \in Nat /\ (k - 1) + (p.age - t) < p.age
    BY <1>1, <1>2
  <2> QED  BY <1>1, <1>2, <2>1, RowLemma
<1> DEFINE pos == Place(p, t, k)
<1>6. Place(q, t + 1, k) = pos
  BY <1>2, <1>3 DEF Place
<1>7. pos \in Nat /\ pos + CANDI_NUM <= Row(p.age)
  <2>1. pos = HeadPos(p.infos, k) + Row(p.age - t)
    BY DEF Place
  <2>2. Row(p.age) \in Nat /\ CANDI_NUM \in Nat
    BY <1>1, RowLemma, WidthAssumption
  <2> HIDE DEF pos
  <2> QED  BY <1>4, <1>5, <2>1, <2>2
<1> HIDE DEF pos
<1>8. \A u \in UnitIds : pos + u \in Nat /\ pos + u < Row(p.age)
  <2>1. Row(p.age) \in Nat
    BY <1>1, RowLemma
  <2> QED  BY <1>7, <2>1, WidthAssumption DEF UnitIds
<1>9. \A u \in UnitIds : Flat(q.slices, pos + u) = Flat(p.slices, pos + u)
  BY <1>8, GrownFlat
<1> QED  BY <1>6, <1>9 DEF Window, pos

(* A register copied on a clock holds the same slice, one clock older.     *)
LEMMA SliceKept ==
  ASSUME NEW fl, FlightOK(fl), NEW fl2, FlightOK(fl2), NEW lay, NEW in, in.data \in Data,
         Moved(fl, fl2, lay, in),
         NEW t \in Nat \ {0}, t < Latency * NUM_LAYER, NEW k \in Nat \ {0}, k <= t,
         \A i \in 1 .. Len(fl) : Came(fl[i], t) => k <= Len(fl[i].infos) + 1,
         NEW r, SliceOf(r, t, k, fl), t = 1 /\ r.valid => (r.tail <=> ~in.valid)
  PROVE  SliceOf(r, t + 1, k, fl2)
<1>1. \A i \in 1 .. Len(fl) : PacketOK(fl[i])
  BY DEF FlightOK
<1>2. \A j \in 1 .. Len(fl2) : PacketOK(fl2[j])
  BY DEF FlightOK
<1>3. ASSUME NEW j \in 1 .. Len(fl2), Came(fl2[j], t + 1)
      PROVE  \E i \in 1 .. Len(fl) : Grown(fl[i], fl2[j], lay, in) /\ Came(fl[i], t)
  <2>1. fl2[j].age # 1
    <3>1. fl2[j].age \in Nat
      BY <1>2, PacketFacts
    <3> QED  BY <1>3, <3>1 DEF Came
  <2>2. PICK i \in 1 .. Len(fl) : Grown(fl[i], fl2[j], lay, in)
    BY <2>1 DEF Moved
  <2> QED  BY <1>1, <1>2, <1>3, <2>2, GrownCame
<1>4. ASSUME NEW i \in 1 .. Len(fl), Came(fl[i], t)
      PROVE  \E j \in 1 .. Len(fl2) : Came(fl2[j], t + 1)
  <2>1. ~(fl[i].age + 1 >= Latency * NUM_LAYER + Len(fl[i].slices))
    <3>1. fl[i].age \in Nat /\ Len(fl[i].slices) \in Nat /\ Latency * NUM_LAYER \in Nat
      BY <1>1, PacketFacts, TopAssumption DEF Latency
    <3> HIDE DEF Latency
    <3> QED  BY <1>4, <3>1 DEF Came
  <2>2. PICK j \in 1 .. Len(fl2) : Grown(fl[i], fl2[j], lay, in)
    BY <2>1 DEF Moved
  <2> QED  BY <1>1, <1>2, <1>4, <2>2, GrownCame
<1>5. r.valid <=> \E j \in 1 .. Len(fl2) : Came(fl2[j], t + 1)
  BY <1>3, <1>4 DEF SliceOf
<1>6. ASSUME NEW j \in 1 .. Len(fl2), Came(fl2[j], t + 1)
      PROVE  /\ r.start <=> fl2[j].age = t + 1
             /\ r.tail <=> fl2[j].age - (t + 1) = Len(fl2[j].slices) - 1
             /\ r.data = Window(fl2[j].slices, Place(fl2[j], t + 1, k))
  <2>1. PICK i \in 1 .. Len(fl) : Grown(fl[i], fl2[j], lay, in) /\ Came(fl[i], t)
    BY <1>3, <1>6
  <2> DEFINE p == fl[i]
             q == fl2[j]
  <2>2. PacketOK(p) /\ PacketOK(q) /\ Grown(p, q, lay, in) /\ Came(p, t)
    BY <1>1, <1>2, <2>1
  <2>3. /\ r.valid
        /\ r.start <=> p.age = t
        /\ t > 1 => (r.tail <=> p.age - t = Len(p.slices) - 1)
        /\ r.data = Window(p.slices, Place(p, t, k))
        /\ k <= Len(p.infos) + 1
    BY <2>1 DEF SliceOf
  <2> HIDE DEF p, q
  <2>4. /\ p.age \in Nat /\ q.age = p.age + 1
        /\ p.slices \in Seq(Data) /\ Len(p.slices) \in Nat
    BY <2>2, PacketFacts DEF Grown
  <2>5. r.start <=> q.age = t + 1
    BY <2>3, <2>4
  <2>6. r.data = Window(q.slices, Place(q, t + 1, k))
    BY <2>2, <2>3, GrownWindow
  <2>7. r.tail <=> q.age - (t + 1) = Len(q.slices) - 1
    <3>1. CASE t > 1
      BY SMTT(20), <2>2, <2>3, <3>1, GrownCame
    <3>2. CASE t = 1
      <4>1. p.age = Len(p.slices)
        BY <2>2, <3>2, GrownCame
      <4>2. CASE in.valid
        <5>1. Len(q.slices) = Len(p.slices) + 1
          BY <2>2, <2>4, <4>1, <4>2 DEF Grown
        <5> QED  BY <2>3, <2>4, <3>2, <4>1, <4>2, <5>1
      <4>3. CASE ~in.valid
        <5>1. q.slices = p.slices
          BY <2>2, <4>3 DEF Grown
        <5> QED  BY <2>3, <2>4, <3>2, <4>1, <4>3, <5>1
      <4> QED  BY <4>2, <4>3
    <3> QED  BY <3>1, <3>2
  <2> QED  BY <2>5, <2>6, <2>7 DEF p, q
<1>7. ASSUME ~r.valid
      PROVE  /\ ~r.start /\ ~r.tail
             /\ (\E j \in 1 .. Len(fl2) : Came(fl2[j], (t + 1) + 1)) => r.data = ZeroData
  <2> SUFFICES ASSUME NEW j \in 1 .. Len(fl2), Came(fl2[j], (t + 1) + 1) PROVE r.data = ZeroData
    BY <1>7 DEF SliceOf
  <2>1. fl2[j].age # 1
    <3>1. fl2[j].age \in Nat
      BY <1>2, PacketFacts
    <3> QED  BY <3>1 DEF Came
  <2>2. PICK i \in 1 .. Len(fl) : Grown(fl[i], fl2[j], lay, in)
    BY <2>1 DEF Moved
  <2> DEFINE t1 == t + 1
  <2>3. t1 \in Nat \ {0} /\ Came(fl2[j], t1 + 1)
    OBVIOUS
  <2> HIDE DEF t1
  <2>4. Came(fl[i], t1)
    BY <1>1, <1>2, <2>2, <2>3, GrownCame
  <2> QED  BY <1>7, <2>4 DEF SliceOf, t1
<1> QED  BY <1>5, <1>6, <1>7 DEF SliceOf

LEMMA CameCases ==
  ASSUME NEW p, PacketOK(p), NEW t \in Nat
  PROVE  Came(p, t) <=> t <= p.age /\ p.age < t + Len(p.slices)
<1>1. p.age \in Nat /\ Len(p.slices) \in Nat
  BY PacketFacts
<1> QED  BY <1>1 DEF Came

LEMMA LayerAges ==
  /\ LookupAge(1) = 1
  /\ \A k \in Layers :
       /\ k \in Nat \ {0} /\ LookupAge(k) \in Nat \ {0} /\ k <= LookupAge(k)
       /\ LookupAge(k) + 1 < Latency * NUM_LAYER
       /\ k > 1 => k - 1 \in Layers /\ LookupAge(k) = LookupAge(k - 1) + 3
       /\ k < NUM_LAYER => LookupAge(k) + 2 < Latency * NUM_LAYER
  /\ NUM_LAYER \in Layers /\ LookupAge(NUM_LAYER) + 2 = Latency * NUM_LAYER
<1>1. NUM_LAYER \in Nat \ {0}
  BY TopAssumption
<1> QED  BY <1>1 DEF LookupAge, Latency, Layers

(* The packets are apart: where one ends, no other one begins.             *)
LEMMA NoneBehindTail ==
  ASSUME NEW fl, FlightOK(fl), NEW t \in Nat \ {0}, NEW i \in 1 .. Len(fl),
         Came(fl[i], t + 1), ~Came(fl[i], t)
  PROVE  \A j \in 1 .. Len(fl) : ~Came(fl[j], t)
<1> SUFFICES ASSUME NEW j \in 1 .. Len(fl), Came(fl[j], t) PROVE FALSE
  OBVIOUS
<1>1. /\ fl[i].age \in Nat /\ fl[j].age \in Nat
      /\ Len(fl[i].slices) \in Nat /\ Len(fl[j].slices) \in Nat
  BY PacketFacts DEF FlightOK
<1>2. fl[i].age = t + Len(fl[i].slices)
  <2>1. PacketOK(fl[i]) /\ t + 1 \in Nat
    BY DEF FlightOK
  <2>2. t + 1 <= fl[i].age /\ fl[i].age < t + 1 + Len(fl[i].slices)
    BY <2>1, CameCases
  <2>3. ~(t <= fl[i].age /\ fl[i].age < t + Len(fl[i].slices))
    BY <2>1, CameCases
  <2>4. \A a, n \in Nat :
          t + 1 <= a /\ a < t + 1 + n /\ ~(t <= a /\ a < t + n) => a = t + n
    OBVIOUS
  <2> QED  BY <1>1, <2>2, <2>3, <2>4
<1>3. i # j
  OBVIOUS
<1>4. i \in Nat /\ j \in Nat
  OBVIOUS
<1>7. t <= fl[j].age /\ fl[j].age < t + Len(fl[j].slices)
  <2>1. PacketOK(fl[j])
    BY DEF FlightOK
  <2> QED  BY <2>1, CameCases
<1>5. CASE i < j
  <2>1. fl[i].age > fl[j].age + Len(fl[i].slices)
    BY <1>5 DEF FlightOK
  <2> QED  BY <1>1, <1>2, <1>7, <2>1
<1>6. CASE j < i
  <2>1. fl[j].age > fl[i].age + Len(fl[j].slices)
    BY <1>6 DEF FlightOK
  <2>2. \A a, b, m, n \in Nat :
          ~(b > a + n /\ a = t + m /\ t <= b /\ b < t + n)
    OBVIOUS
  <2> QED  BY <1>1, <1>2, <1>7, <2>1, <2>2
<1> QED  BY <1>3, <1>4, <1>5, <1>6

(* Shift_Head makes, of a slice and the one behind it, the slice of the    *)
(* packet as the next layer is to see it.                                  *)
LEMMA SliceShifted ==
  ASSUME NEW fl, FlightOK(fl), NEW k \in Layers, NEW t \in Nat \ {0}, t = LookupAge(k),
         NEW sh \in ShiftHeadRegs, NEW ih \in Slice,
         SliceOf(sh.preHead, t + 1, k, fl), SliceOf(ih, t, k, fl),
         \A i \in 1 .. Len(fl) : Came(fl[i], t + 1) => sh.headShift = fl[i].infos[k].headShift
  PROVE  SliceOf(NextHead(sh, ih), t + 1, k + 1, fl)
<1> DEFINE pre == sh.preHead
           s == sh.headShift
           out == NextHead(sh, ih)
<1>1. pre \in Slice /\ s \in UnitIds
  BY DEF ShiftHeadRegs
<1>2. /\ out.valid = pre.valid /\ out.start = pre.start /\ out.tail = pre.tail
      /\ pre.valid => out.data = ShiftedData(pre.data, ih.data, s)
      /\ ~pre.valid => out = pre
  BY <1>1 DEF NextHead, Slice
<1>3. \A i \in 1 .. Len(fl) : PacketOK(fl[i])
  BY DEF FlightOK
<1>4. ASSUME NEW i \in 1 .. Len(fl), Came(fl[i], t + 1)
      PROVE  out.data = Window(fl[i].slices, Place(fl[i], t + 1, k + 1))
  <2> DEFINE p == fl[i]
  <2>1. /\ p.slices \in Seq(Data) /\ p.age \in Nat /\ p.infos \in Seq(LookupRst)
        /\ Len(p.slices) \in Nat /\ Len(p.infos) \in Nat
        /\ p.age >= LookupAge(k) => k <= Len(p.infos)
    BY <1>3, PacketFacts
  <2>2. p.age - (t + 1) \in Nat /\ p.age - t = (p.age - (t + 1)) + 1 /\ p.age - t \in Nat
    BY <1>4, <2>1 DEF Came
  <2>3. k \in 1 .. Len(p.infos)
    BY <2>1, <2>2 DEF Layers
  <2>4. /\ HeadPos(p.infos, k + 1) = HeadPos(p.infos, k) + s
        /\ HeadPos(p.infos, k) \in Nat
    BY SMTT(20), <1>4, <2>1, <2>3, Positions
  <2>5. Row(p.age - t) = Row(p.age - (t + 1)) + CANDI_NUM /\ Row(p.age - (t + 1)) \in Nat
    BY <2>2, RowLemma
  <2>6. pre.valid /\ pre.data = Window(p.slices, Place(p, t + 1, k))
    BY <1>4 DEF SliceOf
  <2> DEFINE pos == Place(p, t + 1, k)
             h == HeadPos(p.infos, k)
             row == Row(p.age - (t + 1))
  <2>7. /\ pos = h + row /\ h \in Nat /\ row \in Nat
        /\ Place(p, t + 1, k + 1) = (h + s) + row
        /\ Place(p, t, k) = h + (row + CANDI_NUM)
    BY <2>4, <2>5 DEF Place
  <2>8. s \in Nat /\ CANDI_NUM \in Nat
    BY <1>1, WidthAssumption DEF UnitIds
  <2> HIDE DEF s, h, row
  <2>9. /\ pos \in Nat /\ Place(p, t + 1, k + 1) = pos + s /\ Place(p, t, k) = pos + CANDI_NUM
    BY <2>7, <2>8
  <2>10. \/ ih.data = Window(p.slices, pos + CANDI_NUM)
         \/ ih.data = ZeroData /\ pos + CANDI_NUM >= Row(Len(p.slices))
    <3>1. CASE Came(p, t)
      BY <2>9, <3>1 DEF SliceOf
    <3>2. CASE ~Came(p, t)
      <4>1. ih.data = ZeroData
        BY <1>4, <3>2, NoneBehindTail DEF SliceOf
      <4>2. p.age - t = Len(p.slices)
        BY <1>4, <2>1, <2>2, <3>2 DEF Came
      <4>3. row + CANDI_NUM = Row(Len(p.slices))
        BY <2>5, <4>2 DEF row
      <4>4. pos + CANDI_NUM >= Row(Len(p.slices))
        BY <2>7, <2>8, <4>3
      <4> QED  BY <4>1, <4>4
    <3> QED  BY <3>1, <3>2
  <2>11. ShiftedData(Window(p.slices, pos), ih.data, s) = Window(p.slices, pos + s)
    <3>1. s \in UnitIds
      BY <1>1 DEF s
    <3> HIDE DEF pos, p
    <3> QED  BY <2>1, <2>9, <2>10, <3>1, WindowShifted
  <2> QED  BY <1>2, <2>6, <2>9, <2>11 DEF s
<1> HIDE DEF out
<1>5. out.valid <=> \E i \in 1 .. Len(fl) : Came(fl[i], t + 1)
  BY <1>2 DEF SliceOf
<1>6. ~out.valid =>
        /\ ~out.start /\ ~out.tail
        /\ (\E i \in 1 .. Len(fl) : Came(fl[i], (t + 1) + 1)) => out.data = ZeroData
  BY <1>2 DEF SliceOf
<1>7. ASSUME NEW i \in 1 .. Len(fl), Came(fl[i], t + 1)
      PROVE  /\ out.start <=> fl[i].age = t + 1
             /\ t + 1 > 1 => (out.tail <=> fl[i].age - (t + 1) = Len(fl[i].slices) - 1)
  BY <1>2, <1>7 DEF SliceOf
<1>8. SliceOf(out, t + 1, k + 1, fl)
  BY <1>4, <1>5, <1>6, <1>7 DEF SliceOf
<1> QED  BY <1>8 DEF out

-----------------------------------------------------------------------------
(* What layer k holds: the slices of p1 and of Shift_Head, and the fields  *)
(* and results of the packet whose start slice is at each of its clocks.   *)
RulesOf(l, p, k) ==
  /\ p.age = LookupAge(k) =>
       /\ l.type = ExtractTypes(Window(p.slices, HeadPos(p.infos, k)), p.infos[k])
       /\ l.headShift = p.infos[k].headShift
  /\ Came(p, LookupAge(k) + 1) => l.sh.headShift = p.infos[k].headShift
  /\ p.age = LookupAge(k) + 1 => l.s1 = p.infos[k + 1]
  /\ p.age = LookupAge(k) + 2 => l.s2 = p.infos[k + 1]

LayerHolds(l, k, fl) ==
  /\ SliceOf(l.head, LookupAge(k), k, fl)
  /\ SliceOf(l.sh.preHead, LookupAge(k) + 1, k, fl)
  /\ SliceOf(l.sh.head, LookupAge(k) + 2, k + 1, fl)
  /\ \A i \in 1 .. Len(fl) : RulesOf(l, fl[i], k)

(* What arrives at layer k on a clock, seen after it.                      *)
InputHolds(input, k, fl) ==
  /\ SliceOf(input.head, LookupAge(k), k, fl)
  /\ \A i \in 1 .. Len(fl) : fl[i].age = LookupAge(k) => input.info = fl[i].infos[k]

LEMMA OldPacket ==
  ASSUME NEW fl, FlightOK(fl), NEW fl2, FlightOK(fl2), NEW lay, NEW in,
         Moved(fl, fl2, lay, in), NEW j \in 1 .. Len(fl2), fl2[j].age # 1
  PROVE  \E i \in 1 .. Len(fl) :
           /\ Grown(fl[i], fl2[j], lay, in) /\ PacketOK(fl[i]) /\ PacketOK(fl2[j])
           /\ fl[i].age \in Nat /\ fl2[j].age = fl[i].age + 1
BY PacketFacts DEF Moved, FlightOK, Grown

(* One clock of a layer.                                                   *)
LEMMA LayerStep ==
  ASSUME NEW fl, FlightOK(fl), NEW fl2, FlightOK(fl2), NEW lay, NEW in, in.data \in Data,
         Moved(fl, fl2, lay, in), lay \in [Layers -> LayerRegs], NEW k \in Layers,
         LayerHolds(lay[k], k, fl), NEW input, input \in LayerInfo, InputHolds(input, k, fl2),
         k = 1 /\ lay[1].head.valid => (lay[1].head.tail <=> ~in.valid), NEW w
  PROVE  LayerHolds(LayerClock(lay[k], input, w), k, fl2)
<1>O. \A j \in 1 .. Len(fl2) : fl2[j].age # 1 =>
        \E i \in 1 .. Len(fl) :
          /\ Grown(fl[i], fl2[j], lay, in) /\ PacketOK(fl[i])
          /\ fl[i].age \in Nat /\ fl2[j].age = fl[i].age + 1
  BY OldPacket
<1> DEFINE l == lay[k]
           t == LookupAge(k)
           m == LayerClock(l, input, w)
<1>1. /\ m.head = input.head
      /\ m.sh.preHead = l.head
      /\ m.sh.head = NextHead(l.sh, l.head)
      /\ m.type = ExtractTypes(input.head.data, input.info)
      /\ m.headShift = input.info.headShift
      /\ m.sh.headShift = IF l.head.start THEN l.headShift ELSE l.sh.headShift
      /\ m.s1 = LookupType(l.table, l.type) /\ m.s2 = l.s1
  BY DEF LayerClock, ShiftHeadClock
<1>2. /\ t \in Nat \ {0} /\ k \in Nat \ {0} /\ k <= t /\ t + 1 < Latency * NUM_LAYER
      /\ t = 1 => k = 1
  <2>1. k > 1 => t > 1
    BY LayerAges
  <2> QED  BY <2>1, LayerAges
<1>3. Latency * NUM_LAYER \in Nat
  BY TopAssumption DEF Latency
<1>4. l \in LayerRegs /\ l.sh \in ShiftHeadRegs /\ l.head \in Slice
  BY DEF LayerRegs
<1>5. \A i \in 1 .. Len(fl) : PacketOK(fl[i])
  BY DEF FlightOK
<1> HIDE DEF m
<1>6. SliceOf(m.head, t, k, fl2)
  BY <1>1 DEF InputHolds
<1>7. \A i \in 1 .. Len(fl) : Came(fl[i], t) \/ Came(fl[i], t + 1) => k <= Len(fl[i].infos)
  <2> TAKE i \in 1 .. Len(fl)
  <2>1. fl[i].age \in Nat /\ (fl[i].age >= LookupAge(k) => k <= Len(fl[i].infos))
    BY <1>5, PacketFacts
  <2>2. Came(fl[i], t) \/ Came(fl[i], t + 1) => fl[i].age >= t
    BY <1>2, <2>1 DEF Came
  <2> QED  BY <2>1, <2>2
<1>8. \A i \in 1 .. Len(fl) : Len(fl[i].infos) \in Nat
  BY <1>5, PacketFacts
<1>9. SliceOf(m.sh.preHead, t + 1, k, fl2)
  <2>1. t < Latency * NUM_LAYER
    BY <1>2, <1>3
  <2>2. \A i \in 1 .. Len(fl) : Came(fl[i], t) => k <= Len(fl[i].infos) + 1
    BY <1>2, <1>7, <1>8
  <2>3. SliceOf(l.head, t, k, fl)
    BY DEF LayerHolds
  <2>4. t = 1 /\ l.head.valid => (l.head.tail <=> ~in.valid)
    BY <1>2
  <2> HIDE DEF l, t
  <2> QED  BY <1>1, <1>2, <2>1, <2>2, <2>3, <2>4, SliceKept
<1>10. SliceOf(m.sh.head, t + 2, k + 1, fl2)
  <2>1. SliceOf(NextHead(l.sh, l.head), t + 1, k + 1, fl)
    <3>1. SliceOf(l.head, t, k, fl) /\ SliceOf(l.sh.preHead, t + 1, k, fl)
      BY DEF LayerHolds
    <3>2. \A i \in 1 .. Len(fl) : Came(fl[i], t + 1) => l.sh.headShift = fl[i].infos[k].headShift
      BY DEF LayerHolds, RulesOf
    <3> QED  BY <1>2, <1>4, <3>1, <3>2, SliceShifted
  <2>2. \A i \in 1 .. Len(fl) : Came(fl[i], t + 1) => k + 1 <= Len(fl[i].infos) + 1
    BY <1>2, <1>7, <1>8
  <2> DEFINE r == NextHead(l.sh, l.head)
             t1 == t + 1
             k1 == k + 1
  <2>3. t1 \in Nat \ {0} /\ t1 # 1 /\ k1 \in Nat \ {0} /\ k1 <= t1 /\ t + 2 = t1 + 1
    BY <1>2
  <2> HIDE DEF r, t1, k1
  <2>4. SliceOf(r, t1, k1, fl) /\ t1 < Latency * NUM_LAYER
        /\ \A i \in 1 .. Len(fl) : Came(fl[i], t1) => k1 <= Len(fl[i].infos) + 1
    BY <1>2, <2>1, <2>2 DEF r, t1, k1
  <2>5. SliceOf(r, t1 + 1, k1, fl2)
    BY <2>3, <2>4, SliceKept
  <2> QED  BY <1>1, <2>3, <2>5 DEF r, k1
<1>11. ASSUME NEW j \in 1 .. Len(fl2) PROVE RulesOf(m, fl2[j], k)
  <2> DEFINE q == fl2[j]
  <2>0. q.age \in Nat /\ PacketOK(q)
    BY PacketFacts DEF FlightOK
  <2>1. ASSUME q.age = t
        PROVE  /\ m.type = ExtractTypes(Window(q.slices, HeadPos(q.infos, k)), q.infos[k])
               /\ m.headShift = q.infos[k].headShift
    <3>1. input.info = q.infos[k]
      BY <2>1 DEF InputHolds
    <3>2. /\ 1 <= Len(q.slices) /\ Len(q.slices) \in Nat
          /\ q.infos \in Seq(LookupRst) /\ k \in 1 .. Len(q.infos)
      BY <1>2, <2>0, <2>1, PacketFacts
    <3>3. Came(q, t)
      BY <1>2, <2>1, <3>2 DEF Came
    <3>4. input.head.data = Window(q.slices, Place(q, t, k))
      BY <3>3 DEF InputHolds, SliceOf
    <3>5. q.age - t = 0
      BY <1>2, <2>1
    <3>6. HeadPos(q.infos, k) \in Nat
      BY <3>2, Positions
    <3>7. Place(q, t, k) = HeadPos(q.infos, k)
      <4>1. Place(q, t, k) = HeadPos(q.infos, k) + Row(0)
        BY <3>5 DEF Place
      <4>2. Row(0) = 0
        BY RowLemma
      <4> QED  BY <3>6, <4>1, <4>2
    <3> QED  BY <1>1, <3>1, <3>4, <3>7
  <2>2. ASSUME Came(q, t + 1) PROVE m.sh.headShift = q.infos[k].headShift
    <3>1. q.age # 1
      BY <1>2, <2>0, <2>2 DEF Came
    <3>2. PICK i \in 1 .. Len(fl) : Grown(fl[i], q, lay, in) /\ PacketOK(fl[i])
      BY <1>O, <3>1
    <3>3. Came(fl[i], t) /\ k <= Len(fl[i].infos)
      BY <1>2, <1>7, <2>0, <2>2, <3>2, GrownCame
    <3>4. q.infos[k] = fl[i].infos[k]
      BY <1>2, <1>8, <3>2, <3>3 DEF Grown
    <3>5. l.head.start <=> fl[i].age = t
      BY <3>3 DEF LayerHolds, SliceOf
    <3>6. RulesOf(l, fl[i], k)
      BY DEF LayerHolds
    <3>7. CASE fl[i].age = t
      BY <1>1, <3>4, <3>5, <3>6, <3>7 DEF RulesOf
    <3>8. CASE fl[i].age # t
      <4>1. fl[i].age \in Nat /\ Len(fl[i].slices) \in Nat
        BY <3>2, PacketFacts
      <4>2. Came(fl[i], t + 1)
        BY SMTT(20), <1>2, <3>3, <3>8, <4>1 DEF Came
      <4> QED  BY <1>1, <3>4, <3>5, <3>6, <3>8, <4>2 DEF RulesOf
    <3> QED  BY <3>7, <3>8
  <2>3. ASSUME q.age = t + 1 PROVE m.s1 = q.infos[k + 1]
    <3>1. q.age # 1
      BY <1>2, <2>3
    <3>2. PICK i \in 1 .. Len(fl) :
            /\ Grown(fl[i], q, lay, in) /\ PacketOK(fl[i])
            /\ fl[i].age \in Nat /\ q.age = fl[i].age + 1
      BY <1>O, <3>1
    <3>3. fl[i].age = t
      BY <1>2, <2>3, <3>2
    <3>4. q.infos[k + 1] = Looked(fl[i], k, l.table)
      BY <3>2, <3>3 DEF Grown
    <3>5. l.type = ExtractTypes(Window(fl[i].slices, HeadPos(fl[i].infos, k)), fl[i].infos[k])
      BY <3>3 DEF LayerHolds, RulesOf
    <3> QED  BY <1>1, <3>4, <3>5 DEF Looked
  <2>4. ASSUME q.age = t + 2 PROVE m.s2 = q.infos[k + 1]
    <3>1. q.age # 1
      BY <1>2, <2>4
    <3>2. PICK i \in 1 .. Len(fl) :
            /\ Grown(fl[i], q, lay, in) /\ PacketOK(fl[i])
            /\ fl[i].age \in Nat /\ q.age = fl[i].age + 1
      BY <1>O, <3>1
    <3>3. fl[i].age = t + 1
      <4> HIDE DEF t
      <4> QED  BY <1>2, <2>4, <3>2
    <3>4. l.s1 = fl[i].infos[k + 1]
      BY <3>3 DEF LayerHolds, RulesOf
    <3>5. LookupAge(k) < fl[i].age
      BY <1>2, <3>3
    <3>6. k + 1 \in 1 .. Len(fl[i].infos)
      BY <1>2, <1>8, <3>2, <3>5 DEF PacketOK
    <3> QED  BY <1>1, <3>2, <3>4, <3>6 DEF Grown
  <2> QED  BY <2>1, <2>2, <2>3, <2>4 DEF RulesOf
<1> QED  BY <1>6, <1>9, <1>10, <1>11 DEF LayerHolds, m

-----------------------------------------------------------------------------
(* The invariant of the head path: every layer holds the packets in flight *)
(* at their places.                                                        *)
HeadsOf(lay, fl) ==
  /\ FlightOK(fl)
  /\ \A k \in Layers : LayerHolds(lay[k], k, fl)

HeadsInv == HeadsOf(layer, flight)

LEMMA WindowAt ==
  ASSUME NEW q \in Seq(Data), NEW k \in Nat, k < Len(q)
  PROVE  Window(q, Row(k)) = q[k + 1]
<1>1. q[k + 1] \in [UnitIds -> Unit]
  BY DEF Data
<1>2. \A u \in UnitIds : Flat(q, Row(k) + u) = q[k + 1][u]
  BY FlatAt
<1> QED  BY <1>1, <1>2 DEF Window

(* What the input of layer 1 says of the newest packet.                    *)
LEMMA LastFacts ==
  ASSUME NEW fl, HeadsOf(layer, fl)
  PROVE  /\ LastIn.valid => /\ Len(fl) > 0
                            /\ fl[Len(fl)].age = Len(fl[Len(fl)].slices)
         /\ ~LastIn.valid => \A i \in 1 .. Len(fl) : fl[i].age # Len(fl[i].slices)
         /\ Len(fl) \in Nat
<1>0. Len(fl) \in Nat /\ FlightOK(fl)
  BY DEF HeadsOf, FlightOK
<1>1. SliceOf(LastIn, 1, 1, fl)
  <2>1. 1 \in Layers
    BY TopAssumption DEF Layers
  <2> QED  BY <2>1, LayerAges DEF HeadsOf, LayerHolds, LastIn
<1>2. ASSUME NEW i \in 1 .. Len(fl)
      PROVE  /\ Came(fl[i], 1) <=> fl[i].age = Len(fl[i].slices)
             /\ fl[i].age \in Nat /\ Len(fl[i].slices) \in Nat
             /\ fl[i].age >= 1
  <2>1. PacketOK(fl[i])
    BY <1>0 DEF FlightOK
  <2>2. /\ fl[i].age \in Nat /\ Len(fl[i].slices) \in Nat
        /\ 1 <= Len(fl[i].slices) /\ Len(fl[i].slices) <= fl[i].age
    BY <2>1, PacketFacts
  <2>3. Came(fl[i], 1) <=> 1 <= fl[i].age /\ fl[i].age < 1 + Len(fl[i].slices)
    BY <2>1, CameCases
  <2> QED  BY <2>2, <2>3
<1>3. ASSUME LastIn.valid
      PROVE  /\ Len(fl) > 0
             /\ fl[Len(fl)].age = Len(fl[Len(fl)].slices)
  <2>1. PICK i \in 1 .. Len(fl) : fl[i].age = Len(fl[i].slices)
    BY <1>1, <1>2, <1>3 DEF SliceOf
  <2>2. Len(fl) > 0
    BY <1>0
  <2>3. i = Len(fl)
    <3> SUFFICES ASSUME i # Len(fl) PROVE FALSE
      OBVIOUS
    <3>1. i < Len(fl) /\ Len(fl) \in 1 .. Len(fl)
      BY <1>0
    <3>2. fl[i].age > fl[Len(fl)].age + Len(fl[i].slices)
      BY <1>0, <3>1 DEF FlightOK
    <3> QED  BY <1>2, <2>1, <3>1, <3>2
  <2> QED  BY <2>1, <2>2, <2>3
<1>4. ASSUME ~LastIn.valid, NEW i \in 1 .. Len(fl)
      PROVE  fl[i].age # Len(fl[i].slices)
  BY <1>1, <1>2, <1>4 DEF SliceOf
<1> QED  BY <1>0, <1>3, <1>4

(* A clock on which head slice h and metadata slice m arrive, seen from    *)
(* the packets: h is the next slice of a packet, or the first of a new     *)
(* one, which then brings the metadata slice.                              *)
Arrives(h, m, w, fl, fl2) ==
  /\ Clock(h, m, w)
  /\ FlightOK(fl2) /\ Moved(fl, fl2, layer, h)
  /\ SliceOf(h, 1, 1, fl2)
  /\ \A j \in 1 .. Len(fl2) : fl2[j].age = 1 => fl2[j].infos[1] = info0
  /\ h.start <=> \E j \in 1 .. Len(fl2) : fl2[j].age = 1
  /\ m = IF h.start THEN EmptyMeta ELSE ZeroSlice
  /\ LastIn.valid => (LastIn.tail <=> ~h.valid)

(* What layer k takes in on a clock.                                       *)
LayerIn(k, h, m) ==
  IF k = 1 THEN [head |-> h, meta |-> m, info |-> info0] ELSE LayerOut(layer[k - 1])

LEMMA Inputs ==
  ASSUME TypeOK, NEW fl, NEW fl2, HeadsOf(layer, fl), NEW h \in Slice, NEW m \in Slice, NEW w \in ConfWord \cup {NoWord},
         Arrives(h, m, w, fl, fl2)
  PROVE  /\ layer' = [k \in Layers |-> LayerClock(layer[k], LayerIn(k, h, m), WordFor(k, w))]
         /\ \A k \in Layers : LayerIn(k, h, m) \in LayerInfo /\ InputHolds(LayerIn(k, h, m), k, fl2)
<1> DEFINE in(k) == LayerIn(k, h, m)
<1>1. layer' = [k \in Layers |-> LayerClock(layer[k], in(k), WordFor(k, w))]
  BY DEF Clock, Arrives, LayerIn
<1>2. /\ FlightOK(fl) /\ layer \in [Layers -> LayerRegs] /\ h.data \in Data
      /\ FlightOK(fl2) /\ Moved(fl, fl2, layer, h)
  BY DEF HeadsOf, TypeOK, Slice, Arrives
<1>3. ASSUME NEW k \in Layers PROVE in(k) \in LayerInfo
  <2>1. k # 1 => k - 1 \in Layers
    BY TopAssumption DEF Layers
  <2> QED  BY <2>1, InfoTypes DEF TypeOK, LayerInfo, LayerIn
<1>4. ASSUME NEW k \in Layers PROVE InputHolds(in(k), k, fl2)
  <2>1. CASE k = 1
    BY <2>1, LayerAges DEF InputHolds, Arrives, LayerIn
  <2>2. CASE k # 1
    <3> DEFINE l == layer[k - 1]
               t == LookupAge(k - 1) + 2
    <3>1. k > 1 /\ k - 1 \in Layers /\ k \in Nat \ {0} /\ k - 1 < NUM_LAYER
      BY <2>2, TopAssumption DEF Layers
    <3>2. LookupAge(k) = t + 1 /\ t \in Nat \ {0} /\ t # 1 /\ t < Latency * NUM_LAYER /\ k <= t
          /\ LookupAge(k - 1) \in Nat /\ LookupAge(k - 1) < t
      <4>1. /\ LookupAge(k) = LookupAge(k - 1) + 3 /\ LookupAge(k - 1) \in Nat \ {0}
            /\ k - 1 <= LookupAge(k - 1) /\ LookupAge(k - 1) + 2 < Latency * NUM_LAYER
        BY <3>1, LayerAges
      <4> QED  BY <3>1, <4>1
    <3>3. LayerHolds(l, k - 1, fl)
      BY <3>1 DEF HeadsOf
    <3>4. (k - 1) + 1 = k
      BY <3>1
    <3>5. SliceOf(l.sh.head, t, k, fl)
      BY <3>3, <3>4 DEF LayerHolds
    <3> HIDE DEF t
    <3>6. \A i \in 1 .. Len(fl) : Came(fl[i], t) => k <= Len(fl[i].infos)
      <4> SUFFICES ASSUME NEW i \in 1 .. Len(fl), Came(fl[i], t)
                   PROVE  k <= Len(fl[i].infos)
        OBVIOUS
      <4>1. PacketOK(fl[i])
        BY <1>2 DEF FlightOK
      <4>2. fl[i].age \in Nat
        BY <4>1, PacketFacts
      <4>3. t <= fl[i].age
        BY <3>2, <4>1, CameCases
      <4>4. LookupAge(k - 1) < fl[i].age
        BY <3>2, <4>2, <4>3
      <4>5. (k - 1) + 1 <= Len(fl[i].infos)
        BY <3>1, <4>1, <4>4 DEF PacketOK
      <4> QED  BY <3>4, <4>5
    <3>7. SliceOf(l.sh.head, t + 1, k, fl2)
      <4>1. \A i \in 1 .. Len(fl) : Came(fl[i], t) => k <= Len(fl[i].infos) + 1
        <5>1. \A i \in 1 .. Len(fl) : Len(fl[i].infos) \in Nat
          BY <1>2, PacketFacts DEF FlightOK
        <5> QED  BY <3>1, <3>6, <5>1
      <4> QED  BY <1>2, <3>1, <3>2, <3>5, <4>1, SliceKept
    <3>8. ASSUME NEW j \in 1 .. Len(fl2), fl2[j].age = t + 1
          PROVE  l.s2 = fl2[j].infos[k]
      <4>1. fl2[j].age # 1
        BY <3>2, <3>8
      <4>2. PICK i \in 1 .. Len(fl) :
              /\ Grown(fl[i], fl2[j], layer, h) /\ PacketOK(fl[i])
              /\ fl[i].age \in Nat /\ fl2[j].age = fl[i].age + 1
        BY <1>2, <4>1, OldPacket
      <4>3. fl[i].age = t
        BY <3>2, <3>8, <4>2
      <4>4. l.s2 = fl[i].infos[k]
        BY <3>3, <3>4, <4>3 DEF LayerHolds, RulesOf, t
      <4>5. Came(fl[i], t)
        <5>1. 1 <= Len(fl[i].slices) /\ Len(fl[i].slices) \in Nat
          BY <4>2, PacketFacts
        <5> QED  BY <3>2, <4>3, <5>1 DEF Came
      <4>6. k \in 1 .. Len(fl[i].infos)
        <5>1. Len(fl[i].infos) \in Nat
          BY <4>2, PacketFacts
        <5> QED  BY <3>1, <3>6, <4>5, <5>1
      <4> QED  BY <4>2, <4>4, <4>6 DEF Grown
    <3>9. in(k).head = l.sh.head /\ in(k).info = l.s2
      BY <2>2 DEF LayerOut, LayerIn
    <3> HIDE DEF in
    <3> QED  BY <3>2, <3>7, <3>8, <3>9 DEF InputHolds
  <2> QED  BY <2>1, <2>2
<1> QED  BY <1>1, <1>3, <1>4

(* Such a clock keeps the invariant.                                       *)
LEMMA ClockStep ==
  ASSUME TypeOK, NEW fl, NEW fl2, HeadsOf(layer, fl), NEW h \in Slice, NEW m \in Slice, NEW w \in ConfWord \cup {NoWord},
         Arrives(h, m, w, fl, fl2)
  PROVE  HeadsOf(layer', fl2)
<1> DEFINE in(k) == LayerIn(k, h, m)
<1>1. /\ layer' = [k \in Layers |-> LayerClock(layer[k], in(k), WordFor(k, w))]
      /\ \A k \in Layers : in(k) \in LayerInfo /\ InputHolds(in(k), k, fl2)
  BY Inputs
<1>2. /\ FlightOK(fl) /\ layer \in [Layers -> LayerRegs] /\ h.data \in Data
      /\ FlightOK(fl2) /\ Moved(fl, fl2, layer, h)
  BY DEF HeadsOf, TypeOK, Slice, Arrives
<1> HIDE DEF in
<1>3. ASSUME NEW k \in Layers PROVE LayerHolds(layer'[k], k, fl2)
  <2>1. LayerHolds(layer[k], k, fl)
    BY DEF HeadsOf
  <2>2. k = 1 /\ layer[1].head.valid => (layer[1].head.tail <=> ~h.valid)
    BY DEF LastIn, Arrives
  <2>3. LayerHolds(LayerClock(layer[k], in(k), WordFor(k, w)), k, fl2)
    BY <1>1, <1>2, <2>1, <2>2, LayerStep
  <2> QED  BY <1>1, <2>3
<1> QED  BY <1>2, <1>3 DEF HeadsOf

(* Every action of the input is such a clock.                              *)
(* Without a slice the packets fly on.  What an empty slice holds matters  *)
(* only behind a tail.                                                     *)
LEMMA GapArrives ==
  ASSUME TypeOK, NEW fl, NEW fl2, HeadsOf(layer, fl),
         NEW h \in Slice, ~h.valid, ~h.start, ~h.tail,
         LastIn.valid => LastIn.tail /\ h.data = ZeroData,
         NEW w, Clock(h, ZeroSlice, w), fl2 = Flown(fl, <<>>)
  PROVE  Arrives(h, ZeroSlice, w, fl, fl2)
<1>1. h.data \in Data
  BY DEF Slice
<1>2. /\ FlightOK(fl2) /\ Moved(fl, fl2, layer, h)
      /\ \A j \in 1 .. Len(fl2) : \E i \in 1 .. Len(fl) : Grown(fl[i], fl2[j], layer, h)
  <2>1. FlightOK(fl) /\ \A i \in 1 .. Len(fl) :
          ~(fl[i].age = Len(fl[i].slices) /\ h.valid)
    BY DEF HeadsOf
  <2> QED  BY <1>1, <2>1, FlyingStep
<1>3. ASSUME NEW j \in 1 .. Len(fl2)
      PROVE  /\ ~Came(fl2[j], 1) /\ fl2[j].age # 1
             /\ Came(fl2[j], 1 + 1) => LastIn.valid
  <2>1. PICK i \in 1 .. Len(fl) : Grown(fl[i], fl2[j], layer, h)
    BY <1>2
  <2>2. PacketOK(fl[i]) /\ PacketOK(fl2[j])
    BY <1>2 DEF HeadsOf, FlightOK
  <2>3. /\ fl[i].age \in Nat /\ Len(fl[i].slices) \in Nat
        /\ 1 <= Len(fl[i].slices) /\ Len(fl[i].slices) <= fl[i].age
    BY <2>2, PacketFacts
  <2>4. fl2[j].age = fl[i].age + 1 /\ fl2[j].slices = fl[i].slices
    BY <2>1 DEF Grown
  <2>5. Came(fl2[j], 1) <=> 1 <= fl2[j].age /\ fl2[j].age < 1 + Len(fl2[j].slices)
    BY <2>2, CameCases
  <2>6. ASSUME Came(fl2[j], 1 + 1) PROVE LastIn.valid
    <3>1. 1 \in Nat \ {0}
      OBVIOUS
    <3>2. Came(fl[i], 1)
      BY <1>1, <2>1, <2>2, <2>6, <3>1, GrownCame
    <3>3. SliceOf(LastIn, 1, 1, fl)
      <4>1. 1 \in Layers
        BY TopAssumption DEF Layers
      <4> QED  BY <4>1, LayerAges DEF HeadsOf, LayerHolds, LastIn
    <3> QED  BY <3>2, <3>3 DEF SliceOf
  <2> QED  BY <2>3, <2>4, <2>5, <2>6
<1>4. SliceOf(h, 1, 1, fl2)
  BY <1>3 DEF SliceOf
<1> QED  BY <1>2, <1>3, <1>4 DEF Arrives

LEMMA StartArrives ==
  ASSUME TypeOK, NEW fl, NEW fl2, HeadsOf(layer, fl),
         NEW h \in Slice, h.valid, h.start, ~LastIn.valid,
         NEW w, Clock(h, EmptyMeta, w),
         fl2 = Append(Flown(fl, <<>>), [slices |-> <<h.data>>, age |-> 1, infos |-> <<info0>>])
  PROVE  Arrives(h, EmptyMeta, w, fl, fl2)
<1> DEFINE d == h.data
           F == Flown(fl, <<>>)
           new == [slices |-> <<d>>, age |-> 1, infos |-> <<info0>>]
<1>1. h.data = d /\ d \in Data
  BY DEF Slice
<1>2. fl2 = Append(F, new)
  OBVIOUS
<1> HIDE DEF d
<1>3. /\ FlightOK(F) /\ Moved(fl, F, layer, h)
      /\ \A j \in 1 .. Len(F) : \E i \in 1 .. Len(fl) : Grown(fl[i], F[j], layer, h)
  <2>1. FlightOK(fl) /\ \A i \in 1 .. Len(fl) :
          ~(fl[i].age = Len(fl[i].slices) /\ h.valid)
    BY LastFacts DEF HeadsOf
  <2> QED  BY <1>1, <2>1, FlyingStep
<1> HIDE DEF F
<1>4. ASSUME NEW j \in 1 .. Len(F)
      PROVE  /\ ~Came(F[j], 1) /\ F[j].age # 1 /\ F[j].age > 1 + Len(F[j].slices)
  <2>1. PICK i \in 1 .. Len(fl) : Grown(fl[i], F[j], layer, h)
    BY <1>3
  <2>2. PacketOK(fl[i]) /\ PacketOK(F[j])
    BY <1>3 DEF HeadsOf, FlightOK
  <2>3. /\ fl[i].age \in Nat /\ Len(fl[i].slices) \in Nat
        /\ 1 <= Len(fl[i].slices) /\ Len(fl[i].slices) <= fl[i].age
    BY <2>2, PacketFacts
  <2>4. fl[i].age # Len(fl[i].slices)
    BY LastFacts
  <2>5. F[j].age = fl[i].age + 1 /\ F[j].slices = fl[i].slices
    BY <1>1, <2>1, <2>4 DEF Grown
  <2>6. Came(F[j], 1) <=> 1 <= F[j].age /\ F[j].age < 1 + Len(F[j].slices)
    BY <2>2, CameCases
  <2> QED  BY <2>3, <2>4, <2>5, <2>6
<1>5. /\ PacketOK(new) /\ new.age = 1 /\ new.infos[1] = info0 /\ Len(new.slices) = 1
      /\ new.slices = <<d>> /\ new.infos \in Seq(LookupRst)
  <2>1. /\ new.slices = <<d>> /\ new.infos = <<info0>> /\ new.age = 1
        /\ <<d>> \in Seq(Data) /\ Len(<<d>>) = 1
        /\ <<info0>> \in Seq(LookupRst) /\ Len(<<info0>>) = 1 /\ <<info0>>[1] = info0
    BY <1>1 DEF TypeOK
  <2>2. new \in Packet
    BY <2>1 DEF Packet
  <2>3. \A k \in Layers : ~(LookupAge(k) < 1) /\ ~(k + 1 <= 1)
    BY LayerAges
  <2>4. 1 \in 1 .. NUM_LAYER + 1
    BY TopAssumption
  <2> HIDE DEF new
  <2> QED  BY <2>1, <2>2, <2>3, <2>4 DEF PacketOK
<1>6. new.age < Latency * NUM_LAYER + Len(new.slices)
  BY <1>5, TopAssumption DEF Latency
<1> HIDE DEF new
<1>7. /\ fl2 \in Seq(Packet) /\ Len(fl2) = Len(F) + 1 /\ Len(F) \in Nat
      /\ fl2[Len(F) + 1] = new
      /\ \A j \in 1 .. Len(F) : fl2[j] = F[j]
  <2>1. F \in Seq(Packet) /\ new \in Packet
    BY <1>3, <1>5 DEF FlightOK, PacketOK
  <2>2. /\ Append(F, new) \in Seq(Packet) /\ Len(Append(F, new)) = Len(F) + 1 /\ Len(F) \in Nat
        /\ Append(F, new)[Len(F) + 1] = new
        /\ \A j \in 1 .. Len(F) : Append(F, new)[j] = F[j]
    BY <2>1
  <2> QED  BY <1>2, <2>2
<1>8. \A j \in 1 .. Len(fl2) : j \in 1 .. Len(F) \/ j = Len(F) + 1
  BY <1>7
<1>9. FlightOK(fl2)
  <2>1. ASSUME NEW j \in 1 .. Len(fl2)
        PROVE  PacketOK(fl2[j]) /\ fl2[j].age < Latency * NUM_LAYER + Len(fl2[j].slices)
    BY <1>3, <1>5, <1>6, <1>7, <1>8 DEF FlightOK
  <2>2. ASSUME NEW i \in 1 .. Len(fl2), NEW j \in 1 .. Len(fl2), i < j
        PROVE  fl2[i].age > fl2[j].age + Len(fl2[i].slices)
    <3>1. i \in 1 .. Len(F)
      BY <1>7, <1>8, <2>2
    <3>2. CASE j \in 1 .. Len(F)
      BY <1>3, <1>7, <2>2, <3>1, <3>2 DEF FlightOK
    <3>3. CASE j = Len(F) + 1
      BY <1>4, <1>5, <1>7, <3>1, <3>3
    <3> QED  BY <1>8, <3>2, <3>3
  <2> QED  BY <1>7, <2>1, <2>2 DEF FlightOK
<1>10. Moved(fl, fl2, layer, h)
  <2>1. \A j \in 1 .. Len(fl2) :
          fl2[j].age = 1 \/ \E i \in 1 .. Len(fl) : Grown(fl[i], fl2[j], layer, h)
    BY <1>3, <1>5, <1>7, <1>8
  <2>2. \A j \in 1 .. Len(F) : j \in 1 .. Len(fl2)
    BY <1>7
  <2>3. \A i \in 1 .. Len(fl) :
          \/ fl[i].age + 1 >= Latency * NUM_LAYER + Len(fl[i].slices)
          \/ \E j \in 1 .. Len(fl2) : Grown(fl[i], fl2[j], layer, h)
    BY <1>3, <1>7, <2>2 DEF Moved
  <2> QED  BY <2>1, <2>3 DEF Moved
<1>11. Len(F) + 1 \in 1 .. Len(fl2)
  BY <1>7
<1>12. SliceOf(h, 1, 1, fl2)
  <2>1. Came(new, 1)
    BY <1>5 DEF Came
  <2>2. Window(new.slices, Place(new, 1, 1)) = d
    <3>1. HeadPos(new.infos, 1) = 0 /\ Row(0) = 0 /\ new.age - 1 = 0
      <4>1. HeadPos(new.infos, 1) = 0
        BY <1>5, Positions
      <4>2. Row(0) = 0
        BY RowLemma
      <4> QED  BY <1>5, <4>1, <4>2
    <3>2. Place(new, 1, 1) = Row(0)
      BY <3>1 DEF Place
    <3>3. <<d>> \in Seq(Data) /\ 0 < Len(<<d>>) /\ 0 + 1 = 1 /\ <<d>>[1] = d
      BY <1>1
    <3>4. Window(<<d>>, Row(0)) = <<d>>[0 + 1]
      BY <3>3, WindowAt
    <3> QED  BY <1>5, <3>2, <3>3, <3>4
  <2>3. \A j \in 1 .. Len(fl2) : Came(fl2[j], 1) => fl2[j] = new
    BY <1>4, <1>7, <1>8
  <2> QED  BY <1>1, <1>5, <1>7, <1>11, <2>1, <2>2, <2>3 DEF SliceOf
<1>13. /\ \A j \in 1 .. Len(fl2) : fl2[j].age = 1 => fl2[j].infos[1] = info0
       /\ \E j \in 1 .. Len(fl2) : fl2[j].age = 1
  BY <1>4, <1>5, <1>7, <1>8, <1>11
<1> QED  BY <1>1, <1>2, <1>9, <1>10, <1>12, <1>13 DEF Arrives

LEMMA NextArrives ==
  ASSUME TypeOK, NEW fl, NEW fl2, HeadsOf(layer, fl),
         NEW h \in Slice, h.valid, ~h.start, LastIn.valid, ~LastIn.tail,
         NEW w, Clock(h, ZeroSlice, w), fl2 = Flown(fl, <<h.data>>)
  PROVE  Arrives(h, ZeroSlice, w, fl, fl2)
<1> DEFINE d == h.data
<1>1. h.data = d /\ d \in Data
  BY DEF Slice
<1>2. fl2 = Flown(fl, <<d>>)
  OBVIOUS
<1> HIDE DEF d
<1> DEFINE last == Len(fl)
<1>3. /\ last > 0 /\ last \in Nat /\ fl[last].age = Len(fl[last].slices)
  BY LastFacts
<1>4. /\ FlightOK(fl2) /\ Moved(fl, fl2, layer, h)
      /\ \A j \in 1 .. Len(fl2) : \E i \in 1 .. Len(fl) : Grown(fl[i], fl2[j], layer, h)
  <2>1. FlightOK(fl) /\ <<d>> = <<h.data>>
    BY <1>1 DEF HeadsOf
  <2> QED  BY <1>1, <1>2, <1>3, <2>1, FlyingStep
<1>5. ASSUME NEW i \in 1 .. Len(fl), NEW j \in 1 .. Len(fl2),
             Grown(fl[i], fl2[j], layer, h)
      PROVE  /\ fl2[j].age # 1
             /\ Came(fl2[j], 1) <=> fl[i].age = Len(fl[i].slices)
             /\ Came(fl2[j], 1) => d = Window(fl2[j].slices, Place(fl2[j], 1, 1))
  <2> DEFINE p == fl[i]
             q == fl2[j]
  <2>1. PacketOK(p) /\ PacketOK(q)
    BY <1>4 DEF HeadsOf, FlightOK
  <2>2. /\ p.age \in Nat /\ Len(p.slices) \in Nat /\ p.slices \in Seq(Data)
        /\ 1 <= Len(p.slices) /\ Len(p.slices) <= p.age /\ q.age = p.age + 1
        /\ q.slices \in Seq(Data) /\ q.infos \in Seq(LookupRst)
    BY <1>5, <2>1, PacketFacts DEF Grown
  <2>3. Came(q, 1) <=> 1 <= q.age /\ q.age < 1 + Len(q.slices)
    BY <2>1, CameCases
  <2>4. CASE p.age = Len(p.slices)
    <3>1. q.slices = Append(p.slices, d)
      BY <1>1, <1>5, <2>4 DEF Grown
    <3> HIDE DEF p, q
    <3>2. Len(q.slices) = Len(p.slices) + 1 /\ q.slices[Len(p.slices) + 1] = d
      BY <2>2, <3>1
    <3>3. Len(p.slices) < Len(q.slices)
      BY <2>2, <3>2
    <3>4. Window(q.slices, Row(Len(p.slices))) = d
      BY <2>2, <3>2, <3>3, WindowAt
    <3>5. HeadPos(q.infos, 1) = 0 /\ q.age - 1 = Len(p.slices) /\ Row(Len(p.slices)) \in Nat
      <4>1. HeadPos(q.infos, 1) = 0
        BY <2>2, Positions
      <4>2. q.age - 1 = Len(p.slices)
        BY <2>2, <2>4
      <4>3. Row(Len(p.slices)) \in Nat
        BY <2>2, RowLemma
      <4> QED  BY <4>1, <4>2, <4>3
    <3>6. Place(q, 1, 1) = Row(Len(p.slices))
      BY <3>5 DEF Place
    <3>7. q.age # 1 /\ Came(q, 1)
      BY <2>2, <2>3, <2>4, <3>2
    <3> QED  BY <2>4, <3>4, <3>6, <3>7 DEF p, q
  <2>5. CASE p.age # Len(p.slices)
    <3>1. q.slices = p.slices
      BY <1>5, <2>5 DEF Grown
    <3> QED  BY <2>2, <2>3, <2>5, <3>1
  <2> QED  BY <2>4, <2>5
<1>6. \A j \in 1 .. Len(fl2) : fl2[j].age # 1
  BY <1>4, <1>5
<1>7. \E j \in 1 .. Len(fl2) : Came(fl2[j], 1)
  <2>1. last \in 1 .. Len(fl)
    BY <1>3
  <2>2. ~(fl[last].age + 1 >= Latency * NUM_LAYER + Len(fl[last].slices))
    <3>1. Len(fl[last].slices) \in Nat
      BY <2>1, PacketFacts DEF HeadsOf, FlightOK
    <3>2. Latency * NUM_LAYER \in Nat /\ Latency * NUM_LAYER > 1
      BY TopAssumption DEF Latency
    <3> QED  BY <1>3, <3>1, <3>2
  <2>3. PICK j \in 1 .. Len(fl2) : Grown(fl[last], fl2[j], layer, h)
    BY <1>4, <2>1, <2>2 DEF Moved
  <2> QED  BY <1>3, <1>5, <2>1, <2>3
<1>8. SliceOf(h, 1, 1, fl2)
  BY <1>1, <1>4, <1>5, <1>6, <1>7 DEF SliceOf
<1> QED  BY <1>1, <1>2, <1>4, <1>6, <1>8 DEF Arrives

LEMMA ArrivalAlways ==
  ASSUME TypeOK, HeadsInv, Next
  PROVE  \/ Reset
         \/ \E h \in Slice, m \in Slice, w \in ConfWord \cup {NoWord} : Arrives(h, m, w, flight, flight')
<1>1. \A w \in ConfInputs \cup {NoWord} : w \in ConfWord \cup {NoWord}
  BY TopAssumption
<1>2. DataInputs \subseteq Data
  BY TopAssumption
<1>3. ASSUME NEW w \in ConfInputs \cup {NoWord}, Gap(w)
      PROVE  \E h \in Slice, m \in Slice, v \in ConfWord \cup {NoWord} : Arrives(h, m, v, flight, flight')
  <2>1. ZeroSlice \in Slice /\ ~ZeroSlice.valid /\ ~ZeroSlice.start /\ ~ZeroSlice.tail
        /\ ZeroSlice.data = ZeroData
    BY ConstantTypes DEF ZeroSlice
  <2>2. /\ LastIn.valid => LastIn.tail
        /\ Clock(ZeroSlice, ZeroSlice, w) /\ flight' = Flown(flight, <<>>)
    BY <1>3 DEF Gap, Flying
  <2>3. Arrives(ZeroSlice, ZeroSlice, w, flight, flight')
    BY <2>1, <2>2, GapArrives DEF HeadsInv
  <2> QED  BY <1>1, <2>1, <2>3
<1>4. ASSUME NEW w \in ConfInputs \cup {NoWord}, NEW d \in DataInputs, NEW tail \in BOOLEAN,
             StartSlice(d, tail, w)
      PROVE  \E h \in Slice, m \in Slice, v \in ConfWord \cup {NoWord} : Arrives(h, m, v, flight, flight')
  <2>1. d \in Data /\ HeadSlice(d, TRUE, tail) \in Slice /\ EmptyMeta \in Slice
    BY <1>2, ConstantTypes
  <2> DEFINE h == HeadSlice(d, TRUE, tail)
  <2>2. Arrives(h, EmptyMeta, w, flight, flight')
    <3>1. h.data = d /\ h.valid /\ h.start
      BY DEF HeadSlice
    <3>2. /\ ~LastIn.valid /\ Clock(h, EmptyMeta, w)
          /\ flight' = Append(Flown(flight, <<>>),
                              [slices |-> <<h.data>>, age |-> 1, infos |-> <<info0>>])
      BY <1>4, <3>1 DEF StartSlice, Flying
    <3> HIDE DEF h
    <3>3. h \in Slice
      BY <2>1 DEF h
    <3> QED  BY <3>1, <3>2, <3>3, StartArrives DEF HeadsInv
  <2> QED  BY <1>1, <2>1, <2>2
<1>5. ASSUME NEW w \in ConfInputs \cup {NoWord}, NEW d \in DataInputs, NEW tail \in BOOLEAN,
             NextSlice(d, tail, w)
      PROVE  \E h \in Slice, m \in Slice, v \in ConfWord \cup {NoWord} : Arrives(h, m, v, flight, flight')
  <2>1. d \in Data /\ HeadSlice(d, FALSE, tail) \in Slice /\ ZeroSlice \in Slice
    BY <1>2, ConstantTypes
  <2> DEFINE h == HeadSlice(d, FALSE, tail)
  <2>2. Arrives(h, ZeroSlice, w, flight, flight')
    <3>1. h.data = d /\ h.valid /\ ~h.start
      BY DEF HeadSlice
    <3>2. /\ LastIn.valid /\ ~LastIn.tail /\ Clock(h, ZeroSlice, w)
          /\ flight' = Flown(flight, <<h.data>>)
      BY <1>5, <3>1 DEF NextSlice, Flying
    <3> HIDE DEF h
    <3>3. h \in Slice
      BY <2>1 DEF h
    <3> QED  BY <3>1, <3>2, <3>3, NextArrives DEF HeadsInv
  <2> QED  BY <1>1, <2>1, <2>2
<1> QED  BY <1>3, <1>4, <1>5 DEF Next

(* Reset reaches the rules, and no packet.                                 *)
LEMMA ResetKeeps ==
  ASSUME TypeOK, HeadsInv, Reset
  PROVE  HeadsInv'
<1>1. flight' = flight
  BY DEF Reset
<1>2. ASSUME NEW k \in Layers PROVE LayerHolds(layer'[k], k, flight)
  <2>1. LayerHolds(layer[k], k, flight)
    BY DEF HeadsInv, HeadsOf
  <2>2. /\ layer'[k].head = layer[k].head /\ layer'[k].sh = layer[k].sh
        /\ layer'[k].type = layer[k].type /\ layer'[k].headShift = layer[k].headShift
        /\ layer'[k].s1 = layer[k].s1 /\ layer'[k].s2 = layer[k].s2
    BY DEF Reset, LayerReset, TypeOK, LayerRegs
  <2> QED  BY <2>1, <2>2 DEF LayerHolds, RulesOf
<1> QED  BY <1>1, <1>2 DEF HeadsInv, HeadsOf

LEMMA HeadsInvariant == Spec => []HeadsInv
<1>1. Init => HeadsInv
  <2> SUFFICES ASSUME Init PROVE HeadsInv
    OBVIOUS
  <2>1. flight = <<>> /\ Len(flight) = 0 /\ FlightOK(flight)
    BY DEF Init, FlightOK
  <2>2. ASSUME NEW k \in Layers PROVE LayerHolds(layer[k], k, flight)
    <3>1. layer[k].head = ZeroSlice /\ layer[k].sh.preHead = ZeroSlice /\ layer[k].sh.head = ZeroSlice
      BY DEF Init, ZeroLayer
    <3>2. \A t, n : SliceOf(ZeroSlice, t, n, flight)
      BY <2>1 DEF SliceOf, ZeroSlice
    <3> QED  BY <2>1, <3>1, <3>2 DEF LayerHolds
  <2> QED  BY <2>1, <2>2 DEF HeadsInv, HeadsOf
<1>2. TypeOK /\ HeadsInv /\ [Next]_vars => HeadsInv'
  <2> SUFFICES ASSUME TypeOK, HeadsInv, [Next]_vars PROVE HeadsInv'
    OBVIOUS
  <2>1. CASE Next
    BY <2>1, ArrivalAlways, ClockStep, ResetKeeps DEF HeadsInv
  <2>2. CASE UNCHANGED vars
    BY <2>2 DEF vars, HeadsInv, HeadsOf
  <2> QED  BY <2>1, <2>2
<1> QED  BY <1>1, <1>2, TypeCorrect, PTL DEF Spec

(* Whatever packets come and whatever rules are written, every slice of    *)
(* every packet leaves Parser_Top three clocks per layer after it came,    *)
(* whole and moved by the shifts of its own packet's headers.              *)
THEOREM Heads == Spec => []HeadParsed
<1>1. HeadsInv => HeadParsed
  <2> SUFFICES ASSUME HeadsInv PROVE HeadParsed
    OBVIOUS
  <2> DEFINE T == Latency * NUM_LAYER
  <2>1. T \in Nat /\ T > 1 /\ LookupAge(NUM_LAYER) + 2 = T /\ NUM_LAYER \in Layers
    <3>1. T \in Nat /\ T > 1
      BY TopAssumption DEF Latency
    <3> QED  BY <3>1, LayerAges
  <2> HIDE DEF T
  <2>2. SliceOf(oHead, T, NUM_LAYER + 1, flight)
    BY <2>1 DEF HeadsInv, HeadsOf, LayerHolds, oHead
  <2>3. \A i \in 1 .. Len(flight) : Due(flight[i]) <=> Came(flight[i], T)
    BY DEF Due, Came, T
  <2>4. ASSUME NEW i \in 1 .. Len(flight), Due(flight[i])
        PROVE  /\ oHead.start <=> DueSlice(flight[i]) = 0
               /\ oHead.tail <=> DueSlice(flight[i]) = Len(flight[i].slices) - 1
               /\ oHead.data = Window(flight[i].slices, HeadPos(flight[i].infos, NUM_LAYER + 1)
                                        + DueSlice(flight[i]) * CANDI_NUM)
    <3> DEFINE p == flight[i]
    <3>1. p.age \in Nat
      BY PacketFacts DEF HeadsInv, HeadsOf, FlightOK
    <3>2. DueSlice(p) = p.age - T
      BY DEF DueSlice, T
    <3>3. /\ oHead.start <=> p.age = T
          /\ oHead.tail <=> p.age - T = Len(p.slices) - 1
          /\ oHead.data = Window(p.slices, Place(p, T, NUM_LAYER + 1))
      BY <2>1, <2>2, <2>3, <2>4 DEF SliceOf
    <3>4. p.age = T <=> p.age - T = 0
      BY <2>1, <3>1
    <3> QED  BY <3>2, <3>3, <3>4 DEF Place, Row
  <2>5. oHead.valid <=> \E i \in 1 .. Len(flight) : Due(flight[i])
    BY <2>2, <2>3 DEF SliceOf
  <2> QED  BY <2>4, <2>5 DEF HeadParsed
<1> QED  BY <1>1, HeadsInvariant, PTL

-----------------------------------------------------------------------------
(* The metadata path.  What the header of layer n puts into unit u of the  *)
(* metadata, and what the layers before layer k have put there together.   *)
Field(p, n, u) ==
  LET j == u - MetaPos(p.infos, n)
  IN  IF j \in KeyIds /\ p.infos[n].keyOffset_v[j]
        THEN Flat(p.slices, HeadPos(p.infos, n) + p.infos[n].keyOffset[j])
        ELSE Zero

Gathered(p, k, u) == UNION {Field(p, n, u) : n \in 1 .. k - 1}

(* Register m holds the metadata of the packet whose start slice came t    *)
(* clocks ago, with the fields of the layers before layer k.               *)
MetaOf(m, t, k, fl) ==
  /\ m.valid <=> \E i \in 1 .. Len(fl) : fl[i].age = t
  /\ ~m.valid => m = ZeroSlice
  /\ \A i \in 1 .. Len(fl) : fl[i].age = t =>
       /\ m.tail
       /\ MetaPos(fl[i].infos, k) < CANDI_NUM =>
            /\ m.offset = MetaPos(fl[i].infos, k)
            /\ \A u \in UnitIds : m.data[u] = Gathered(fl[i], k, u)

FieldsOf(l, p, k) ==
  /\ p.age = LookupAge(k) =>
       /\ l.key = ExtractKeys(Window(p.slices, HeadPos(p.infos, k)), p.infos[k])
       /\ l.metaShift = p.infos[k].metaShift
  /\ p.age = LookupAge(k) + 1 /\ MetaPos(p.infos, k + 1) < CANDI_NUM =>
       /\ l.sh.metaShift = MetaPos(p.infos, k + 1)
       /\ \A u \in UnitIds : l.sh.extMeta[u] = Field(p, k, u)

MetaHolds(l, k, fl) ==
  /\ MetaOf(l.meta, LookupAge(k), k, fl)
  /\ MetaOf(l.sh.preMeta, LookupAge(k) + 1, k, fl)
  /\ MetaOf(l.sh.meta, LookupAge(k) + 2, k + 1, fl)
  /\ l.sh.startBit <=> l.sh.preMeta.valid
  /\ \A i \in 1 .. Len(fl) : FieldsOf(l, fl[i], k)

(* A field is read from what has come of the packet, so it stays.          *)
LEMMA GrownField ==
  ASSUME NEW p, PacketOK(p), NEW q, PacketOK(q), NEW lay, NEW in, in.data \in Data,
         Grown(p, q, lay, in), NEW n \in 1 .. Len(p.infos), NEW u \in UnitIds
  PROVE  Field(q, n, u) = Field(p, n, u)
<1>1. /\ p.age \in Nat /\ Len(p.infos) \in Nat /\ p.infos \in Seq(LookupRst)
      /\ Len(p.infos) <= p.age /\ p.infos[n] \in LookupRst
  BY PacketFacts
<1>2. /\ HeadPos(q.infos, n) = HeadPos(p.infos, n) /\ MetaPos(q.infos, n) = MetaPos(p.infos, n)
      /\ q.infos[n] = p.infos[n]
  BY <1>1, GrownPos DEF Grown
<1> DEFINE j == u - MetaPos(p.infos, n)
<1>3. ASSUME j \in KeyIds
      PROVE  Flat(q.slices, HeadPos(p.infos, n) + p.infos[n].keyOffset[j])
               = Flat(p.slices, HeadPos(p.infos, n) + p.infos[n].keyOffset[j])
  <2>1. HeadPos(p.infos, n) \in Nat /\ HeadPos(p.infos, n) <= Row(n - 1)
    BY <1>1, Positions
  <2>2. p.infos[n].keyOffset[j] \in 0 .. CANDI_NUM - 1
    BY <1>1, <1>3 DEF LookupRst, UnitIds
  <2>3. Row(n - 1) \in Nat /\ Row(n - 1) + CANDI_NUM <= Row(p.age) /\ Row(p.age) \in Nat
    <3>1. n - 1 \in Nat /\ n - 1 < p.age
      BY <1>1
    <3> QED  BY <1>1, <3>1, RowLemma
  <2> DEFINE o == p.infos[n].keyOffset[j]
             h == HeadPos(p.infos, n)
  <2>4. CANDI_NUM \in Nat
    BY WidthAssumption
  <2> HIDE DEF o, h
  <2>5. h + o \in Nat /\ h + o < Row(p.age)
    <3>1. h \in Nat /\ h <= Row(n - 1) /\ o \in 0 .. CANDI_NUM - 1
      BY <2>1, <2>2 DEF h, o
    <3> QED  BY <2>3, <2>4, <3>1
  <2>6. Flat(q.slices, h + o) = Flat(p.slices, h + o)
    BY <2>5, GrownFlat
  <2> QED  BY <2>6 DEF h, o
<1> QED  BY <1>2, <1>3 DEF Field

LEMMA GrownGathered ==
  ASSUME NEW p, PacketOK(p), NEW q, PacketOK(q), NEW lay, NEW in, in.data \in Data,
         Grown(p, q, lay, in), NEW k \in Nat \ {0}, k <= Len(p.infos) + 1, NEW u \in UnitIds
  PROVE  Gathered(q, k, u) = Gathered(p, k, u)
<1>1. Len(p.infos) \in Nat
  BY PacketFacts
<1>2. \A n \in 1 .. k - 1 : n \in 1 .. Len(p.infos)
  BY <1>1
<1>3. \A n \in 1 .. k - 1 : Field(q, n, u) = Field(p, n, u)
  BY <1>2, GrownField
<1> QED  BY <1>3 DEF Gathered

(* A metadata register copied on a clock.                                  *)
LEMMA MetaKept ==
  ASSUME NEW fl, FlightOK(fl), NEW fl2, FlightOK(fl2), NEW lay, NEW in, in.data \in Data,
         Moved(fl, fl2, lay, in),
         NEW t \in Nat \ {0}, t < Latency * NUM_LAYER, NEW k \in Nat \ {0},
         \A i \in 1 .. Len(fl) : fl[i].age = t => k <= Len(fl[i].infos) + 1,
         NEW m, MetaOf(m, t, k, fl)
  PROVE  MetaOf(m, t + 1, k, fl2)
<1>1. \A i \in 1 .. Len(fl) : PacketOK(fl[i])
  BY DEF FlightOK
<1>2. ASSUME NEW j \in 1 .. Len(fl2), fl2[j].age = t + 1
      PROVE  \E i \in 1 .. Len(fl) :
               /\ Grown(fl[i], fl2[j], lay, in) /\ fl[i].age = t
               /\ PacketOK(fl[i]) /\ PacketOK(fl2[j])
  <2>1. fl2[j].age # 1
    BY <1>2
  <2>2. PICK i \in 1 .. Len(fl) :
          /\ Grown(fl[i], fl2[j], lay, in) /\ PacketOK(fl[i]) /\ PacketOK(fl2[j])
          /\ fl[i].age \in Nat /\ fl2[j].age = fl[i].age + 1
    BY <2>1, OldPacket
  <2>3. fl[i].age = t
    BY <1>2, <2>2
  <2> QED  BY <2>2, <2>3
<1>3. ASSUME NEW i \in 1 .. Len(fl), fl[i].age = t
      PROVE  \E j \in 1 .. Len(fl2) : fl2[j].age = t + 1
  <2>1. ~(fl[i].age + 1 >= Latency * NUM_LAYER + Len(fl[i].slices))
    <3>1. Len(fl[i].slices) \in Nat /\ Len(fl[i].slices) >= 1 /\ Latency * NUM_LAYER \in Nat
      BY <1>1, PacketFacts, TopAssumption DEF Latency
    <3> QED  BY <1>3, <3>1
  <2>2. PICK j \in 1 .. Len(fl2) : Grown(fl[i], fl2[j], lay, in)
    BY <2>1 DEF Moved
  <2> QED  BY <1>3, <2>2 DEF Grown
<1>4. m.valid <=> \E j \in 1 .. Len(fl2) : fl2[j].age = t + 1
  BY <1>2, <1>3 DEF MetaOf
<1>5. ASSUME NEW j \in 1 .. Len(fl2), fl2[j].age = t + 1
      PROVE  /\ m.tail
             /\ MetaPos(fl2[j].infos, k) < CANDI_NUM =>
                  /\ m.offset = MetaPos(fl2[j].infos, k)
                  /\ \A u \in UnitIds : m.data[u] = Gathered(fl2[j], k, u)
  <2>1. PICK i \in 1 .. Len(fl) :
          /\ Grown(fl[i], fl2[j], lay, in) /\ fl[i].age = t
          /\ PacketOK(fl[i]) /\ PacketOK(fl2[j])
    BY <1>2, <1>5
  <2>2. k <= Len(fl[i].infos) + 1 /\ Len(fl[i].infos) \in Nat
    BY <2>1, PacketFacts
  <2>3. MetaPos(fl2[j].infos, k) = MetaPos(fl[i].infos, k)
    <3>1. k \in 1 .. Len(fl[i].infos) + 1
      BY <2>2
    <3> DEFINE p == fl[i]
               q == fl2[j]
    <3>2. Grown(p, q, lay, in) /\ PacketOK(p) /\ PacketOK(q) /\ k \in 1 .. Len(p.infos) + 1
      BY <2>1, <3>1
    <3> HIDE DEF p, q
    <3>3. MetaPos(q.infos, k) = MetaPos(p.infos, k)
      BY <3>2, GrownPos
    <3> QED  BY <3>3 DEF p, q
  <2>4. \A u \in UnitIds : Gathered(fl2[j], k, u) = Gathered(fl[i], k, u)
    BY <2>1, <2>2, GrownGathered
  <2> QED  BY <2>1, <2>3, <2>4 DEF MetaOf
<1>6. ~m.valid => m = ZeroSlice
  BY DEF MetaOf
<1> QED  BY <1>4, <1>5, <1>6 DEF MetaOf

(* Shift_Head adds the fields of its layer.                                *)
LEMMA MetaGathered ==
  ASSUME NEW fl, FlightOK(fl), NEW k \in Layers, NEW l \in LayerRegs, MetaHolds(l, k, fl)
  PROVE  MetaOf(NextMeta(l.sh), LookupAge(k) + 1, k + 1, fl)
<1> DEFINE sh == l.sh
           t == LookupAge(k)
           out == NextMeta(sh)
<1>0. sh \in ShiftHeadRegs /\ sh.preMeta \in Slice
  BY DEF LayerRegs, ShiftHeadRegs
<1>1. MetaOf(sh.preMeta, t + 1, k, fl) /\ (sh.startBit <=> sh.preMeta.valid)
  BY DEF MetaHolds
<1>2. /\ out.valid = sh.preMeta.valid /\ out.tail = sh.preMeta.tail
      /\ sh.startBit => /\ out.offset = sh.metaShift
                        /\ out.data = MergeData(sh.preMeta.data, sh.extMeta)
      /\ ~sh.startBit => out = sh.preMeta
  BY <1>0 DEF NextMeta, Slice
<1> HIDE DEF out
<1>3. ASSUME NEW i \in 1 .. Len(fl), fl[i].age = t + 1
      PROVE  /\ out.tail
             /\ MetaPos(fl[i].infos, k + 1) < CANDI_NUM =>
                  /\ out.offset = MetaPos(fl[i].infos, k + 1)
                  /\ \A u \in UnitIds : out.data[u] = Gathered(fl[i], k + 1, u)
  <2> DEFINE p == fl[i]
  <2>1. sh.preMeta.tail /\ sh.startBit
    BY <1>1, <1>3 DEF MetaOf
  <2>2. ASSUME MetaPos(p.infos, k + 1) < CANDI_NUM, NEW u \in UnitIds
        PROVE  out.data[u] = Gathered(p, k + 1, u)
    <3>1. MetaPos(p.infos, k) < CANDI_NUM
      <4>1. /\ p.infos \in Seq(LookupRst) /\ Len(p.infos) \in Nat /\ p.age \in Nat
            /\ p.age >= LookupAge(k) => k <= Len(p.infos)
        BY PacketFacts DEF FlightOK
      <4>2. k \in 1 .. Len(p.infos)
        <5>1. LookupAge(k) \in Nat /\ k \in Nat \ {0}
          BY LayerAges
        <5> QED  BY <1>3, <4>1, <5>1
      <4>3. /\ MetaPos(p.infos, k + 1) = MetaPos(p.infos, k) + p.infos[k].metaShift
            /\ MetaPos(p.infos, k) \in Nat
        BY <4>1, <4>2, Positions
      <4>4. p.infos[k].metaShift \in Nat
        <5>1. p.infos[k] \in LookupRst
          BY <4>1, <4>2
        <5> QED  BY <5>1 DEF LookupRst, UnitIds
      <4>5. CANDI_NUM \in Nat
        BY WidthAssumption
      <4> HIDE DEF p
      <4> QED  BY <2>2, <4>3, <4>4, <4>5
    <3>2. sh.preMeta.data[u] = Gathered(p, k, u)
      BY <1>1, <1>3, <3>1 DEF MetaOf
    <3>3. sh.extMeta[u] = Field(p, k, u)
      BY <1>3, <2>2 DEF MetaHolds, FieldsOf
    <3>4. out.data[u] = Gathered(p, k, u) \cup Field(p, k, u)
      BY <1>2, <2>1, <3>2, <3>3 DEF MergeData
    <3>5. Gathered(p, k + 1, u) = Gathered(p, k, u) \cup Field(p, k, u)
      <4>1. \A n : n \in 1 .. (k + 1) - 1 <=> n \in 1 .. k - 1 \/ n = k
        BY LayerAges
      <4> QED  BY <4>1 DEF Gathered
    <3> QED  BY <3>4, <3>5
  <2>3. MetaPos(p.infos, k + 1) < CANDI_NUM => out.offset = MetaPos(p.infos, k + 1)
    BY <1>2, <1>3, <2>1 DEF MetaHolds, FieldsOf
  <2> QED  BY <1>2, <2>1, <2>2, <2>3
<1>4. out.valid <=> \E i \in 1 .. Len(fl) : fl[i].age = t + 1
  BY <1>1, <1>2 DEF MetaOf
<1>5. ~out.valid => out = ZeroSlice
  BY <1>1, <1>2 DEF MetaOf
<1>6. MetaOf(out, t + 1, k + 1, fl)
  BY <1>3, <1>4, <1>5 DEF MetaOf
<1> QED  BY <1>6 DEF out

(* The key fields at their place are what the layer adds, and the offset   *)
(* moves on by what they take.                                             *)
LEMMA FieldPlaced ==
  ASSUME NEW p, PacketOK(p), NEW k \in 1 .. Len(p.infos), NEW u \in UnitIds
  PROVE  PlaceFields(ExtractKeys(Window(p.slices, HeadPos(p.infos, k)), p.infos[k]),
                     MetaPos(p.infos, k))[u] = Field(p, k, u)
<1> DEFINE j == u - MetaPos(p.infos, k)
           info == p.infos[k]
           key == ExtractKeys(Window(p.slices, HeadPos(p.infos, k)), info)
<1>1. info \in LookupRst
  BY PacketFacts
<1>2. PlaceFields(key, MetaPos(p.infos, k))[u] = IF j \in KeyIds THEN key[j] ELSE Zero
  BY DEF PlaceFields
<1>3. ASSUME j \in KeyIds
      PROVE  key[j] = IF info.keyOffset_v[j]
                        THEN Flat(p.slices, HeadPos(p.infos, k) + info.keyOffset[j]) ELSE Zero
  <2>1. info.keyOffset[j] \in UnitIds
    BY <1>1, <1>3 DEF LookupRst
  <2> QED  BY <1>3, <2>1 DEF ExtractKeys, Window
<1> QED  BY <1>2, <1>3 DEF Field

LEMMA OffsetSum ==
  ASSUME NEW p, PacketOK(p), NEW k \in 1 .. Len(p.infos), MetaPos(p.infos, k + 1) < CANDI_NUM
  PROVE  /\ MetaPos(p.infos, k) < CANDI_NUM
         /\ (p.infos[k].metaShift + MetaPos(p.infos, k)) % CANDI_NUM = MetaPos(p.infos, k + 1)
<1> DEFINE a == MetaPos(p.infos, k)
           b == MetaPos(p.infos, k + 1)
           s == p.infos[k].metaShift
<1>1. p.infos \in Seq(LookupRst) /\ p.infos[k] \in LookupRst
  BY PacketFacts
<1>2. b = a + s /\ a \in Nat
  BY <1>1, Positions
<1>3. s \in Nat /\ CANDI_NUM \in Nat \ {0}
  BY <1>1, WidthAssumption DEF LookupRst, UnitIds
<1>4. b < CANDI_NUM
  OBVIOUS
<1> HIDE DEF a, b, s
<1>5. s + a = b /\ b \in Nat /\ a < CANDI_NUM
  BY <1>2, <1>3, <1>4
<1>6. \A x \in Nat, n \in Nat \ {0} : x < n => x % n = x
  OBVIOUS
<1>7. b % CANDI_NUM = b
  BY <1>3, <1>4, <1>5, <1>6
<1>8. (s + a) % CANDI_NUM = b
  BY <1>5, <1>7
<1> QED  BY <1>5, <1>8 DEF a, b, s

(* One clock of a layer, as the metadata sees it.                          *)
LEMMA MetaStep ==
  ASSUME NEW fl, FlightOK(fl), NEW fl2, FlightOK(fl2), NEW lay, NEW in, in.data \in Data,
         Moved(fl, fl2, lay, in), lay \in [Layers -> LayerRegs], NEW k \in Layers,
         LayerHolds(lay[k], k, fl), MetaHolds(lay[k], k, fl),
         NEW input, input \in LayerInfo, InputHolds(input, k, fl2),
         MetaOf(input.meta, LookupAge(k), k, fl2), NEW w
  PROVE  MetaHolds(LayerClock(lay[k], input, w), k, fl2)
<1>O. \A j \in 1 .. Len(fl2) : fl2[j].age # 1 =>
        \E i \in 1 .. Len(fl) :
          /\ Grown(fl[i], fl2[j], lay, in) /\ PacketOK(fl[i])
          /\ fl[i].age \in Nat /\ fl2[j].age = fl[i].age + 1
  BY OldPacket
<1> DEFINE l == lay[k]
           t == LookupAge(k)
           m == LayerClock(l, input, w)
<1>1. /\ m.meta = input.meta
      /\ m.sh.preMeta = l.meta
      /\ m.sh.meta = NextMeta(l.sh)
      /\ m.sh.startBit = StartBitMetaTag(l.sh, l.meta)
      /\ m.key = ExtractKeys(input.head.data, input.info)
      /\ m.metaShift = input.info.metaShift
      /\ m.sh.metaShift = NextMetaShift(l.sh, l.head, l.meta, l.metaShift)
      /\ l.head.start => m.sh.extMeta = PlaceFields(l.key, l.meta.offset)
  BY DEF LayerClock, ShiftHeadClock
<1>2. /\ t \in Nat \ {0} /\ k \in Nat \ {0} /\ t + 1 < Latency * NUM_LAYER
      /\ Latency * NUM_LAYER \in Nat
  BY LayerAges, TopAssumption DEF Latency
<1>3. l \in LayerRegs
  OBVIOUS
<1>4. \A i \in 1 .. Len(fl) : PacketOK(fl[i]) /\ Len(fl[i].infos) \in Nat
  BY PacketFacts DEF FlightOK
<1>5. \A i \in 1 .. Len(fl) : fl[i].age = t \/ fl[i].age = t + 1 => k <= Len(fl[i].infos)
  <2> TAKE i \in 1 .. Len(fl)
  <2>1. fl[i].age \in Nat /\ (fl[i].age >= LookupAge(k) => k <= Len(fl[i].infos))
    BY <1>4, PacketFacts
  <2> QED  BY <1>2, <2>1
<1> HIDE DEF m
<1>6. MetaOf(m.meta, t, k, fl2)
  BY <1>1
<1>7. MetaOf(m.sh.preMeta, t + 1, k, fl2)
  <2>1. MetaOf(l.meta, t, k, fl)
    BY DEF MetaHolds
  <2>2. \A i \in 1 .. Len(fl) : fl[i].age = t => k <= Len(fl[i].infos) + 1
    BY <1>2, <1>4, <1>5
  <2>3. t < Latency * NUM_LAYER
    BY <1>2
  <2> HIDE DEF l, t
  <2> QED  BY <1>1, <1>2, <2>1, <2>2, <2>3, MetaKept
<1>8. MetaOf(m.sh.meta, t + 2, k + 1, fl2)
  <2>1. MetaOf(NextMeta(l.sh), t + 1, k + 1, fl)
    BY <1>3, MetaGathered
  <2> DEFINE r == NextMeta(l.sh)
             t1 == t + 1
             k1 == k + 1
  <2>2. t1 \in Nat \ {0} /\ k1 \in Nat \ {0} /\ t + 2 = t1 + 1
    BY <1>2
  <2>3. \A i \in 1 .. Len(fl) : fl[i].age = t1 => k1 <= Len(fl[i].infos) + 1
    BY <1>2, <1>4, <1>5
  <2> HIDE DEF r, t1, k1
  <2>4. MetaOf(r, t1, k1, fl) /\ t1 < Latency * NUM_LAYER
    BY <1>2, <2>1 DEF r, t1, k1
  <2>5. MetaOf(r, t1 + 1, k1, fl2)
    BY <2>2, <2>3, <2>4, MetaKept
  <2> QED  BY <1>1, <2>2, <2>5 DEF r, k1
<1>9. m.sh.startBit <=> m.sh.preMeta.valid
  <2>1. l.meta.valid => l.meta.tail
    BY DEF MetaHolds, MetaOf
  <2>2. ~l.meta.valid => ~l.meta.tail /\ ~l.meta.shift
    BY DEF MetaHolds, MetaOf, ZeroSlice
  <2> QED  BY <1>1, <2>1, <2>2 DEF StartBitMetaTag
<1>10. ASSUME NEW j \in 1 .. Len(fl2) PROVE FieldsOf(m, fl2[j], k)
  <2> DEFINE q == fl2[j]
  <2>0. q.age \in Nat /\ PacketOK(q)
    BY PacketFacts DEF FlightOK
  <2>1. ASSUME q.age = t
        PROVE  /\ m.key = ExtractKeys(Window(q.slices, HeadPos(q.infos, k)), q.infos[k])
               /\ m.metaShift = q.infos[k].metaShift
    <3>1. input.info = q.infos[k]
      BY <2>1 DEF InputHolds
    <3>2. /\ 1 <= Len(q.slices) /\ Len(q.slices) \in Nat
          /\ q.infos \in Seq(LookupRst) /\ k \in 1 .. Len(q.infos)
      BY <1>2, <2>0, <2>1, PacketFacts
    <3>3. Came(q, t)
      BY <1>2, <2>1, <3>2 DEF Came
    <3>4. input.head.data = Window(q.slices, Place(q, t, k))
      BY <3>3 DEF InputHolds, SliceOf
    <3>5. q.age - t = 0
      BY <1>2, <2>1
    <3>6. HeadPos(q.infos, k) \in Nat
      BY <3>2, Positions
    <3>7. Place(q, t, k) = HeadPos(q.infos, k)
      <4>1. Place(q, t, k) = HeadPos(q.infos, k) + Row(0)
        BY <3>5 DEF Place
      <4>2. Row(0) = 0
        BY RowLemma
      <4> QED  BY <3>6, <4>1, <4>2
    <3> QED  BY <1>1, <3>1, <3>4, <3>7
  <2>2. ASSUME q.age = t + 1, MetaPos(q.infos, k + 1) < CANDI_NUM
        PROVE  /\ m.sh.metaShift = MetaPos(q.infos, k + 1)
               /\ \A u \in UnitIds : m.sh.extMeta[u] = Field(q, k, u)
    <3>1. q.age # 1
      BY <1>2, <2>2
    <3>2. PICK i \in 1 .. Len(fl) :
            /\ Grown(fl[i], q, lay, in) /\ PacketOK(fl[i])
            /\ fl[i].age \in Nat /\ q.age = fl[i].age + 1
      BY <1>O, <3>1
    <3> DEFINE p == fl[i]
    <3>3. p.age = t /\ k \in 1 .. Len(p.infos)
      <4>1. p.age = t
        BY <1>2, <2>2, <3>2
      <4> QED  BY <1>2, <1>4, <1>5, <4>1
    <3>4. /\ MetaPos(q.infos, k) = MetaPos(p.infos, k)
          /\ MetaPos(q.infos, k + 1) = MetaPos(p.infos, k + 1)
      <4>1. k \in 1 .. Len(p.infos) + 1 /\ k + 1 \in 1 .. Len(p.infos) + 1
        BY <1>2, <1>4, <3>3
      <4>2. Grown(p, q, lay, in) /\ PacketOK(p) /\ PacketOK(q)
        BY <2>0, <3>2
      <4> HIDE DEF p, q
      <4> QED  BY <4>1, <4>2, GrownPos
    <3>5. /\ MetaPos(p.infos, k) < CANDI_NUM
          /\ (p.infos[k].metaShift + MetaPos(p.infos, k)) % CANDI_NUM = MetaPos(p.infos, k + 1)
      <4>1. PacketOK(p) /\ MetaPos(p.infos, k + 1) < CANDI_NUM
        BY <2>2, <3>2, <3>4
      <4> HIDE DEF p, q
      <4> QED  BY <3>3, <4>1, OffsetSum
    <3>6. l.head.start
      <4>1. Came(p, t)
        <5>1. Len(p.slices) \in Nat /\ 1 <= Len(p.slices)
          BY <3>2, PacketFacts
        <5> QED  BY <1>2, <3>3, <5>1 DEF Came
      <4> QED  BY <3>3, <4>1 DEF LayerHolds, SliceOf
    <3>7. /\ l.meta.tail /\ l.meta.offset = MetaPos(p.infos, k)
      BY <3>3, <3>5 DEF MetaHolds, MetaOf
    <3>8. /\ l.key = ExtractKeys(Window(p.slices, HeadPos(p.infos, k)), p.infos[k])
          /\ l.metaShift = p.infos[k].metaShift
      BY <3>3 DEF MetaHolds, FieldsOf
    <3>9. m.sh.metaShift = (p.infos[k].metaShift + MetaPos(p.infos, k)) % CANDI_NUM
      BY <1>1, <3>6, <3>7, <3>8 DEF NextMetaShift, StartBitMetaTag, MetaShiftSum
    <3>10. ASSUME NEW u \in UnitIds PROVE m.sh.extMeta[u] = Field(q, k, u)
      <4>1. m.sh.extMeta[u] = Field(p, k, u)
        BY <1>1, <3>2, <3>3, <3>6, <3>7, <3>8, FieldPlaced
      <4>2. Field(q, k, u) = Field(p, k, u)
        BY <2>0, <3>2, <3>3, GrownField
      <4> QED  BY <4>1, <4>2
    <3> QED  BY <3>4, <3>5, <3>9, <3>10
  <2> QED  BY <2>1, <2>2 DEF FieldsOf
<1> QED  BY <1>6, <1>7, <1>8, <1>9, <1>10 DEF MetaHolds, m

-----------------------------------------------------------------------------
(* The invariant of the metadata path, on top of that of the head path.    *)
MetasOf(lay, fl) == \A k \in Layers : MetaHolds(lay[k], k, fl)

MetaInv == MetasOf(layer, flight)

(* What arrives at layer k holds the fields of the layers before it.       *)
LEMMA MetaInputs ==
  ASSUME TypeOK, NEW fl, NEW fl2, HeadsOf(layer, fl), MetasOf(layer, fl),
         NEW h \in Slice, NEW m \in Slice, NEW w, Arrives(h, m, w, fl, fl2),
         NEW k \in Layers
  PROVE  MetaOf(LayerIn(k, h, m).meta, LookupAge(k), k, fl2)
<1>1. /\ FlightOK(fl) /\ h.data \in Data
      /\ FlightOK(fl2) /\ Moved(fl, fl2, layer, h)
  BY DEF HeadsOf, Slice, Arrives
<1>2. CASE k = 1
  <2>1. m = IF h.start THEN EmptyMeta ELSE ZeroSlice
    BY DEF Arrives
  <2>2. ASSUME NEW j \in 1 .. Len(fl2)
        PROVE  /\ MetaPos(fl2[j].infos, 1) = 0
               /\ \A u : Gathered(fl2[j], 1, u) = {}
    <3>1. fl2[j].infos \in Seq(LookupRst)
      BY <1>1, PacketFacts DEF FlightOK
    <3>2. MetaPos(fl2[j].infos, 1) = 0
      BY <3>1, Positions
    <3>3. 1 .. 1 - 1 = {}
      OBVIOUS
    <3>4. \A u : Gathered(fl2[j], 1, u) = {}
      BY <3>3 DEF Gathered
    <3> QED  BY <3>2, <3>4
  <2>3. /\ EmptyMeta.valid /\ EmptyMeta.tail /\ EmptyMeta.offset = 0 /\ EmptyMeta.data = ZeroData
        /\ ~ZeroSlice.valid
    BY DEF EmptyMeta, ZeroSlice
  <2>4. \A u \in UnitIds : ZeroData[u] = {}
    BY DEF ZeroData, Zero
  <2>5. h.start <=> \E j \in 1 .. Len(fl2) : fl2[j].age = 1
    BY DEF Arrives
  <2>6. MetaOf(m, 1, 1, fl2)
    BY <2>1, <2>2, <2>3, <2>4, <2>5 DEF MetaOf
  <2> QED  BY <1>2, <2>6, LayerAges DEF LayerIn
<1>3. CASE k # 1
  <2> DEFINE l == layer[k - 1]
             t == LookupAge(k - 1) + 2
  <2>1. k > 1 /\ k - 1 \in Layers /\ k \in Nat \ {0} /\ (k - 1) + 1 = k
    BY <1>3, TopAssumption DEF Layers
  <2>2. /\ LookupAge(k) = t + 1 /\ t \in Nat \ {0} /\ t < Latency * NUM_LAYER
        /\ LookupAge(k - 1) \in Nat /\ LookupAge(k - 1) < t
    <3>1. /\ LookupAge(k) = LookupAge(k - 1) + 3 /\ LookupAge(k - 1) \in Nat \ {0}
          /\ LookupAge(k) \in Nat /\ LookupAge(k) + 1 < Latency * NUM_LAYER
          /\ Latency * NUM_LAYER \in Nat
      BY <2>1, LayerAges, TopAssumption DEF Latency
    <3> QED  BY <3>1
  <2>3. MetaOf(l.sh.meta, t, k, fl)
    BY <2>1 DEF MetasOf, MetaHolds
  <2> HIDE DEF t
  <2>4. \A i \in 1 .. Len(fl) : fl[i].age = t => k <= Len(fl[i].infos) + 1
    <3> SUFFICES ASSUME NEW i \in 1 .. Len(fl), fl[i].age = t
                 PROVE  k <= Len(fl[i].infos) + 1
      OBVIOUS
    <3>1. PacketOK(fl[i]) /\ Len(fl[i].infos) \in Nat
      BY <1>1, PacketFacts DEF FlightOK
    <3>2. (k - 1) + 1 <= Len(fl[i].infos)
      BY <2>1, <2>2, <3>1 DEF PacketOK
    <3> QED  BY <2>1, <3>1, <3>2
  <2>5. MetaOf(l.sh.meta, t + 1, k, fl2)
    <3> HIDE DEF l
    <3> QED  BY <1>1, <2>1, <2>2, <2>3, <2>4, MetaKept
  <2> QED  BY <1>3, <2>2, <2>5 DEF LayerIn, LayerOut
<1> QED  BY <1>2, <1>3

(* Such a clock keeps the invariant of the metadata path.                  *)
LEMMA MetaClockStep ==
  ASSUME TypeOK, NEW fl, NEW fl2, HeadsOf(layer, fl), MetasOf(layer, fl),
         NEW h \in Slice, NEW m \in Slice, NEW w \in ConfWord \cup {NoWord},
         Arrives(h, m, w, fl, fl2)
  PROVE  MetasOf(layer', fl2)
<1> DEFINE in(k) == LayerIn(k, h, m)
<1>1. /\ layer' = [k \in Layers |-> LayerClock(layer[k], in(k), WordFor(k, w))]
      /\ \A k \in Layers : in(k) \in LayerInfo /\ InputHolds(in(k), k, fl2)
  BY Inputs
<1>2. /\ FlightOK(fl) /\ layer \in [Layers -> LayerRegs] /\ h.data \in Data
      /\ FlightOK(fl2) /\ Moved(fl, fl2, layer, h)
  BY DEF HeadsOf, TypeOK, Slice, Arrives
<1>3. \A k \in Layers : MetaOf(in(k).meta, LookupAge(k), k, fl2)
  BY MetaInputs
<1> HIDE DEF in
<1>4. ASSUME NEW k \in Layers PROVE MetaHolds(layer'[k], k, fl2)
  <2>1. LayerHolds(layer[k], k, fl) /\ MetaHolds(layer[k], k, fl)
    BY DEF HeadsOf, MetasOf
  <2>2. MetaHolds(LayerClock(layer[k], in(k), WordFor(k, w)), k, fl2)
    BY <1>1, <1>2, <1>3, <2>1, MetaStep
  <2> QED  BY <1>1, <2>2
<1> QED  BY <1>4 DEF MetasOf

LEMMA MetaInvariant == Spec => []MetaInv
<1>1. Init => MetaInv
  <2> SUFFICES ASSUME Init PROVE MetaInv
    OBVIOUS
  <2>1. flight = <<>> /\ Len(flight) = 0
    BY DEF Init
  <2>2. ASSUME NEW k \in Layers PROVE MetaHolds(layer[k], k, flight)
    <3>1. /\ layer[k].meta = ZeroSlice /\ layer[k].sh.preMeta = ZeroSlice
          /\ layer[k].sh.meta = ZeroSlice /\ layer[k].sh.startBit = FALSE
      BY DEF Init, ZeroLayer
    <3>2. \A t, n : MetaOf(ZeroSlice, t, n, flight)
      BY <2>1 DEF MetaOf, ZeroSlice
    <3>3. ~ZeroSlice.valid
      BY DEF ZeroSlice
    <3> QED  BY <2>1, <3>1, <3>2, <3>3 DEF MetaHolds
  <2> QED  BY <2>2 DEF MetaInv, MetasOf
<1>2. TypeOK /\ HeadsInv /\ MetaInv /\ [Next]_vars => MetaInv'
  <2> SUFFICES ASSUME TypeOK, HeadsInv, MetaInv, [Next]_vars PROVE MetaInv'
    OBVIOUS
  <2>1. ASSUME NEW h \in Slice, NEW m \in Slice, NEW w \in ConfWord \cup {NoWord},
               Arrives(h, m, w, flight, flight')
        PROVE  MetaInv'
    BY <2>1, MetaClockStep DEF HeadsInv, MetaInv
  <2>2. CASE Reset
    <3>1. flight' = flight
      BY <2>2 DEF Reset
    <3>2. ASSUME NEW k \in Layers PROVE MetaHolds(layer'[k], k, flight)
      <4>1. MetaHolds(layer[k], k, flight)
        BY DEF MetaInv, MetasOf
      <4>2. /\ layer'[k].meta = layer[k].meta /\ layer'[k].sh = layer[k].sh
            /\ layer'[k].key = layer[k].key /\ layer'[k].metaShift = layer[k].metaShift
        BY <2>2 DEF Reset, LayerReset, TypeOK, LayerRegs
      <4> QED  BY <4>1, <4>2 DEF MetaHolds, FieldsOf
    <3> QED  BY <3>1, <3>2 DEF MetaInv, MetasOf
  <2>3. CASE UNCHANGED vars
    BY <2>3 DEF vars, MetaInv, MetasOf
  <2> QED  BY <2>1, <2>2, <2>3, ArrivalAlways
<1> QED  BY <1>1, <1>2, TypeCorrect, HeadsInvariant, PTL DEF Spec

(* The metadata leaves Parser_Top beside the start slice of its packet and *)
(* holds the fields that the packet's own headers name, each layer's where *)
(* the meta shifts of the layers before it lead, and nothing else.         *)
THEOREM Metadata == Spec => []MetaParsed
<1>1. TypeOK /\ HeadsInv /\ MetaInv => MetaParsed
  <2> SUFFICES ASSUME TypeOK, HeadsInv, MetaInv PROVE MetaParsed
    OBVIOUS
  <2> DEFINE T == Latency * NUM_LAYER
             K == NUM_LAYER + 1
  <2>1. T \in Nat /\ T > 1 /\ LookupAge(NUM_LAYER) + 2 = T /\ NUM_LAYER \in Layers
    <3>1. T \in Nat /\ T > 1
      BY TopAssumption DEF Latency
    <3> QED  BY <3>1, LayerAges
  <2>2. SliceOf(oHead, T, K, flight)
    BY <2>1 DEF HeadsInv, HeadsOf, LayerHolds, oHead
  <2>3. MetaOf(oMeta, T, K, flight)
    BY <2>1 DEF MetaInv, MetasOf, MetaHolds, oMeta
  <2> HIDE DEF T
  <2>4. ASSUME NEW i \in 1 .. Len(flight)
        PROVE  /\ Due(flight[i]) <=> Came(flight[i], T)
               /\ DueSlice(flight[i]) = 0 <=> flight[i].age = T
               /\ flight[i].age = T => Came(flight[i], T)
    <3>1. /\ flight[i].age \in Nat /\ Len(flight[i].slices) \in Nat
          /\ 1 <= Len(flight[i].slices)
      BY PacketFacts DEF HeadsInv, HeadsOf, FlightOK
    <3>2. Due(flight[i]) <=> Came(flight[i], T)
      BY DEF Due, Came, T
    <3>3. DueSlice(flight[i]) = flight[i].age - T
      BY DEF DueSlice, T
    <3> QED  BY <2>1, <3>1, <3>2, <3>3 DEF Came
  <2>5. oMeta.valid <=> (oHead.valid /\ oHead.start)
    BY <2>2, <2>3, <2>4 DEF SliceOf, MetaOf
  <2>6. ASSUME NEW i \in 1 .. Len(flight), Due(flight[i]), DueSlice(flight[i]) = 0,
               MetaFits(flight[i])
        PROVE  /\ oMeta.offset = MetaPos(flight[i].infos, K)
               /\ \A u \in UnitIds :
                    oMeta.data[u] = UNION {f.field : f \in {g \in Fields(flight[i]) : g.at = u}}
    <3> DEFINE p == flight[i]
    <3>1. p.age = T /\ MetaPos(p.infos, K) < CANDI_NUM
      BY <2>4, <2>6 DEF MetaFits
    <3>2. /\ oMeta.offset = MetaPos(p.infos, K)
          /\ \A u \in UnitIds : oMeta.data[u] = Gathered(p, K, u)
      BY <2>3, <3>1 DEF MetaOf
    <3>3. PacketOK(p) /\ p.infos \in Seq(LookupRst) /\ Len(p.infos) \in Nat
      BY PacketFacts DEF HeadsInv, HeadsOf, FlightOK
    <3>4. \A n \in Layers : n \in 1 .. Len(p.infos)
      <4> SUFFICES ASSUME NEW n \in Layers PROVE n \in 1 .. Len(p.infos)
        OBVIOUS
      <4>1. n <= NUM_LAYER /\ n \in Nat \ {0} /\ NUM_LAYER \in Nat
        BY TopAssumption DEF Layers
      <4>2. LookupAge(NUM_LAYER) < p.age
        BY <2>1, <3>1, LayerAges
      <4>3. NUM_LAYER + 1 <= Len(p.infos)
        BY <2>1, <3>3, <4>2 DEF PacketOK
      <4> HIDE DEF p
      <4> QED  BY <3>3, <4>1, <4>3
    <3> HIDE DEF p
    <3>5. ASSUME NEW u \in UnitIds
          PROVE  Gathered(p, K, u) = UNION {f.field : f \in {g \in Fields(p) : g.at = u}}
      <4>1. \A n : n \in 1 .. K - 1 <=> n \in Layers
        BY TopAssumption DEF Layers
      <4>2. ASSUME NEW x
            PROVE  x \in Gathered(p, K, u) <=> \E n \in Layers : x \in Field(p, n, u)
        <5> HIDE DEF K
        <5> QED  BY <4>1 DEF Gathered
      <4> DEFINE at(n, j) == MetaPos(p.infos, n) + j
                 got(n, j) == Flat(p.slices, HeadPos(p.infos, n) + p.infos[n].keyOffset[j])
                 on(n, j) == p.infos[n].keyOffset_v[j]
      <4>3. ASSUME NEW x, NEW n \in Layers
            PROVE  x \in Field(p, n, u) <=>
                     \E j \in KeyIds : on(n, j) /\ at(n, j) = u /\ x \in got(n, j)
        <5> DEFINE j0 == u - MetaPos(p.infos, n)
        <5>1. MetaPos(p.infos, n) \in Nat
          BY <3>3, <3>4, Positions
        <5>2. \A j \in KeyIds : at(n, j) = u <=> j = j0
          <6>1. u \in Int /\ \A j \in KeyIds : j \in Int
            BY NumAssumption, WidthAssumption DEF UnitIds, KeyIds
          <6> DEFINE a == MetaPos(p.infos, n)
          <6>2. a \in Nat
            BY <5>1
          <6> HIDE DEF a
          <6>3. \A j \in KeyIds : a + j = u <=> j = u - a
            BY <6>1, <6>2
          <6> QED  BY <6>3 DEF a
        <5>3. x \in Field(p, n, u) <=> j0 \in KeyIds /\ on(n, j0) /\ x \in got(n, j0)
          BY DEF Field, Zero
        <5> HIDE DEF at, got, on, j0
        <5> QED  BY <5>2, <5>3
      <4>4. \A f : f \in Fields(p) <=>
              \E n \in Layers, j \in KeyIds :
                on(n, j) /\ f = [at |-> at(n, j), field |-> got(n, j)]
        <5> DEFINE on2(kj) == p.infos[kj[1]].keyOffset_v[kj[2]]
                   e(kj) == [at    |-> MetaPos(p.infos, kj[1]) + kj[2],
                             field |-> Flat(p.slices, HeadPos(p.infos, kj[1])
                                                        + p.infos[kj[1]].keyOffset[kj[2]])]
        <5>1. Fields(p) = {e(kj) : kj \in {lj \in Layers \X KeyIds : on2(lj)}}
          BY DEF Fields
        <5>2. ASSUME NEW n \in Layers, NEW j \in KeyIds
              PROVE  /\ <<n, j>> \in Layers \X KeyIds
                     /\ on2(<<n, j>>) <=> on(n, j)
                     /\ e(<<n, j>>) = [at |-> at(n, j), field |-> got(n, j)]
          OBVIOUS
        <5>3. \A kj \in Layers \X KeyIds : \E n \in Layers, j \in KeyIds : kj = <<n, j>>
          OBVIOUS
        <5> HIDE DEF at, got, on, on2, e
        <5>4. \A f : f \in Fields(p) <=> \E kj \in Layers \X KeyIds : on2(kj) /\ f = e(kj)
          BY <5>1
        <5> DEFINE r(n, j) == [at |-> at(n, j), field |-> got(n, j)]
        <5>5. \A n \in Layers, j \in KeyIds :
                /\ <<n, j>> \in Layers \X KeyIds
                /\ on2(<<n, j>>) <=> on(n, j)
                /\ e(<<n, j>>) = r(n, j)
          BY <5>2
        <5> HIDE DEF r
        <5>6. ASSUME NEW f, f \in Fields(p)
              PROVE  \E n \in Layers, j \in KeyIds : on(n, j) /\ f = r(n, j)
          <6>1. PICK kj \in Layers \X KeyIds : on2(kj) /\ f = e(kj)
            BY <5>4, <5>6
          <6>2. PICK n \in Layers, j \in KeyIds : kj = <<n, j>>
            BY <5>3
          <6> QED  BY <5>5, <6>1, <6>2
        <5>7. ASSUME NEW f, NEW n \in Layers, NEW j \in KeyIds, on(n, j), f = r(n, j)
              PROVE  f \in Fields(p)
          BY <5>4, <5>5, <5>7
        <5>8. \A f : f \in Fields(p) <=> \E n \in Layers, j \in KeyIds : on(n, j) /\ f = r(n, j)
          BY <5>6, <5>7
        <5> QED  BY <5>8 DEF r
      <4>5. ASSUME NEW x
            PROVE  x \in UNION {f.field : f \in {g \in Fields(p) : g.at = u}} <=>
                     \E f \in Fields(p) : f.at = u /\ x \in f.field
        OBVIOUS
      <4> HIDE DEF at, got, on
      <4>6. ASSUME NEW x
            PROVE  (\E f \in Fields(p) : f.at = u /\ x \in f.field) <=>
                     \E n \in Layers, j \in KeyIds : on(n, j) /\ at(n, j) = u /\ x \in got(n, j)
        <5>1. \A n \in Layers, j \in KeyIds :
                /\ [at |-> at(n, j), field |-> got(n, j)].at = at(n, j)
                /\ [at |-> at(n, j), field |-> got(n, j)].field = got(n, j)
          OBVIOUS
        <5>2. ASSUME NEW f \in Fields(p), f.at = u, x \in f.field
              PROVE  \E n \in Layers, j \in KeyIds : on(n, j) /\ at(n, j) = u /\ x \in got(n, j)
          <6>1. PICK n \in Layers, j \in KeyIds :
                  on(n, j) /\ f = [at |-> at(n, j), field |-> got(n, j)]
            BY <4>4
          <6> QED  BY <5>1, <5>2, <6>1
        <5>3. ASSUME NEW n \in Layers, NEW j \in KeyIds, on(n, j), at(n, j) = u, x \in got(n, j)
              PROVE  \E f \in Fields(p) : f.at = u /\ x \in f.field
          <6> DEFINE f == [at |-> at(n, j), field |-> got(n, j)]
          <6>1. f \in Fields(p)
            BY <4>4, <5>3
          <6>2. f.at = u /\ x \in f.field
            BY <5>1, <5>3
          <6> QED  BY <6>1, <6>2
        <5> QED  BY <5>2, <5>3
      <4> QED  BY <4>2, <4>3, <4>5, <4>6
    <3> QED  BY <3>2, <3>5 DEF p
  <2> QED  BY <2>5, <2>6 DEF MetaParsed
<1> QED  BY <1>1, TypeCorrect, HeadsInvariant, MetaInvariant, PTL
=============================================================================
