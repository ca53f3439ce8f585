-------------------------- MODULE DeparserTopProofs --------------------------
(* Theorems about Deparser_Top, for any number of layers and rules, slices *)
(* of any width, packets of any length, any spacing the input keeps, and   *)
(* configuration words at any clock.                                       *)
EXTENDS DeparserTop, SequenceTheorems, WellFoundedInduction, TLAPS

-----------------------------------------------------------------------------
(* Induction as a fact about sets: a set of numbers has a least one, and a *)
(* set that has 0 and every successor of its members has all the numbers.  *)
LEMMA LeastNumber ==
  ASSUME NEW T, T \subseteq Nat, T # {}
  PROVE  \E x \in T : \A y \in T : x <= y
<1> DEFINE R == OpToRel(<, Nat)
<1>1. IsWellFoundedOn(R, Nat)
  BY NatLessThanWellFounded
<1>2. \A x \in Nat, y \in Nat : y < x => <<y, x>> \in R
  BY DEF OpToRel
<1> HIDE DEF R
<1>3. \E x \in T : \A y \in T : ~(<<y, x>> \in R)
  BY <1>1, WFMin
<1>4. PICK x \in T : \A y \in T : ~(<<y, x>> \in R)
  BY <1>3
<1>5. ASSUME NEW y \in T PROVE x <= y
  <2>1. x \in Nat /\ y \in Nat
    OBVIOUS
  <2>2. ~(y < x)
    BY <1>2, <1>4, <2>1
  <2> QED  BY <2>1, <2>2
<1> QED  BY <1>5

LEMMA InductionOnSets ==
  ASSUME NEW S, 0 \in S, \A n \in Nat : n \in S => n + 1 \in S
  PROVE  Nat \subseteq S
<1> SUFFICES ASSUME NEW z \in Nat, z \notin S PROVE FALSE
  OBVIOUS
<1> DEFINE T == {n \in Nat : n \notin S}
<1>1. PICK x \in T : \A y \in T : x <= y
  BY LeastNumber
<1>2. x \in Nat /\ x # 0 /\ x - 1 \in Nat /\ x - 1 \notin T
  BY <1>1
<1> QED  BY <1>2

(* The running sum is a function on the numbers, so its equation holds.    *)
LEMMA SumExists ==
  ASSUME NEW s
  PROVE  \E g : g = [m \in Nat |-> IF m = 0 THEN 0 ELSE g[m - 1] + s[m]]
<1> DEFINE Sums(g, n) == g = [m \in 0 .. n |-> IF m = 0 THEN 0 ELSE g[m - 1] + s[m]]
           S == {n \in Nat : \E g : Sums(g, n)}
<1>1. 0 \in S
  <2>1. Sums([m \in 0 .. 0 |-> 0], 0)
    OBVIOUS
  <2> QED  BY <2>1
<1>2. ASSUME NEW n \in Nat, n \in S PROVE n + 1 \in S
  <2>1. PICK g : Sums(g, n)
    BY <1>2
  <2> DEFINE h == [m \in 0 .. n + 1 |-> IF m = n + 1 THEN g[n] + s[n + 1] ELSE g[m]]
  <2>2. ASSUME NEW m \in 0 .. n + 1
        PROVE  h[m] = IF m = 0 THEN 0 ELSE h[m - 1] + s[m]
    <3>1. CASE m = n + 1
      BY <3>1
    <3>2. CASE m # n + 1
      <4>1. m \in 0 .. n /\ h[m] = g[m] /\ (m # 0 => h[m - 1] = g[m - 1])
        BY <3>2
      <4>2. g[m] = IF m = 0 THEN 0 ELSE g[m - 1] + s[m]
        BY <2>1, <4>1
      <4> QED  BY <4>1, <4>2
    <3> QED  BY <3>1, <3>2
  <2> HIDE DEF h
  <2>3. h = [m \in 0 .. n + 1 |-> h[m]]
    BY DEF h
  <2>4. Sums(h, n + 1)
    BY <2>2, <2>3
  <2> QED  BY <2>4
<1>3. \A n \in Nat : \E g : Sums(g, n)
  <2> HIDE DEF Sums
  <2>1. Nat \subseteq S
    BY <1>1, <1>2, InductionOnSets
  <2> QED  BY <2>1
<1>4. ASSUME NEW a \in Nat, NEW b \in Nat, a <= b, NEW g, Sums(g, a), NEW h, Sums(h, b)
      PROVE  g[a] = h[a]
  <2> DEFINE U == {n \in Nat : n <= a => g[n] = h[n]}
  <2>1. 0 \in U
    BY <1>4
  <2>2. ASSUME NEW n \in Nat, n \in U PROVE n + 1 \in U
    <3> SUFFICES ASSUME n + 1 <= a PROVE g[n + 1] = h[n + 1]
      OBVIOUS
    <3>1. n + 1 \in 0 .. a /\ n + 1 \in 0 .. b /\ n + 1 # 0 /\ (n + 1) - 1 = n /\ g[n] = h[n]
      BY <1>4, <2>2
    <3>2. g[n + 1] = g[(n + 1) - 1] + s[n + 1]
      BY <1>4, <3>1
    <3>3. h[n + 1] = h[(n + 1) - 1] + s[n + 1]
      BY <1>4, <3>1
    <3> QED  BY <3>1, <3>2, <3>3
  <2> HIDE DEF U
  <2>3. Nat \subseteq U
    BY <2>1, <2>2, InductionOnSets
  <2>4. a \in U
    BY <2>3
  <2> QED  BY <2>4 DEF U
<1> DEFINE part == [n \in Nat |-> CHOOSE g : Sums(g, n)]
           sum == [n \in Nat |-> part[n][n]]
<1>5. \A n \in Nat : Sums(part[n], n)
  BY <1>3
<1> HIDE DEF part, Sums
<1>6. ASSUME NEW m \in Nat PROVE sum[m] = IF m = 0 THEN 0 ELSE sum[m - 1] + s[m]
  <2>1. sum[m] = part[m][m] /\ Sums(part[m], m)
    BY <1>5
  <2>2. part[m][m] = IF m = 0 THEN 0 ELSE part[m][m - 1] + s[m]
    BY <2>1 DEF Sums
  <2>3. CASE m = 0
    BY <2>1, <2>2, <2>3
  <2>4. CASE m # 0
    <3>1. m - 1 \in Nat /\ m - 1 <= m
      BY <2>4
    <3>2. Sums(part[m - 1], m - 1) /\ sum[m - 1] = part[m - 1][m - 1]
      BY <1>5, <3>1
    <3>3. part[m - 1][m - 1] = part[m][m - 1]
      BY <1>4, <2>1, <3>1, <3>2
    <3> QED  BY <2>1, <2>2, <2>4, <3>2, <3>3
  <2> QED  BY <2>3, <2>4
<1>7. sum = [m \in Nat |-> sum[m]]
  OBVIOUS
<1> HIDE DEF sum
<1>8. sum = [m \in Nat |-> IF m = 0 THEN 0 ELSE sum[m - 1] + s[m]]
  BY <1>6, <1>7
<1> QED  BY <1>8

LEMMA SumStep ==
  ASSUME NEW s
  PROVE  SumTo(s, 0) = 0 /\ \A n \in Nat : SumTo(s, n + 1) = SumTo(s, n) + s[n + 1]
<1> DEFINE Sum(g) == g = [m \in Nat |-> IF m = 0 THEN 0 ELSE g[m - 1] + s[m]]
           sum == CHOOSE g : Sum(g)
<1>1. Sum(sum)
  BY SumExists
<1>2. \A n : SumTo(s, n) = sum[n]
  BY DEF SumTo
<1> HIDE DEF sum
<1>3. sum[0] = 0 /\ \A n \in Nat : sum[n + 1] = sum[n] + s[n + 1]
  <2>1. \A m \in Nat : sum[m] = IF m = 0 THEN 0 ELSE sum[m - 1] + s[m]
    BY <1>1
  <2>2. ASSUME NEW n \in Nat PROVE sum[n + 1] = sum[n] + s[n + 1]
    <3>1. n + 1 \in Nat /\ n + 1 # 0 /\ (n + 1) - 1 = n
      OBVIOUS
    <3>2. sum[n + 1] = sum[(n + 1) - 1] + s[n + 1]
      BY <2>1, <3>1
    <3> QED  BY <3>1, <3>2
  <2> QED  BY <2>1, <2>2
<1> QED  BY <1>2, <1>3

-----------------------------------------------------------------------------
(* Where the headers and fields of a packet are: each position follows     *)
(* from the one before, no head position runs further ahead than a slice   *)
(* per layer, and a position depends on the layers before it only.         *)
Row(k) == k * CANDI_NUM

LEMMA RowLemma ==
  /\ Row(0) = 0
  /\ \A k \in Nat : Row(k) \in Nat /\ Row(k + 1) = Row(k) + CANDI_NUM
  /\ \A k, m \in Nat : /\ k <= m => Row(k) <= Row(m)
                       /\ k < m => Row(k) + CANDI_NUM <= Row(m)
                       /\ Row(k + m) = Row(k) + Row(m)
<1>1. CANDI_NUM \in Nat \ {0}
  BY WidthAssumption
<1>2. Row(0) = 0 /\ \A k \in Nat : Row(k) \in Nat /\ Row(k + 1) = Row(k) + CANDI_NUM
  BY <1>1 DEF Row
<1>3. \A k, m \in Nat : Row(k + m) = Row(k) + Row(m)
  BY <1>1 DEF Row
<1>4. ASSUME NEW k \in Nat, NEW m \in Nat, k <= m PROVE Row(k) <= Row(m)
  <2>1. m - k \in Nat /\ k + (m - k) = m
    BY <1>4
  <2>2. Row(k + (m - k)) = Row(k) + Row(m - k)
    BY <1>3, <2>1
  <2>3. Row(k) \in Nat /\ Row(m - k) \in Nat
    BY <1>2, <2>1
  <2> QED  BY <2>1, <2>2, <2>3
<1>5. ASSUME NEW k \in Nat, NEW m \in Nat, k < m PROVE Row(k) + CANDI_NUM <= Row(m)
  BY <1>2, <1>4, <1>5
<1> QED  BY <1>2, <1>3, <1>4, <1>5

LEMMA Positions ==
  ASSUME NEW infos \in Seq(LookupRst)
  PROVE  /\ HeadPos(infos, 1) = 0 /\ MetaPos(infos, 1) = 0
         /\ \A k \in 1 .. Len(infos) :
              /\ HeadPos(infos, k + 1) = HeadPos(infos, k) + infos[k].headShift
              /\ MetaPos(infos, k + 1) = MetaPos(infos, k) + infos[k].metaShift
         /\ \A k \in 1 .. Len(infos) + 1 :
              /\ HeadPos(infos, k) \in Nat /\ HeadPos(infos, k) <= Row(k - 1)
              /\ MetaPos(infos, k) \in Nat
<1> DEFINE hs == [i \in 1 .. Len(infos) |-> infos[i].headShift]
           ms == [i \in 1 .. Len(infos) |-> infos[i].metaShift]
           N == Len(infos)
<1>1. N \in Nat /\ \A i \in 1 .. N : hs[i] \in 0 .. CANDI_NUM - 1 /\ ms[i] \in 0 .. CANDI_NUM - 1
  <2>1. \A i \in 1 .. N : infos[i] \in LookupRst
    OBVIOUS
  <2> QED  BY <2>1 DEF LookupRst, UnitIds
<1>2. \A k \in Nat : HeadPos(infos, k + 1) = SumTo(hs, k) /\ MetaPos(infos, k + 1) = SumTo(ms, k)
  <2>1. \A k : HeadPos(infos, k) = SumTo(hs, k - 1) /\ MetaPos(infos, k) = SumTo(ms, k - 1)
    BY DEF HeadPos, MetaPos
  <2>2. \A k \in Nat : (k + 1) - 1 = k
    OBVIOUS
  <2> QED  BY <2>1, <2>2
<1>3. /\ SumTo(hs, 0) = 0 /\ SumTo(ms, 0) = 0
      /\ \A n \in Nat : SumTo(hs, n + 1) = SumTo(hs, n) + hs[n + 1]
      /\ \A n \in Nat : SumTo(ms, n + 1) = SumTo(ms, n) + ms[n + 1]
  BY SumStep
<1>4. HeadPos(infos, 1) = 0 /\ MetaPos(infos, 1) = 0
  <2>1. 0 + 1 = 1
    OBVIOUS
  <2> QED  BY <1>2, <1>3, <2>1
<1>5. \A k \in 1 .. N :
        /\ HeadPos(infos, k + 1) = HeadPos(infos, k) + hs[k]
        /\ MetaPos(infos, k + 1) = MetaPos(infos, k) + ms[k]
  <2> TAKE k \in 1 .. N
  <2>1. k \in Nat /\ k - 1 \in Nat /\ (k - 1) + 1 = k
    OBVIOUS
  <2> QED  BY <1>2, <1>3, <2>1
<1> DEFINE Good(n) == /\ HeadPos(infos, n + 1) \in Nat /\ HeadPos(infos, n + 1) <= Row(n)
                      /\ MetaPos(infos, n + 1) \in Nat
           S == {n \in Nat : n <= N => Good(n)}
<1>6. 0 \in S
  <2>1. 0 + 1 = 1
    OBVIOUS
  <2> QED  BY <1>4, <2>1, RowLemma
<1>7. ASSUME NEW n \in Nat, n \in S PROVE n + 1 \in S
  <2> SUFFICES ASSUME n + 1 <= N PROVE Good(n + 1)
    OBVIOUS
  <2>1. Good(n) /\ n + 1 \in 1 .. N
    BY <1>1, <1>7
  <2>2. /\ HeadPos(infos, (n + 1) + 1) = HeadPos(infos, n + 1) + hs[n + 1]
        /\ MetaPos(infos, (n + 1) + 1) = MetaPos(infos, n + 1) + ms[n + 1]
    BY <1>5, <2>1
  <2>3. Row(n + 1) = Row(n) + CANDI_NUM /\ Row(n) \in Nat
    BY RowLemma
  <2>4. hs[n + 1] \in 0 .. CANDI_NUM - 1 /\ ms[n + 1] \in 0 .. CANDI_NUM - 1
    BY <1>1, <2>1
  <2> HIDE DEF hs, ms, N
  <2> QED  BY <2>1, <2>2, <2>3, <2>4, WidthAssumption
<1> HIDE DEF S
<1>8. Nat \subseteq S
  BY <1>6, <1>7, InductionOnSets
<1>9. ASSUME NEW k \in 1 .. N + 1
      PROVE  /\ HeadPos(infos, k) \in Nat /\ HeadPos(infos, k) <= Row(k - 1)
             /\ MetaPos(infos, k) \in Nat
  <2>1. k - 1 \in Nat /\ (k - 1) + 1 = k /\ k - 1 <= N
    BY <1>1
  <2>2. k - 1 \in S
    BY <1>8, <2>1
  <2> QED  BY <2>1, <2>2 DEF S
<1> QED  BY <1>4, <1>5, <1>9

LEMMA PositionsKept ==
  ASSUME NEW a \in Seq(LookupRst), NEW b \in Seq(LookupRst), Len(a) <= Len(b),
         \A i \in 1 .. Len(a) : b[i] = a[i]
  PROVE  \A k \in 1 .. Len(a) + 1 :
           HeadPos(b, k) = HeadPos(a, k) /\ MetaPos(b, k) = MetaPos(a, k)
<1> DEFINE Same(n) == HeadPos(b, n + 1) = HeadPos(a, n + 1) /\ MetaPos(b, n + 1) = MetaPos(a, n + 1)
           S == {n \in Nat : n <= Len(a) => Same(n)}
<1>1. 0 \in S
  <2>1. 0 + 1 = 1
    OBVIOUS
  <2> QED  BY <2>1, Positions
<1>2. ASSUME NEW n \in Nat, n \in S PROVE n + 1 \in S
  <2> SUFFICES ASSUME n + 1 <= Len(a) PROVE Same(n + 1)
    OBVIOUS
  <2>1. n + 1 \in 1 .. Len(a) /\ n + 1 \in 1 .. Len(b) /\ Same(n)
    BY <1>2
  <2>2. /\ HeadPos(a, (n + 1) + 1) = HeadPos(a, n + 1) + a[n + 1].headShift
        /\ MetaPos(a, (n + 1) + 1) = MetaPos(a, n + 1) + a[n + 1].metaShift
        /\ HeadPos(b, (n + 1) + 1) = HeadPos(b, n + 1) + b[n + 1].headShift
        /\ MetaPos(b, (n + 1) + 1) = MetaPos(b, n + 1) + b[n + 1].metaShift
    BY <2>1, Positions
  <2>3. b[n + 1] = a[n + 1]
    BY <2>1
  <2> QED  BY <2>1, <2>2, <2>3
<1> HIDE DEF S
<1>3. Nat \subseteq S
  BY <1>1, <1>2, InductionOnSets
<1>4. ASSUME NEW k \in 1 .. Len(a) + 1
      PROVE  HeadPos(b, k) = HeadPos(a, k) /\ MetaPos(b, k) = MetaPos(a, k)
  <2>1. k - 1 \in Nat /\ (k - 1) + 1 = k /\ k - 1 <= Len(a)
    OBVIOUS
  <2>2. k - 1 \in S
    BY <1>3, <2>1
  <2> QED  BY <2>1, <2>2 DEF S
<1> QED  BY <1>4

-----------------------------------------------------------------------------
(* A packet as a row of units.                                             *)
LEMMA RowOf ==
  ASSUME NEW n \in Nat
  PROVE  \E k \in Nat, u \in UnitIds : n = Row(k) + u
<1> DEFINE k == n \div CANDI_NUM
           u == n % CANDI_NUM
<1>1. CANDI_NUM \in Nat \ {0}
  BY WidthAssumption
<1>2. n = CANDI_NUM * k + u /\ k \in Int /\ u \in 0 .. CANDI_NUM - 1
  BY <1>1
<1> HIDE DEF k, u
<1>3. k <= -1 => CANDI_NUM * k <= -CANDI_NUM
  BY <1>1, <1>2
<1>4. k \in Nat
  BY <1>1, <1>2, <1>3
<1> QED  BY <1>1, <1>2, <1>4 DEF Row, UnitIds

LEMMA FlatAt ==
  ASSUME NEW q, NEW k \in Nat, NEW u \in UnitIds
  PROVE  Flat(q, Row(k) + u) = IF k < Len(q) THEN q[k + 1][u] ELSE Zero
<1> DEFINE n == k * CANDI_NUM + u
           d == n \div CANDI_NUM
           r == n % CANDI_NUM
<1>1. CANDI_NUM \in Nat \ {0} /\ u \in 0 .. CANDI_NUM - 1 /\ n \in Int
  BY WidthAssumption DEF UnitIds
<1>2. n = CANDI_NUM * d + r /\ d \in Int /\ r \in 0 .. CANDI_NUM - 1
  BY <1>1
<1>3. n = CANDI_NUM * k + u
  BY <1>1
<1> HIDE DEF n, d, r
<1> DEFINE m == d - k
<1>4. CANDI_NUM * m = u - r
  <2>1. CANDI_NUM * m = CANDI_NUM * d - CANDI_NUM * k
    BY <1>1, <1>2
  <2> QED  BY <1>1, <1>2, <1>3, <2>1
<1>5. m \in Int /\ CANDI_NUM * m < CANDI_NUM /\ CANDI_NUM * m > -CANDI_NUM
  BY <1>1, <1>2, <1>4
<1>6. d = k + m
  BY <1>2
<1> HIDE DEF m
<1>7. /\ m >= 1 => CANDI_NUM * m >= CANDI_NUM
      /\ m <= -1 => CANDI_NUM * m <= -CANDI_NUM
  BY <1>1, <1>5
<1>8. m = 0
  BY <1>1, <1>5, <1>7
<1>9. d = k /\ r = u
  BY <1>1, <1>2, <1>4, <1>6, <1>8
<1> QED  BY <1>9 DEF Flat, Row, n, d, r

LEMMA FlatLemma ==
  ASSUME NEW q \in Seq(Data), NEW n \in Nat
  PROVE  /\ Flat(q, n) \in Unit
         /\ n >= Row(Len(q)) => Flat(q, n) = Zero
         /\ n < Row(Len(q)) => \A d \in Data : Flat(Append(q, d), n) = Flat(q, n)
<1>1. PICK k \in Nat, u \in UnitIds : n = Row(k) + u
  BY RowOf
<1>2. \A p : Flat(p, n) = IF k < Len(p) THEN p[k + 1][u] ELSE Zero
  BY <1>1, FlatAt
<1>3. u \in 0 .. CANDI_NUM - 1 /\ CANDI_NUM \in Nat /\ Row(k) \in Nat /\ Len(q) \in Nat
  <2>1. Len(q) \in Nat
    OBVIOUS
  <2>2. Row(k) \in Nat
    BY RowLemma
  <2> QED  BY <2>1, <2>2, WidthAssumption DEF UnitIds
<1>4. Flat(q, n) \in Unit
  <2>1. CASE k < Len(q)
    <3>1. q[k + 1] \in Data
      BY <1>3, <2>1
    <3> QED  BY <1>2, <2>1, <3>1 DEF Data
  <2>2. CASE ~(k < Len(q))
    BY <1>2, <2>2 DEF Zero, Unit, Word
  <2> QED  BY <2>1, <2>2
<1>5. ASSUME n >= Row(Len(q)) PROVE Flat(q, n) = Zero
  <2>1. k < Len(q) => Row(k) + CANDI_NUM <= Row(Len(q))
    BY <1>3, RowLemma
  <2>2. Row(Len(q)) \in Nat
    BY <1>3, RowLemma
  <2>3. ~(k < Len(q))
    BY <1>1, <1>3, <1>5, <2>1, <2>2
  <2> QED  BY <1>2, <2>3
<1>6. ASSUME n < Row(Len(q)), NEW d \in Data PROVE Flat(Append(q, d), n) = Flat(q, n)
  <2>1. Len(q) <= k => Row(Len(q)) <= Row(k)
    BY <1>3, RowLemma
  <2>2. Row(Len(q)) \in Nat
    BY <1>3, RowLemma
  <2>3. k < Len(q)
    BY <1>1, <1>3, <1>6, <2>1, <2>2
  <2>4. Len(Append(q, d)) = Len(q) + 1 /\ Append(q, d)[k + 1] = q[k + 1]
    BY <1>3, <2>3
  <2>5. k < Len(q) + 1
    BY <1>3, <2>3
  <2> QED  BY <1>2, <2>3, <2>4, <2>5
<1> QED  BY <1>4, <1>5, <1>6

(* The shifter of a layer moves a window of a packet along its row, behind *)
(* the tail too, where the slice that follows is empty.                    *)
LEMMA WindowShifted ==
  ASSUME NEW q \in Seq(Data), NEW pos \in Nat, NEW s \in UnitIds, NEW next,
         \/ next = Window(q, pos + CANDI_NUM)
         \/ next = ZeroData /\ pos + CANDI_NUM >= Row(Len(q))
  PROVE  ShiftedData(Window(q, pos), next, s) = Window(q, pos + s)
<1>1. CANDI_NUM \in Nat \ {0} /\ s \in 0 .. CANDI_NUM - 1 /\ \A u \in UnitIds : u \in 0 .. CANDI_NUM - 1
  BY WidthAssumption DEF UnitIds
<1>2. ASSUME NEW u \in UnitIds PROVE next[u] = Flat(q, pos + CANDI_NUM + u)
  <2>1. CASE next = Window(q, pos + CANDI_NUM)
    BY <2>1 DEF Window
  <2>2. CASE next = ZeroData /\ pos + CANDI_NUM >= Row(Len(q))
    <3>1. Row(Len(q)) \in Nat /\ pos + CANDI_NUM + u \in Nat /\ pos + CANDI_NUM + u >= Row(Len(q))
      <4>1. Len(q) \in Nat
        OBVIOUS
      <4>2. Row(Len(q)) \in Nat
        BY <4>1, RowLemma
      <4> QED  BY <1>1, <2>2, <4>2
    <3> QED  BY <2>2, <3>1, FlatLemma DEF ZeroData
  <2> QED  BY <2>1, <2>2
<1>3. ASSUME NEW u \in UnitIds
      PROVE  (IF u + s < CANDI_NUM THEN Window(q, pos)[u + s] ELSE next[u + s - CANDI_NUM])
               = Flat(q, pos + s + u)
  <2>1. CASE u + s < CANDI_NUM
    <3>1. u + s \in UnitIds /\ pos + (u + s) = pos + s + u
      BY <1>1, <2>1 DEF UnitIds
    <3> QED  BY <2>1, <3>1 DEF Window
  <2>2. CASE ~(u + s < CANDI_NUM)
    <3>1. u + s - CANDI_NUM \in UnitIds /\ pos + CANDI_NUM + (u + s - CANDI_NUM) = pos + s + u
      BY <1>1, <2>2 DEF UnitIds
    <3> QED  BY <1>2, <2>2, <3>1
  <2> QED  BY <2>1, <2>2
<1> QED  BY <1>3 DEF ShiftedData, Window

-----------------------------------------------------------------------------
(* The widths of what the operators of a layer return.                     *)
LEMMA ModLemma ==
  ASSUME NEW a \in Nat, NEW n \in Nat \ {0}
  PROVE  a % n \in 0 .. n - 1
  OBVIOUS

LEMMA OffsetTypes ==
  ASSUME NEW w \in ConfWord \cup {NoWord}
  PROVE  /\ w.kind = "typeOffset" => w.offset % TypeCandiNum \in TypeOffsets
         /\ w.kind \in {"keyOffset", "headShift", "metaShift"} => w.offset % CANDI_NUM \in UnitIds
<1>1. w.kind \in {"typeOffset", "keyOffset", "headShift", "metaShift"} => w.offset \in Nat
  BY DEF ConfWord, NoWord
<1>2. TypeCandiNum \in Nat \ {0} /\ CANDI_NUM \in Nat \ {0}
  BY WidthAssumption DEF TypeCandiNum
<1>3. \A a \in Nat : a % TypeCandiNum \in TypeOffsets /\ a % CANDI_NUM \in UnitIds
  BY <1>2, ModLemma DEF TypeOffsets, UnitIds
<1> QED  BY <1>1, <1>3
LEMMA ConstantTypes ==
  /\ 0 \in UnitIds /\ 0 \in TypeOffsets /\ CANDI_NUM - 1 \in UnitIds /\ Zero \in Unit
  /\ ZeroData \in Data /\ ZeroSlice \in Slice /\ ZeroRst \in LookupRst
  /\ NoTargets \in Targets /\ ZeroInfo \in DepInfo
  /\ \A d \in Data, b, t \in BOOLEAN : TaggedSlice(d, b, t) \in Slice
<1>1. TypeCandiNum \in Nat \ {0}
  BY WidthAssumption DEF TypeCandiNum
<1>2. 0 \in UnitIds /\ 0 \in TypeOffsets /\ CANDI_NUM - 1 \in UnitIds /\ Zero \in Unit
  BY <1>1, WidthAssumption DEF UnitIds, TypeOffsets, Zero, Unit, Word
<1>3. ZeroData \in Data
  BY <1>2 DEF ZeroData, Data
<1>4. ZeroSlice \in Slice
  BY <1>2, <1>3 DEF ZeroSlice, Slice
<1>5. ZeroRst \in LookupRst
  BY <1>2 DEF ZeroRst, LookupRst
<1>6. \A d \in Data, b, t \in BOOLEAN : TaggedSlice(d, b, t) \in Slice
  BY <1>2 DEF TaggedSlice, Slice
<1>7. NoTargets \in Targets
  BY NumAssumption DEF NoTargets, Targets, KeyIds
<1>8. ZeroInfo \in DepInfo
  BY <1>2, <1>5, <1>7 DEF ZeroInfo, DepInfo
<1> QED  BY <1>2, <1>3, <1>4, <1>5, <1>6, <1>7, <1>8

LEMMA MoverTypes ==
  /\ \A pre, next \in Data, s \in UnitIds : ShiftedData(pre, next, s) \in Data
  /\ \A d, e \in Data : MergeData(d, e) \in Data
  /\ \A f \in [KeyIds -> Unit], at \in UnitIds : PlaceFields(f, at) \in Data
  /\ \A d \in Data, r \in LookupRst : ExtractTypes(d, r) \in [TypeIds -> Type]
  /\ \A d \in Data, r \in LookupRst : ExtractKeys(d, r) \in [KeyIds -> Unit]
<1>1. ASSUME NEW pre \in Data, NEW next \in Data, NEW s \in UnitIds
      PROVE  ShiftedData(pre, next, s) \in Data
  <2>1. \A u \in UnitIds : u + s < CANDI_NUM => u + s \in UnitIds
    BY WidthAssumption DEF UnitIds
  <2>2. \A u \in UnitIds : ~(u + s < CANDI_NUM) => u + s - CANDI_NUM \in UnitIds
    BY WidthAssumption DEF UnitIds
  <2> QED  BY <2>1, <2>2 DEF ShiftedData, Data
<1>2. ASSUME NEW d \in Data, NEW e \in Data PROVE MergeData(d, e) \in Data
  BY DEF MergeData, Data, Unit, Word
<1>3. ASSUME NEW f \in [KeyIds -> Unit], NEW at \in UnitIds
      PROVE  PlaceFields(f, at) \in Data
  BY DEF PlaceFields, Data, Unit, Word, Zero
<1>4. ASSUME NEW d \in Data, NEW r \in LookupRst
      PROVE  ExtractTypes(d, r) \in [TypeIds -> Type]
  <2>1. \A off : TypeField(d, off) \in Type
    BY DEF TypeField, Type, Word
  <2> QED  BY <2>1 DEF ExtractTypes
<1>5. ASSUME NEW d \in Data, NEW r \in LookupRst
      PROVE  ExtractKeys(d, r) \in [KeyIds -> Unit]
  BY ConstantTypes DEF ExtractKeys, LookupRst, Data
<1> QED  BY <1>1, <1>2, <1>3, <1>4, <1>5
Tables == [RuleIds -> TypeRule]

LEMMA RuleTypes ==
  /\ \A s \in TypeRule, w \in ConfWord \cup {NoWord} : Staged(s, w) \in TypeRule
  /\ \A w : Committing(w) \in SUBSET RuleIds
  /\ \A t \in Tables, s \in TypeRule, e \in SUBSET RuleIds : Written(t, e, s) \in Tables
  /\ \A t \in Tables : Invalidated(t) \in Tables
<1>1. ASSUME NEW s \in TypeRule, NEW w \in ConfWord \cup {NoWord}
      PROVE  Staged(s, w) \in TypeRule
  <2>1. w.kind = "rule" => w.valid \in BOOLEAN
    BY DEF ConfWord, NoWord
  <2>2. w.kind = "type" => w.data \in Type /\ w.mask \in Type
    BY DEF ConfWord, NoWord
  <2>3. w.kind = "typeOffset" => w.offset % TypeCandiNum \in TypeOffsets
    BY OffsetTypes
  <2>4. w.kind = "keyOffset" => w.valid \in BOOLEAN
    BY DEF ConfWord, NoWord
  <2>5. w.kind \in {"keyOffset", "headShift", "metaShift"} => w.offset % CANDI_NUM \in UnitIds
    BY OffsetTypes
  <2> QED  BY <2>1, <2>2, <2>3, <2>4, <2>5, ConstantTypes DEF Staged, TypeRule
<1>2. \A w : Committing(w) \in SUBSET RuleIds
  BY DEF Committing
<1>3. ASSUME NEW t \in Tables, NEW s \in TypeRule, NEW e \in SUBSET RuleIds
      PROVE  Written(t, e, s) \in Tables
  BY DEF Written, Tables
<1>4. ASSUME NEW t \in Tables PROVE Invalidated(t) \in Tables
  <2>1. \A r \in TypeRule : [r EXCEPT !.valid = FALSE] \in TypeRule
    BY DEF TypeRule
  <2> QED  BY <2>1 DEF Invalidated, Tables
<1> QED  BY <1>1, <1>2, <1>3, <1>4

(* A lookup has a result: among the rules hit, one has the lowest number.  *)
LEMMA LookupTyped ==
  ASSUME NEW t \in Tables, NEW type
  PROVE  LookupType(t, type) \in LookupRst
<1>1. CASE HitRules(t, type) = {}
  BY <1>1, ConstantTypes DEF LookupType
<1>2. CASE HitRules(t, type) # {}
  <2>1. HitRules(t, type) \subseteq Nat /\ HitRules(t, type) \subseteq RuleIds
    BY NumAssumption DEF HitRules, RuleIds
  <2>2. \E i \in HitRules(t, type) : \A k \in HitRules(t, type) : i <= k
    BY <1>2, <2>1, LeastNumber
  <2>3. FirstHit(t, type) \in RuleIds
    BY <2>1, <2>2 DEF FirstHit
  <2>4. t[FirstHit(t, type)] \in TypeRule
    BY <2>3 DEF Tables
  <2>5. \A r \in TypeRule : RstOf(r) \in LookupRst
    BY DEF RstOf, TypeRule, LookupRst
  <2> QED  BY <1>2, <2>4, <2>5 DEF LookupType
<1> QED  BY <1>1, <1>2
LEMMA ReplaceTyped ==
  ASSUME NEW t \in Tables, NEW type
  PROVE  /\ FullReplace(t, type) \in [KeyIds -> UnitIds]
         /\ LookupReplace(t, type) =
              [j \in KeyIds |-> FullReplace(t, type)[j] % RepOffsetMod]
         /\ LookupReplace(t, type) \in [KeyIds -> UnitIds]
<1> DEFINE f == FullReplace(t, type)
<1>0. RepOffsetMod \in Nat \ {0}
  BY NumAssumption DEF RepOffsetMod
<1>1. f \in [KeyIds -> UnitIds]
  <2>1. CASE HitRules(t, type) = {}
    BY <2>1, ConstantTypes DEF FullReplace
  <2>2. CASE HitRules(t, type) # {}
    <3>1. HitRules(t, type) \subseteq Nat /\ HitRules(t, type) \subseteq RuleIds
      BY NumAssumption DEF HitRules, RuleIds
    <3>2. \E i \in HitRules(t, type) : \A k \in HitRules(t, type) : i <= k
      BY <2>2, <3>1, LeastNumber
    <3>3. FirstHit(t, type) \in RuleIds
      BY <3>1, <3>2 DEF FirstHit
    <3>4. t[FirstHit(t, type)] \in TypeRule
      BY <3>3 DEF Tables
    <3> QED  BY <2>2, <3>4 DEF FullReplace, TypeRule
  <2> QED  BY <2>1, <2>2
<1>2. LookupReplace(t, type) = [j \in KeyIds |-> f[j] % RepOffsetMod]
  <2>1. CASE HitRules(t, type) = {}
    <3>1. 0 % RepOffsetMod = 0
      BY <1>0
    <3> QED  BY <2>1, <3>1 DEF FullReplace, LookupReplace
  <2>2. CASE HitRules(t, type) # {}
    BY <2>2, TopAssumption DEF FullReplace, LookupReplace
  <2> QED  BY <2>1, <2>2
<1> HIDE DEF f
<1>3. ASSUME NEW j \in KeyIds PROVE f[j] % RepOffsetMod \in UnitIds
  <2>1. f[j] \in Nat /\ f[j] <= CANDI_NUM - 1
    BY <1>1, WidthAssumption DEF UnitIds
  <2>2. \A a \in Nat, n \in Nat \ {0} : a % n \in Nat /\ a % n <= a
    <3> TAKE a \in Nat, n \in Nat \ {0}
    <3> DEFINE d == a \div n
               r == a % n
    <3>1. a = n * d + r /\ d \in Int /\ r \in 0 .. n - 1
      OBVIOUS
    <3> HIDE DEF d, r
    <3>2. d <= -1 => n * d <= -n
      BY <3>1
    <3>3. d >= 0 => n * d >= 0
      BY <3>1
    <3>4. r \in Nat /\ r <= a
      BY <3>1, <3>2, <3>3
    <3> QED  BY <3>4 DEF r
  <2> DEFINE b == f[j] % RepOffsetMod
  <2>3. b \in Nat /\ b <= f[j]
    BY <1>0, <2>1, <2>2
  <2> HIDE DEF b
  <2>4. b \in UnitIds
    BY <2>1, <2>3, WidthAssumption DEF UnitIds
  <2> QED  BY <2>4 DEF b
<1> QED  BY <1>1, <1>2, <1>3 DEF f

(* The OR of key numbers is a key number, and that of one key is that key. *)
LEMMA OrLemma ==
  ASSUME NEW keys \in SUBSET KeyIds
  PROVE  OrOf(keys) \in KeyIds /\ \A j \in KeyIds : keys = {j} => OrOf(keys) = j
<1> DEFINE Bit(n) == IF \E k \in keys : (k \div n) % 2 = 1 THEN n ELSE 0
<1>1. OrOf(keys) = Bit(1) + Bit(2) + Bit(4)
  BY DEF OrOf
<1>2. /\ Bit(1) \in {0, 1} /\ Bit(2) \in {0, 2} /\ Bit(4) \in {0, 4}
  OBVIOUS
<1>3. KEY_FILED_NUM \in {1, 2, 4, 8} /\ KeyIds = 0 .. KEY_FILED_NUM - 1
  BY KeyNumAssumption DEF KeyIds
<1>4. KEY_FILED_NUM <= 4 => Bit(4) = 0
  <2>1. \A k \in 0 .. 3 : (k \div 4) % 2 = 0
    OBVIOUS
  <2> QED  BY <1>3, <2>1
<1>5. KEY_FILED_NUM <= 2 => Bit(2) = 0
  <2>1. \A k \in 0 .. 1 : (k \div 2) % 2 = 0
    OBVIOUS
  <2> QED  BY <1>3, <2>1
<1>6. KEY_FILED_NUM <= 1 => Bit(1) = 0
  <2>1. \A k \in 0 .. 0 : (k \div 1) % 2 = 0
    OBVIOUS
  <2> QED  BY <1>3, <2>1
<1>7. ASSUME NEW j \in KeyIds, keys = {j} PROVE Bit(1) + Bit(2) + Bit(4) = j
  <2>1. /\ Bit(1) = IF (j \div 1) % 2 = 1 THEN 1 ELSE 0
        /\ Bit(2) = IF (j \div 2) % 2 = 1 THEN 2 ELSE 0
        /\ Bit(4) = IF (j \div 4) % 2 = 1 THEN 4 ELSE 0
    BY <1>7
  <2>2. j \in 0 .. 7
    BY <1>3
  <2> HIDE DEF Bit
  <2>3. \A i \in 0 .. 7 :
          (IF (i \div 1) % 2 = 1 THEN 1 ELSE 0) + (IF (i \div 2) % 2 = 1 THEN 2 ELSE 0)
            + (IF (i \div 4) % 2 = 1 THEN 4 ELSE 0) = i
    OBVIOUS
  <2> QED  BY <2>1, <2>2, <2>3
<1> HIDE DEF Bit
<1>8. Bit(1) + Bit(2) + Bit(4) \in KeyIds
  BY <1>2, <1>3, <1>4, <1>5, <1>6
<1> QED  BY <1>1, <1>7, <1>8

LEMMA TargetTypes ==
  ASSUME NEW valid, NEW place
  PROVE  TargetsOf(valid, place) \in Targets
<1> DEFINE At(u) == {k \in KeyIds : valid[k] /\ place[k] % CANDI_NUM = u}
<1>1. TargetsOf(valid, place) =
        [v     |-> [u \in UnitIds |-> At(u) # {}],
         carry |-> [u \in UnitIds |-> \E k \in At(u) : place[k] >= CANDI_NUM],
         key   |-> [u \in UnitIds |-> OrOf(At(u))]]
  BY DEF TargetsOf
<1>2. \A u : At(u) \in SUBSET KeyIds
  OBVIOUS
<1> HIDE DEF At
<1>3. \A u : OrOf(At(u)) \in KeyIds
  BY <1>2, OrLemma
<1> QED  BY <1>1, <1>3 DEF Targets

LEMMA ShiftReplaceType ==
  ASSUME NEW s \in ShiftReplaceRegs, NEW h \in Slice, NEW m \in Slice,
         NEW hs \in UnitIds, NEW ms \in BOOLEAN, NEW f \in [KeyIds -> Unit], NEW g \in Targets
  PROVE  ShiftReplaceClock(s, h, m, hs, ms, f, g) \in ShiftReplaceRegs
<1>1. MovedHead(s, h) \in Slice
  BY MoverTypes DEF MovedHead, ShiftReplaceRegs, Slice
<1>2. ReplacedMeta(s) \in Slice
  <2> DEFINE Replace(carry) ==
        [u \in UnitIds |->
           IF s.target.v[u] /\ s.target.carry[u] = carry
             THEN s.field[s.target.key[u]] ELSE s.preMeta.data[u]]
  <2>1. \A c : Replace(c) \in Data
    <3>1. \A u \in UnitIds : s.field[s.target.key[u]] \in Unit /\ s.preMeta.data[u] \in Unit
      BY DEF ShiftReplaceRegs, Targets, Slice, Data
    <3> QED  BY <3>1 DEF Data
  <2>2. \A d \in Data, b \in BOOLEAN :
          /\ [s.preMeta EXCEPT !.data = d, !.shift = ~b] \in Slice
          /\ [s.preMeta EXCEPT !.data = d] \in Slice
    BY DEF ShiftReplaceRegs, Slice
  <2>3. ReplacedMeta(s) =
          IF s.startBit
            THEN [s.preMeta EXCEPT !.data = Replace(FALSE), !.shift = ~s.toShift]
          ELSE IF s.startBitCarry THEN [s.preMeta EXCEPT !.data = Replace(TRUE)]
          ELSE s.preMeta
    BY DEF ReplacedMeta
  <2>4. s.preMeta \in Slice
    BY DEF ShiftReplaceRegs
  <2> HIDE DEF Replace
  <2> QED  BY <2>1, <2>2, <2>3, <2>4
<1>3. BaseSlice(s, m) \in BOOLEAN
  BY DEF BaseSlice
<1> QED  BY <1>1, <1>2, <1>3 DEF ShiftReplaceClock, ShiftReplaceRegs

LEMMA DepLayerClockType ==
  ASSUME NEW l \in DepLayerRegs, NEW in \in DepLayerInfo, NEW w \in ConfWord \cup {NoWord}
  PROVE  DepLayerClock(l, in, w) \in DepLayerRegs
<1>1. in.head \in Slice /\ in.head.data \in Data /\ in.meta \in Slice /\ in.info \in DepInfo
      /\ in.info.rst \in LookupRst
  BY DEF DepLayerInfo, Slice, DepInfo
<1>2. /\ l.info.rst.headShift \in UnitIds /\ l.info.totalCarry \in BOOLEAN
      /\ l.info.target \in Targets
  BY DEF DepLayerRegs, DepInfo, LookupRst
<1>3. /\ ExtractTypes(in.head.data, in.info.rst) \in [TypeIds -> Type]
      /\ ExtractKeys(in.head.data, in.info.rst) \in [KeyIds -> Unit]
  BY <1>1, MoverTypes
<1>4. /\ LookupType(l.table, l.type) \in LookupRst
      /\ LookupReplace(l.table, l.type) \in [KeyIds -> UnitIds]
  BY LookupTyped, ReplaceTyped DEF DepLayerRegs, Tables
<1>5. Total(l.info) % CANDI_NUM \in UnitIds /\ (Total(l.info) >= CANDI_NUM) \in BOOLEAN
  <2>1. l.info.rst.metaShift \in UnitIds /\ l.info.total \in UnitIds
    BY DEF DepLayerRegs, DepInfo, LookupRst
  <2>2. Total(l.info) \in Nat
    BY <2>1, WidthAssumption DEF Total, UnitIds
  <2> QED  BY <2>2, ModLemma, WidthAssumption DEF UnitIds
<1>6. ShiftReplaceClock(l.sr, l.head, l.meta, l.info.rst.headShift, l.info.totalCarry, l.key,
                        l.info.target) \in ShiftReplaceRegs
  BY <1>2, ShiftReplaceType DEF DepLayerRegs
<1>7. Staged(l.stage, w) \in TypeRule /\ Committing(w) \in SUBSET RuleIds
  BY RuleTypes DEF DepLayerRegs
<1>8. Written(l.table, l.wren, l.stage) \in [RuleIds -> TypeRule]
  BY RuleTypes DEF DepLayerRegs, Tables
<1> DEFINE m == DepLayerClock(l, in, w)
<1>9. m.s1 \in [rst : LookupRst, replace : [KeyIds -> UnitIds],
                total : UnitIds, totalCarry : BOOLEAN]
  BY <1>4, <1>5 DEF DepLayerClock
<1>10. m.s2 \in DepInfo
  <2>1. l.s1.rst \in LookupRst /\ l.s1.total \in UnitIds /\ l.s1.totalCarry \in BOOLEAN
    BY DEF DepLayerRegs
  <2> QED  BY <2>1, TargetTypes DEF DepLayerClock, DepInfo
<1>11. m = [type |-> m.type, key |-> m.key, head |-> m.head, meta |-> m.meta, info |-> m.info,
            s1 |-> m.s1, s2 |-> m.s2, sr |-> m.sr, stage |-> m.stage, wren |-> m.wren,
            table |-> m.table]
  BY DEF DepLayerClock
<1>12. /\ m.type \in [TypeIds -> Type] /\ m.key \in [KeyIds -> Unit]
       /\ m.head \in Slice /\ m.meta \in Slice /\ m.info \in DepInfo
       /\ m.sr \in ShiftReplaceRegs /\ m.stage \in TypeRule /\ m.wren \in SUBSET RuleIds
       /\ m.table \in [RuleIds -> TypeRule]
  BY <1>1, <1>3, <1>6, <1>7, <1>8 DEF DepLayerClock
<1> HIDE DEF m
<1>13. m \in DepLayerRegs
  BY <1>9, <1>10, <1>11, <1>12 DEF DepLayerRegs
<1> QED  BY <1>13 DEF m

LEMMA InfoTypes ==
  /\ \A l \in DepLayerRegs : DepLayerOut(l) \in DepLayerInfo
  /\ \A r \in LookupRst, w \in ConfWord \cup {NoWord} : Rst0Conf(r, w) \in LookupRst
  /\ \A r \in [KeyIds -> UnitIds], w \in ConfWord \cup {NoWord} :
       Replace0Conf(r, w) \in [KeyIds -> UnitIds]
  /\ \A k \in Layers, w \in ConfWord \cup {NoWord} : WordFor(k, w) \in ConfWord \cup {NoWord}
  /\ \A w \in ConfWord \cup {NoWord} : WordFor(0, w) \in ConfWord \cup {NoWord}
<1>1. \A l \in DepLayerRegs : DepLayerOut(l) \in DepLayerInfo
  BY DEF DepLayerOut, DepLayerInfo, DepLayerRegs, ShiftReplaceRegs
<1>2. ASSUME NEW r \in LookupRst, NEW w \in ConfWord \cup {NoWord}
      PROVE  Rst0Conf(r, w) \in LookupRst
  <2>1. w.kind = "typeOffset" => w.offset % TypeCandiNum \in TypeOffsets
    BY OffsetTypes
  <2>2. w.kind = "keyOffset" => w.valid \in BOOLEAN
    BY DEF ConfWord, NoWord
  <2>3. w.kind \in {"keyOffset", "headShift", "metaShift"} => w.offset % CANDI_NUM \in UnitIds
    BY OffsetTypes
  <2> QED  BY <2>1, <2>2, <2>3 DEF Rst0Conf, LookupRst
<1>3. ASSUME NEW r \in [KeyIds -> UnitIds], NEW w \in ConfWord \cup {NoWord}
      PROVE  Replace0Conf(r, w) \in [KeyIds -> UnitIds]
  <2>1. w.kind = "keyOffset" => w.replace \in Nat
    BY DEF ConfWord, NoWord
  <2>2. w.kind = "keyOffset" => w.replace % CANDI_NUM \in UnitIds
    BY <2>1, ModLemma, WidthAssumption DEF UnitIds
  <2> QED  BY <2>2 DEF Replace0Conf
<1> QED  BY <1>1, <1>2, <1>3 DEF WordFor

(* A clock of all the layers.                                              *)
LEMMA ClockType ==
  ASSUME TypeOK, NEW h \in Slice, NEW m \in Slice, NEW w \in ConfWord \cup {NoWord},
         Clock(h, m, w)
  PROVE  TypeOK'
<1> DEFINE in(k) == IF k = 1 THEN [head |-> h, meta |-> m, info |-> info0]
                    ELSE DepLayerOut(layer[k - 1])
<1>1. ASSUME NEW k \in Layers PROVE in(k) \in DepLayerInfo
  <2>1. k # 1 => k - 1 \in Layers
    BY TopAssumption DEF Layers
  <2> QED  BY <2>1, InfoTypes DEF TypeOK, DepLayerInfo
<1>2. layer' = [k \in Layers |-> DepLayerClock(layer[k], in(k), WordFor(k, w))]
  BY DEF Clock
<1> HIDE DEF in
<1>3. layer' \in [Layers -> DepLayerRegs]
  BY <1>1, <1>2, DepLayerClockType, InfoTypes DEF TypeOK
<1>4. /\ info0'.rst = Rst0Conf(info0.rst, WordFor(0, w)) /\ info0'.rst \in LookupRst
      /\ info0' = [rst |-> info0'.rst, target |-> Target0, total |-> 0, totalCarry |-> FALSE]
  BY InfoTypes DEF Clock, TypeOK, DepInfo
<1>5. Target0 \in Targets
  <2>1. TargetsOf(info0.rst.keyOffset_v, replace0) \in Targets
    BY TargetTypes
  <2>2. [u \in UnitIds |-> u \in latch0] \in [UnitIds -> BOOLEAN]
    OBVIOUS
  <2>3. \A t \in Targets, v \in [UnitIds -> BOOLEAN] : [t EXCEPT !.v = v] \in Targets
    BY DEF Targets
  <2> QED  BY <2>1, <2>2, <2>3 DEF Target0
<1>6. info0' \in DepInfo
  <2> DEFINE r == info0'.rst
  <2>1. r \in LookupRst
    BY <1>4
  <2>2. info0' = [rst |-> r, target |-> Target0, total |-> 0, totalCarry |-> FALSE]
    BY <1>4
  <2> HIDE DEF r
  <2> QED  BY <1>5, <2>1, <2>2, ConstantTypes DEF DepInfo
<1>7. /\ replace0' = Replace0Conf(replace0, WordFor(0, w))
      /\ replace0' \in [KeyIds -> UnitIds]
  BY InfoTypes DEF Clock, TypeOK
<1>8. latch0' = Latched(latch0, info0'.rst.keyOffset_v, replace0')
  BY <1>4, <1>7 DEF Clock
<1>9. /\ {u \in UnitIds : TargetsOf(info0'.rst.keyOffset_v, replace0').v[u]} \subseteq latch0'
      /\ latch0' \subseteq UnitIds
  BY <1>8 DEF Latched, TypeOK
<1> QED  BY <1>3, <1>6, <1>7, <1>9 DEF TypeOK

(* The pipeline registers of every layer keep their widths, every target   *)
(* names a key that exists, and the latches hold what is configured.       *)
THEOREM TypeCorrect == Spec => []TypeOK
<1>1. Init => TypeOK
  <2> SUFFICES ASSUME Init PROVE TypeOK
    OBVIOUS
  <2>1. PICK c \in Configs :
          LET target == TargetsOf(c.rst.keyOffset_v, c.replace)
          IN  /\ info0 = [rst |-> c.rst, target |-> target, total |-> 0, totalCarry |-> FALSE]
              /\ replace0 = c.replace
              /\ latch0 = {u \in UnitIds : target.v[u]}
              /\ layer = [k \in Layers |-> ZeroDepLayer(c.tables[k], c.tables[k][RULE_NUM - 1])]
    BY DEF Init
  <2>2. c.rst \in LookupRst /\ c.replace \in [KeyIds -> UnitIds] /\ c.tables \in [Layers -> Tables]
    BY TopAssumption DEF Layers, Tables
  <2>3. ASSUME NEW t \in Tables, NEW r \in TypeRule PROVE ZeroDepLayer(t, r) \in DepLayerRegs
    <3> DEFINE sr0 == [preHead |-> ZeroSlice, preMeta |-> ZeroSlice,
                       head |-> ZeroSlice, meta |-> ZeroSlice, headShift |-> 0,
                       startBit |-> FALSE, startBitCarry |-> FALSE, toShift |-> FALSE,
                       field |-> [j \in KeyIds |-> Zero], target |-> NoTargets]
               s0 == [rst |-> ZeroRst, replace |-> [j \in KeyIds |-> 0], total |-> 0,
                      totalCarry |-> FALSE]
    <3>1. sr0 \in ShiftReplaceRegs
      BY ConstantTypes DEF ShiftReplaceRegs
    <3>2. [i \in TypeIds |-> Zero] \in [TypeIds -> Type]
      BY DEF Zero, Type, Word
    <3>3. s0 \in [rst : LookupRst, replace : [KeyIds -> UnitIds],
                  total : UnitIds, totalCarry : BOOLEAN]
      BY ConstantTypes
    <3> HIDE DEF sr0, s0
    <3>4. ZeroDepLayer(t, r) =
            [type |-> [i \in TypeIds |-> Zero], key |-> [j \in KeyIds |-> Zero],
             head |-> ZeroSlice, meta |-> ZeroSlice, info |-> ZeroInfo,
             s1 |-> s0, s2 |-> ZeroInfo, sr |-> sr0,
             stage |-> r, wren |-> {}, table |-> t]
      BY DEF ZeroDepLayer, sr0, s0
    <3> QED  BY <3>1, <3>2, <3>3, <3>4, ConstantTypes DEF DepLayerRegs, Tables
  <2>4. \A k \in Layers : c.tables[k][RULE_NUM - 1] \in TypeRule
    <3>1. RULE_NUM - 1 \in RuleIds
      BY NumAssumption DEF RuleIds
    <3> QED  BY <2>2, <3>1 DEF Tables
  <2>5. layer \in [Layers -> DepLayerRegs]
    BY <2>1, <2>2, <2>3, <2>4
  <2>6. info0 \in DepInfo
    BY <2>1, <2>2, TargetTypes, ConstantTypes DEF DepInfo
  <2> QED  BY <2>1, <2>2, <2>5, <2>6 DEF TypeOK
<1>2. TypeOK /\ [Next]_vars => TypeOK'
  <2> SUFFICES ASSUME TypeOK, [Next]_vars PROVE TypeOK'
    OBVIOUS
  <2>0. ConfInputs \cup {NoWord} \subseteq ConfWord \cup {NoWord}
    BY TopAssumption
  <2>1. CASE Reset
    <3>1. \A l \in DepLayerRegs : DepLayerReset(l) \in DepLayerRegs
      BY RuleTypes DEF DepLayerReset, DepLayerRegs, Tables
    <3> QED  BY <2>1, <3>1 DEF Reset, TypeOK
  <2>2. ASSUME NEW w \in ConfInputs \cup {NoWord}, Gap(w) PROVE TypeOK'
    BY <2>0, <2>2, ClockType, ConstantTypes DEF Gap
  <2>3. ASSUME NEW w \in ConfInputs \cup {NoWord}, NEW d \in MetaInputs, NEW tail \in BOOLEAN,
               NextSlice(d, tail, w)
        PROVE  TypeOK'
    <3>1. TaggedSlice(d, FALSE, tail) \in Slice
      BY ConstantTypes, TopAssumption
    <3> QED  BY <2>0, <2>3, <3>1, ClockType, ConstantTypes DEF NextSlice
  <2>4. ASSUME NEW w \in ConfInputs \cup {NoWord}, NEW d \in MetaInputs, NEW tail \in BOOLEAN,
               NEW fields \in HeadInputs, StartSlice(fields, d, tail, w)
        PROVE  TypeOK'
    <3>1. TaggedSlice(d, TRUE, tail) \in Slice /\ TaggedSlice(fields, TRUE, FALSE) \in Slice
      BY ConstantTypes, TopAssumption
    <3> QED  BY <2>0, <2>4, <3>1, ClockType DEF StartSlice
  <2>5. CASE UNCHANGED vars
    BY <2>5 DEF TypeOK, vars
  <2> QED  BY <2>1, <2>2, <2>3, <2>4, <2>5 DEF Next
<1> QED  BY <1>1, <1>2, PTL DEF Spec

-----------------------------------------------------------------------------
(* The packets in flight, apart from the pipeline: a packet has one slice  *)
(* of field values, as many lookup results as layers it has been looked up *)
(* in, and between the packets the input left a gap.                       *)
Packet == [head : Seq(Data), slices : Seq(Data), age : Nat, infos : Seq(LookupRst),
           replaces : Seq([KeyIds -> UnitIds])]

PacketOK(p) ==
  /\ p \in Packet
  /\ Len(p.head) = 1
  /\ Len(p.slices) \in 1 .. p.age
  /\ Len(p.infos) \in 1 .. NUM_LAYER + 1
  /\ Len(p.replaces) = Len(p.infos)
  /\ \A k \in Layers : LookupAge(k) < p.age <=> k + 1 <= Len(p.infos)

FlightOK(fl) ==
  /\ fl \in Seq(Packet)
  /\ \A i \in 1 .. Len(fl) : PacketOK(fl[i]) /\ fl[i].age < Latency * NUM_LAYER + Len(fl[i].slices)
  /\ \A i, j \in 1 .. Len(fl) : i < j => fl[i].age > fl[j].age + Len(fl[i].slices)

(* Packet q is packet p one clock later, when the slice "in" arrives.      *)
Grown(p, q, lay, in) ==
  /\ q.age = p.age + 1 /\ q.head = p.head
  /\ q.slices = IF p.age = Len(p.slices) /\ in.valid THEN Append(p.slices, in.data) ELSE p.slices
  /\ Len(p.infos) <= Len(q.infos)
  /\ \A n \in 1 .. Len(p.infos) : q.infos[n] = p.infos[n] /\ q.replaces[n] = p.replaces[n]
  /\ \A k \in Layers : p.age = LookupAge(k) =>
       /\ q.infos[k + 1] = LookupType(lay[k].table, LookedAt(p, k))
       /\ q.replaces[k + 1] = FullReplace(lay[k].table, LookedAt(p, k))

(* The packets fl become the packets fl2: none appears but with its first  *)
(* slice, and none disappears but with its last.                           *)
Moved(fl, fl2, lay, in) ==
  /\ \A j \in 1 .. Len(fl2) :
       fl2[j].age = 1 \/ \E i \in 1 .. Len(fl) : Grown(fl[i], fl2[j], lay, in)
  /\ \A i \in 1 .. Len(fl) :
       \/ fl[i].age + 1 >= Latency * NUM_LAYER + Len(fl[i].slices)
       \/ \E j \in 1 .. Len(fl2) : Grown(fl[i], fl2[j], lay, in)

LEMMA PacketFacts ==
  ASSUME NEW p, PacketOK(p)
  PROVE  /\ p.slices \in Seq(Data) /\ p.age \in Nat /\ p.infos \in Seq(LookupRst)
         /\ Len(p.slices) \in Nat /\ Len(p.infos) \in Nat
         /\ 1 <= Len(p.slices) /\ Len(p.slices) <= p.age /\ 1 <= Len(p.infos)
         /\ \A k \in Layers : p.age >= LookupAge(k) => k <= Len(p.infos)
         /\ Len(p.infos) <= p.age
<1>1. /\ p.slices \in Seq(Data) /\ p.age \in Nat /\ p.infos \in Seq(LookupRst)
      /\ Len(p.slices) \in Nat /\ Len(p.infos) \in Nat
  BY DEF PacketOK, Packet
<1>2. 1 <= Len(p.slices) /\ Len(p.slices) <= p.age /\ 1 <= Len(p.infos)
  BY <1>1 DEF PacketOK
<1>3. ASSUME NEW k \in Layers, p.age >= LookupAge(k) PROVE k <= Len(p.infos)
  <2>1. CASE k = 1
    BY <1>2, <2>1
  <2>2. CASE k # 1
    <3>1. k - 1 \in Layers /\ LookupAge(k - 1) < p.age
      BY <1>1, <1>3, <2>2, TopAssumption DEF Layers, LookupAge, Latency
    <3>2. (k - 1) + 1 <= Len(p.infos)
      BY <3>1 DEF PacketOK
    <3> QED  BY <3>2 DEF Layers
  <2> QED  BY <2>1, <2>2
<1>4. Len(p.infos) <= p.age
  <2>1. CASE Len(p.infos) = 1
    BY <1>1, <1>2, <2>1
  <2>2. CASE Len(p.infos) # 1
    <3> DEFINE k == Len(p.infos) - 1
    <3>1. k \in Layers /\ k + 1 <= Len(p.infos)
      <4>1. Len(p.infos) \in 1 .. NUM_LAYER + 1
        BY DEF PacketOK
      <4>2. NUM_LAYER \in Nat
        BY TopAssumption
      <4>3. \A n \in Nat : n \in 1 .. NUM_LAYER + 1 /\ n # 1 => n - 1 \in Layers /\ (n - 1) + 1 <= n
        BY <4>2 DEF Layers
      <4> QED  BY <1>1, <2>2, <4>1, <4>3
    <3>2. LookupAge(k) < p.age
      BY <3>1 DEF PacketOK
    <3>3. LookupAge(k) = 3 * (k - 1) + 1
      BY DEF LookupAge, Latency
    <3>4. k \in Nat /\ k >= 1 /\ Len(p.infos) = k + 1
      BY <1>1, <3>1, TopAssumption DEF Layers
    <3> HIDE DEF k
    <3> QED  BY <1>1, <3>2, <3>3, <3>4
  <2> QED  BY <2>1, <2>2
<1> QED  BY <1>1, <1>2, <1>3, <1>4

LEMMA PacketHead ==
  ASSUME NEW p, PacketOK(p)
  PROVE  /\ p.head \in Seq(Data) /\ Len(p.head) = 1
         /\ p.replaces \in Seq([KeyIds -> UnitIds]) /\ Len(p.replaces) = Len(p.infos)
         /\ \A k \in 1 .. Len(p.infos) :
              p.infos[k] \in LookupRst /\ p.replaces[k] \in [KeyIds -> UnitIds]
<1>1. /\ p.head \in Seq(Data) /\ p.replaces \in Seq([KeyIds -> UnitIds])
      /\ p.infos \in Seq(LookupRst) /\ Len(p.head) = 1 /\ Len(p.replaces) = Len(p.infos)
  BY DEF PacketOK, Packet
<1> QED  BY <1>1

(* A packet one clock older is that packet grown.                          *)
LEMMA AgedGrown ==
  ASSUME TypeOK, NEW p, PacketOK(p), NEW in, in.data \in Data, NEW more,
         more = IF p.age = Len(p.slices) /\ in.valid THEN <<in.data>> ELSE <<>>
  PROVE  /\ PacketOK(Aged(p, more)) /\ Grown(p, Aged(p, more), layer, in)
         /\ Len(Aged(p, more).slices) >= Len(p.slices)
<1> DEFINE q == Aged(p, more)
<1>0. /\ p.slices \in Seq(Data) /\ p.age \in Nat /\ p.infos \in Seq(LookupRst)
      /\ Len(p.slices) \in Nat /\ Len(p.infos) \in Nat
      /\ 1 <= Len(p.slices) /\ Len(p.slices) <= p.age
  BY PacketFacts
<1>1. /\ q.age = p.age + 1 /\ q.head = p.head
      /\ q = [head |-> q.head, slices |-> q.slices, age |-> q.age, infos |-> q.infos,
              replaces |-> q.replaces]
  BY DEF Aged
<1>P. /\ p.head \in Seq(Data) /\ Len(p.head) = 1
      /\ p.replaces \in Seq([KeyIds -> UnitIds]) /\ Len(p.replaces) = Len(p.infos)
  BY PacketHead
<1>2. /\ q.slices = IF p.age = Len(p.slices) /\ in.valid THEN Append(p.slices, in.data)
                    ELSE p.slices
      /\ q.slices \in Seq(Data)
      /\ Len(q.slices) \in 1 .. p.age + 1 /\ Len(q.slices) >= Len(p.slices)
  <2>1. q.slices = p.slices \o more
    BY DEF Aged
  <2>2. CASE p.age = Len(p.slices) /\ in.valid
    <3>1. p.slices \o more = Append(p.slices, in.data)
      BY <1>0, <2>2
    <3>2. Append(p.slices, in.data) \in Seq(Data) /\ Len(Append(p.slices, in.data)) = Len(p.slices) + 1
      BY <1>0
    <3>3. q.slices = Append(p.slices, in.data)
      BY <2>1, <3>1
    <3> HIDE DEF q
    <3> QED  BY <1>0, <2>2, <3>2, <3>3
  <2>3. CASE ~(p.age = Len(p.slices) /\ in.valid)
    <3>1. more = <<>>
      BY <2>3
    <3>2. p.slices \o <<>> = p.slices
      BY <1>0
    <3>3. q.slices = p.slices
      BY <2>1, <3>1, <3>2
    <3> HIDE DEF q
    <3> QED  BY <1>0, <2>3, <3>3
  <2> QED  BY <2>2, <2>3
<1>3. CASE \E k \in Layers : p.age = LookupAge(k)
  <2> DEFINE k == CHOOSE n \in Layers : p.age = LookupAge(n)
             r == LookupType(layer[k].table, LookedAt(p, k))
             f == FullReplace(layer[k].table, LookedAt(p, k))
  <2>1. k \in Layers /\ p.age = LookupAge(k)
    BY <1>3
  <2>2. q.infos = Append(p.infos, r) /\ q.replaces = Append(p.replaces, f)
    BY <1>3 DEF Aged
  <2> HIDE DEF k
  <2>3. \A n \in Layers : p.age = LookupAge(n) => n = k
    BY <2>1, TopAssumption DEF Layers, LookupAge, Latency
  <2>4. r \in LookupRst /\ f \in [KeyIds -> UnitIds]
    <3>1. layer[k].table \in Tables
      BY <2>1 DEF TypeOK, DepLayerRegs, Tables
    <3> QED  BY <3>1, LookupTyped, ReplaceTyped
  <2> HIDE DEF r, f
  <2>5. /\ q.infos \in Seq(LookupRst) /\ Len(q.infos) = Len(p.infos) + 1
        /\ q.infos[Len(p.infos) + 1] = r
        /\ \A n \in 1 .. Len(p.infos) : q.infos[n] = p.infos[n]
    <3> HIDE DEF q
    <3>1. Append(p.infos, r) \in Seq(LookupRst) /\ Len(Append(p.infos, r)) = Len(p.infos) + 1
      BY <1>0, <2>4
    <3>2. Append(p.infos, r)[Len(p.infos) + 1] = r
      BY <1>0
    <3>3. \A n \in 1 .. Len(p.infos) : Append(p.infos, r)[n] = p.infos[n]
      BY <1>0
    <3> QED  BY <2>2, <3>1, <3>2, <3>3
  <2>R. /\ q.replaces \in Seq([KeyIds -> UnitIds]) /\ Len(q.replaces) = Len(p.replaces) + 1
        /\ q.replaces[Len(p.infos) + 1] = f
        /\ \A n \in 1 .. Len(p.infos) : q.replaces[n] = p.replaces[n]
    <3> HIDE DEF q
    <3>1. /\ Append(p.replaces, f) \in Seq([KeyIds -> UnitIds])
          /\ Len(Append(p.replaces, f)) = Len(p.replaces) + 1
      BY <1>P, <2>4
    <3>2. Append(p.replaces, f)[Len(p.replaces) + 1] = f
      BY <1>P
    <3>3. \A n \in 1 .. Len(p.replaces) : Append(p.replaces, f)[n] = p.replaces[n]
      BY <1>P
    <3> QED  BY <1>P, <2>2, <3>1, <3>2, <3>3
  <2>6. Len(p.infos) = k
    <3>1. k <= Len(p.infos)
      BY <2>1, PacketFacts DEF LookupAge
    <3>2. ~(k + 1 <= Len(p.infos))
      <4>1. ~(LookupAge(k) < p.age)
        BY <1>0, <2>1
      <4> QED  BY <2>1, <4>1 DEF PacketOK
    <3> QED  BY <1>0, <2>1, <3>1, <3>2 DEF Layers
  <2>7. \A n \in Layers : LookupAge(n) < p.age + 1 <=> n + 1 <= k + 1
    BY <2>1, TopAssumption DEF Layers, LookupAge, Latency
  <2>8. Len(q.infos) \in 1 .. NUM_LAYER + 1
    BY <2>1, <2>5, <2>6, TopAssumption DEF Layers
  <2>9. PacketOK(q)
    <3>1. q \in Packet
      BY <1>0, <1>1, <1>2, <1>P, <2>5, <2>R DEF Packet
    <3> HIDE DEF q
    <3> QED  BY <1>1, <1>2, <1>P, <2>5, <2>6, <2>7, <2>8, <2>R, <3>1 DEF PacketOK
  <2>10. \A n \in Layers : p.age = LookupAge(n) =>
           /\ q.infos[n + 1] = LookupType(layer[n].table, LookedAt(p, n))
           /\ q.replaces[n + 1] = FullReplace(layer[n].table, LookedAt(p, n))
    BY <2>3, <2>5, <2>6, <2>R DEF r, f
  <2>11. Grown(p, q, layer, in)
    <3> HIDE DEF q
    <3> QED  BY <1>0, <1>1, <1>2, <2>5, <2>R, <2>10 DEF Grown
  <2> QED  BY <1>2, <2>9, <2>11
<1>4. CASE ~ \E k \in Layers : p.age = LookupAge(k)
  <2>1. q.infos = p.infos /\ q.replaces = p.replaces
    BY <1>4 DEF Aged
  <2>2. \A n \in Layers : LookupAge(n) < p.age + 1 <=> LookupAge(n) < p.age
    BY <1>0, <1>4 DEF Layers, LookupAge, Latency
  <2>3. PacketOK(q)
    <3>1. q \in Packet
      BY <1>0, <1>1, <1>2, <1>P, <2>1 DEF Packet
    <3> HIDE DEF q
    <3> QED  BY <1>0, <1>1, <1>2, <1>P, <2>1, <2>2, <3>1 DEF PacketOK
  <2>4. Grown(p, q, layer, in)
    BY <1>0, <1>1, <1>2, <1>4, <2>1 DEF Grown
  <2> QED  BY <1>2, <2>3, <2>4
<1> QED  BY <1>3, <1>4

(* One clock of the packets in flight.                                     *)
LEMMA FlyingStep ==
  ASSUME TypeOK, FlightOK(flight), NEW in, in.data \in Data, NEW more,
         in.valid => in.data \in Data,
         \/ more = <<>> /\ \A i \in 1 .. Len(flight) :
              ~(flight[i].age = Len(flight[i].slices) /\ in.valid)
         \/ /\ more = <<in.data>> /\ in.valid /\ Len(flight) > 0
            /\ flight[Len(flight)].age = Len(flight[Len(flight)].slices)
  PROVE  /\ FlightOK(Flying(more)) /\ Moved(flight, Flying(more), layer, in)
         /\ \A j \in 1 .. Len(Flying(more)) :
              \E i \in 1 .. Len(flight) : Grown(flight[i], Flying(more)[j], layer, in)
<1> DEFINE last == Len(flight)
           M(i) == IF i = last THEN more ELSE <<>>
           aged == [i \in 1 .. last |-> Aged(flight[i], M(i))]
           Out(p) == p.age >= Latency * NUM_LAYER + Len(p.slices)
<1>0. last \in Nat /\ \A i \in 1 .. last : PacketOK(flight[i])
  BY DEF FlightOK
<1>1. ASSUME NEW i \in 1 .. last
      PROVE  M(i) = IF flight[i].age = Len(flight[i].slices) /\ in.valid THEN <<in.data>> ELSE <<>>
  <2>1. CASE i = last
    BY <2>1
  <2>2. CASE i # last
    <3>1. flight[i].age > flight[last].age + Len(flight[i].slices)
      BY <1>0, <2>2 DEF FlightOK
    <3>2. flight[last].age \in Nat /\ flight[i].age \in Nat /\ Len(flight[i].slices) \in Nat
      BY <1>0, PacketFacts
    <3>3. flight[i].age # Len(flight[i].slices)
      BY <3>1, <3>2
    <3> QED  BY <2>2, <3>3
  <2> QED  BY <2>1, <2>2
<1> HIDE DEF M
<1>2. ASSUME NEW i \in 1 .. last
      PROVE  /\ PacketOK(aged[i]) /\ Grown(flight[i], aged[i], layer, in)
             /\ Len(aged[i].slices) >= Len(flight[i].slices) /\ aged[i].age = flight[i].age + 1
             /\ flight[i].age # Len(flight[i].slices) => aged[i].slices = flight[i].slices
  <2>1. aged[i] = Aged(flight[i], M(i))
    OBVIOUS
  <2>2. PacketOK(aged[i]) /\ Grown(flight[i], aged[i], layer, in)
        /\ Len(aged[i].slices) >= Len(flight[i].slices)
    BY <1>0, <1>1, <2>1, AgedGrown
  <2> QED  BY <2>2 DEF Grown
<1>3. Len(aged) = last /\ aged \in Seq(Packet)
  BY <1>0, <1>2 DEF PacketOK
<1>4. ASSUME NEW i \in 1 .. last, NEW j \in 1 .. last, i < j
      PROVE  aged[i].age > aged[j].age + Len(aged[i].slices)
  <2>1. flight[i].age > flight[j].age + Len(flight[i].slices)
    BY <1>4 DEF FlightOK
  <2>2. flight[j].age \in Nat /\ flight[i].age \in Nat /\ Len(flight[i].slices) \in Nat
        /\ flight[j].age >= 1
    BY <1>0, PacketFacts
  <2>3. aged[i].slices = flight[i].slices
    BY <1>2, <2>1, <2>2
  <2> QED  BY SMTT(20), <1>2, <2>1, <2>2, <2>3
<1>7. Flying(more) = IF last > 0 /\ Out(aged[1]) THEN Tail(aged) ELSE aged
  BY DEF Flying, M
<1> HIDE DEF aged
<1> DEFINE F == Flying(more)
           L == Latency * NUM_LAYER
<1>L. L \in Nat
  BY TopAssumption DEF Latency
<1> HIDE DEF L
<1>5. ASSUME NEW i \in 1 .. last, Out(aged[i]) PROVE i = 1
  <2> SUFFICES ASSUME i # 1 PROVE FALSE
    OBVIOUS
  <2>0. 1 \in 1 .. last /\ 1 < i
    BY <1>0
  <2>1. flight[1].age > flight[i].age + Len(flight[1].slices)
    BY <2>0 DEF FlightOK
  <2>2. flight[1].age < L + Len(flight[1].slices)
    BY <2>0 DEF FlightOK, L
  <2>3. /\ flight[1].age \in Nat /\ flight[i].age \in Nat /\ Len(flight[1].slices) \in Nat
        /\ Len(flight[i].slices) \in Nat /\ Len(flight[i].slices) >= 1
        /\ Len(aged[i].slices) \in Nat
    BY <1>0, <1>2, <2>0, PacketFacts
  <2>4. aged[i].age = flight[i].age + 1 /\ Len(aged[i].slices) >= Len(flight[i].slices)
    BY <1>2
  <2>5. aged[i].age >= L + Len(aged[i].slices)
    BY <1>5 DEF L
  <2> QED  BY SMTT(20), <1>L, <2>1, <2>2, <2>3, <2>4, <2>5
<1>6. ASSUME NEW i \in 1 .. last, Out(aged[i])
      PROVE  flight[i].age + 1 >= L + Len(flight[i].slices)
  <2>1. /\ flight[i].age \in Nat /\ Len(flight[i].slices) \in Nat /\ Len(aged[i].slices) \in Nat
    BY <1>0, <1>2, PacketFacts
  <2>2. aged[i].age >= L + Len(aged[i].slices)
    BY <1>6 DEF L
  <2> QED  BY SMTT(20), <1>L, <1>2, <2>1, <2>2
<1>8. CASE last > 0 /\ Out(aged[1])
  <2>1. F = Tail(aged)
    BY <1>7, <1>8
  <2>2. aged # <<>>
    BY <1>3, <1>8
  <2>3. F \in Seq(Packet) /\ Len(F) = last - 1 /\ \A j \in 1 .. Len(F) : F[j] = aged[j + 1]
    BY <1>3, <2>1, <2>2, HeadTailProperties
  <2>4. \A j \in 1 .. Len(F) : j + 1 \in 1 .. last /\ j + 1 # 1
    BY <1>0, <2>3
  <2>5. FlightOK(F)
    <3>1. \A j \in 1 .. Len(F) : PacketOK(F[j])
      BY <1>2, <2>3, <2>4
    <3>2. \A j \in 1 .. Len(F) : F[j].age < Latency * NUM_LAYER + Len(F[j].slices)
      <4> TAKE j \in 1 .. Len(F)
      <4>1. ~(F[j].age >= L + Len(F[j].slices))
        BY <1>5, <2>3, <2>4 DEF L
      <4>2. F[j].age \in Nat /\ Len(F[j].slices) \in Nat
        BY <3>1, PacketFacts
      <4>3. F[j].age < L + Len(F[j].slices)
        BY <1>L, <4>1, <4>2
      <4> QED  BY <4>3 DEF L
    <3>3. \A i, j \in 1 .. Len(F) : i < j => F[i].age > F[j].age + Len(F[i].slices)
      BY <1>4, <2>3, <2>4
    <3> QED  BY <2>3, <3>1, <3>2, <3>3 DEF FlightOK
  <2>6. \A j \in 1 .. Len(F) : \E i \in 1 .. last : Grown(flight[i], F[j], layer, in)
    BY <1>2, <2>3, <2>4
  <2>7. ASSUME NEW i \in 1 .. last
        PROVE  \/ flight[i].age + 1 >= Latency * NUM_LAYER + Len(flight[i].slices)
               \/ \E j \in 1 .. Len(F) : Grown(flight[i], F[j], layer, in)
    <3>1. CASE i = 1
      BY <1>6, <1>8, <3>1 DEF L
    <3>2. CASE i # 1
      <4>1. i - 1 \in 1 .. Len(F) /\ F[i - 1] = aged[i]
        BY <1>0, <2>3, <3>2
      <4> QED  BY <1>2, <4>1
    <3> QED  BY <3>1, <3>2
  <2> QED  BY <2>5, <2>6, <2>7 DEF Moved
<1>9. CASE ~(last > 0 /\ Out(aged[1]))
  <2>1. F = aged
    BY <1>7, <1>9
  <2>2. \A j \in 1 .. last : aged[j].age < Latency * NUM_LAYER + Len(aged[j].slices)
    <3> TAKE j \in 1 .. last
    <3>1. ~(aged[j].age >= L + Len(aged[j].slices))
      BY <1>0, <1>5, <1>9 DEF L
    <3>2. aged[j].age \in Nat /\ Len(aged[j].slices) \in Nat
      BY <1>2, PacketFacts
    <3>3. aged[j].age < L + Len(aged[j].slices)
      BY <1>L, <3>1, <3>2
    <3> QED  BY <3>3 DEF L
  <2>3. FlightOK(F)
    BY <1>2, <1>3, <1>4, <2>1, <2>2 DEF FlightOK
  <2>4. \A j \in 1 .. Len(F) : \E i \in 1 .. last : Grown(flight[i], F[j], layer, in)
    BY <1>2, <1>3, <2>1
  <2>5. \A i \in 1 .. last : \E j \in 1 .. Len(F) : Grown(flight[i], F[j], layer, in)
    BY <1>2, <1>3, <2>1
  <2> QED  BY <2>3, <2>4, <2>5 DEF Moved
<1> QED  BY <1>8, <1>9

-----------------------------------------------------------------------------
(* What the registers of the pipeline hold.  Packet p has the slice that   *)
(* came t clocks ago.                                                      *)
Came(p, t) == p.age - t \in 0 .. Len(p.slices) - 1

(* A register of the head path holds the field values of the packet that   *)
(* is t clocks old, moved as the layers before layer k told, or nothing.   *)
HeadOf(r, t, k, fl) ==
  /\ r.valid <=> r.start
  /\ r.valid <=> \E i \in 1 .. Len(fl) : fl[i].age = t
  /\ ~r.valid => r = ZeroSlice
  /\ \A i \in 1 .. Len(fl) : fl[i].age = t =>
       r.data = Window(fl[i].head, HeadPos(fl[i].infos, k))

(* A register of the packet path has the flags of the slice that came t    *)
(* clocks ago.                                                             *)
FlagsOf(r, t, fl) ==
  /\ r.valid <=> \E i \in 1 .. Len(fl) : Came(fl[i], t)
  /\ ~r.valid => ~r.start /\ ~r.tail
  /\ \A i \in 1 .. Len(fl) : Came(fl[i], t) =>
       /\ r.start <=> fl[i].age = t
       /\ t > 1 => (r.tail <=> fl[i].age - t = Len(fl[i].slices) - 1)

(* The slice of packet p that is the base slice of layer k: the total of   *)
(* the meta shifts reaches a layer one layer late.                         *)
Base(p, k) == IF k = 1 THEN 0 ELSE MetaPos(p.infos, k - 1) \div CANDI_NUM

(* Where the fields of layer k of p are aimed at, counted from the start   *)
(* of the base slice.                                                      *)
Aim(p, k) ==
  IF k = 1 THEN p.replaces[1]
  ELSE [j \in KeyIds |-> (p.replaces[k][j] % RepOffsetMod) + (MetaPos(p.infos, k) % CANDI_NUM)]

AimedAt(p, k) == TargetsOf(p.infos[k].keyOffset_v, Aim(p, k))

FieldsOf(p, k) == ExtractKeys(Window(p.head, HeadPos(p.infos, k)), p.infos[k])

(* What a layer is told of the header of layer k of p.                     *)
InfoOf(info, p, k) ==
  /\ info.rst = p.infos[k]
  /\ info.target = AimedAt(p, k)
  /\ info.total = MetaPos(p.infos, k) % CANDI_NUM
  /\ info.totalCarry <=> Base(p, k + 1) = Base(p, k) + 1

(* The results and fields layer k holds of packet p.                       *)
RulesOf(l, p, k) ==
  /\ p.age = LookupAge(k) =>
       l.type = LookedAt(p, k) /\ l.key = FieldsOf(p, k) /\ InfoOf(l.info, p, k)
  /\ p.age = LookupAge(k) + 1 =>
       /\ l.sr.headShift = p.infos[k].headShift
       /\ l.s1.rst = p.infos[k + 1]
       /\ l.s1.replace = [j \in KeyIds |-> p.replaces[k + 1][j] % RepOffsetMod]
       /\ l.s1.total = MetaPos(p.infos, k + 1) % CANDI_NUM
       /\ l.s1.totalCarry <=> Base(p, k + 2) = Base(p, k + 1) + 1
  /\ p.age = LookupAge(k) + 2 => InfoOf(l.s2, p, k + 1)
  /\ Came(p, LookupAge(k) + 1) =>
       /\ l.sr.field = FieldsOf(p, k)
       /\ l.sr.target = AimedAt(p, k)
       /\ l.sr.toShift <=> Base(p, k + 1) = Base(p, k) + 1

LayerHolds(l, k, fl) ==
  /\ HeadOf(l.head, LookupAge(k), k, fl)
  /\ HeadOf(l.sr.preHead, LookupAge(k) + 1, k, fl)
  /\ HeadOf(l.sr.head, LookupAge(k) + 2, k + 1, fl)
  /\ FlagsOf(l.meta, LookupAge(k), fl)
  /\ FlagsOf(l.sr.preMeta, LookupAge(k) + 1, fl)
  /\ FlagsOf(l.sr.meta, LookupAge(k) + 2, fl)
  /\ \A i \in 1 .. Len(fl) : RulesOf(l, fl[i], k)

(* The targets of layer 0 are those of its fields, whatever was written:   *)
(* the host has not changed them.                                          *)
TargetsStay ==
  /\ \E c \in Configs : info0.rst.keyOffset_v = c.rst.keyOffset_v /\ replace0 = c.replace
  /\ latch0 = {u \in UnitIds : TargetsOf(info0.rst.keyOffset_v, replace0).v[u]}
  /\ info0.target = TargetsOf(info0.rst.keyOffset_v, replace0)
  /\ info0.total = 0 /\ ~info0.totalCarry

(* The invariant of what the layers know: every layer holds the packets in *)
(* flight at their places.                                                 *)
HeadsInv ==
  /\ FlightOK(flight)
  /\ TargetsStay
  /\ \A k \in Layers : LayerHolds(layer[k], k, flight)

LEMMA CameCases ==
  ASSUME NEW p, PacketOK(p), NEW t \in Nat
  PROVE  Came(p, t) <=> t <= p.age /\ p.age < t + Len(p.slices)
<1>1. p.age \in Nat /\ Len(p.slices) \in Nat
  BY PacketFacts
<1> QED  BY <1>1 DEF Came

LEMMA LayerAges ==
  /\ LookupAge(1) = 1
  /\ \A k \in Layers :
       /\ k \in Nat \ {0} /\ LookupAge(k) \in Nat \ {0} /\ k <= LookupAge(k)
       /\ LookupAge(k) + 1 < Latency * NUM_LAYER
       /\ k > 1 => k - 1 \in Layers /\ LookupAge(k) = LookupAge(k - 1) + 3
       /\ k < NUM_LAYER => LookupAge(k) + 2 < Latency * NUM_LAYER
  /\ NUM_LAYER \in Layers /\ LookupAge(NUM_LAYER) + 2 = Latency * NUM_LAYER
<1>1. NUM_LAYER \in Nat \ {0}
  BY TopAssumption
<1> QED  BY <1>1 DEF LookupAge, Latency, Layers

(* The packets are apart: where one is, and where one ends, no other one   *)
(* begins.                                                                 *)
LEMMA Apart ==
  ASSUME NEW fl, FlightOK(fl), NEW t \in Nat, NEW s \in {t, t + 1},
         NEW i \in 1 .. Len(fl), NEW j \in 1 .. Len(fl), Came(fl[i], s), Came(fl[j], t)
  PROVE  i = j
<1>1. /\ fl[i].age \in Nat /\ fl[j].age \in Nat
      /\ Len(fl[i].slices) \in Nat /\ Len(fl[j].slices) \in Nat
      /\ PacketOK(fl[i]) /\ PacketOK(fl[j])
  BY PacketFacts DEF FlightOK
<1>2. s <= fl[i].age /\ fl[i].age < s + Len(fl[i].slices)
  BY <1>1, CameCases
<1>3. t <= fl[j].age /\ fl[j].age < t + Len(fl[j].slices)
  BY <1>1, CameCases
<1>4. i < j => fl[i].age > fl[j].age + Len(fl[i].slices)
  BY DEF FlightOK
<1>5. j < i => fl[j].age > fl[i].age + Len(fl[j].slices)
  BY DEF FlightOK
<1>6. \A a, b, m, n \in Nat :
        /\ ~(s <= a /\ a < s + m /\ t <= b /\ a > b + m)
        /\ ~(s <= a /\ t <= b /\ b < t + n /\ b > a + n)
  OBVIOUS
<1>7. ~(i < j) /\ ~(j < i)
  BY <1>1, <1>2, <1>3, <1>4, <1>5, <1>6
<1>8. i \in Int /\ j \in Int
  OBVIOUS
<1> QED  BY <1>7, <1>8

LEMMA AgeCame ==
  ASSUME NEW p, PacketOK(p)
  PROVE  Came(p, p.age)
<1>1. p.age \in Nat /\ Len(p.slices) \in Nat /\ 1 <= Len(p.slices)
  BY PacketFacts
<1> QED  BY <1>1 DEF Came

(* A slice that has come stays the packet's, at its place.                 *)
LEMMA GrownCame ==
  ASSUME NEW p, PacketOK(p), NEW q, PacketOK(q), NEW lay, NEW in, in.data \in Data,
         Grown(p, q, lay, in), NEW t \in Nat \ {0}
  PROVE  /\ Came(q, t + 1) <=> Came(p, t)
         /\ q.age - (t + 1) = p.age - t
         /\ Came(p, t) /\ t > 1 =>
              (q.age - (t + 1) = Len(q.slices) - 1 <=> p.age - t = Len(p.slices) - 1)
         /\ Came(p, 1) => p.age = Len(p.slices)
<1>1. /\ p.age \in Nat /\ q.age = p.age + 1
      /\ Len(p.slices) \in Nat /\ 1 <= Len(p.slices) /\ Len(p.slices) <= p.age
      /\ p.slices \in Seq(Data)
  BY PacketFacts DEF Grown
<1>2. CASE p.age = Len(p.slices) /\ in.valid
  <2>1. Len(q.slices) = Len(p.slices) + 1
    BY <1>1, <1>2 DEF Grown
  <2> QED  BY <1>1, <1>2, <2>1 DEF Came
<1>3. CASE ~(p.age = Len(p.slices) /\ in.valid)
  <2>1. q.slices = p.slices
    BY <1>3 DEF Grown
  <2> QED  BY <1>1, <2>1 DEF Came
<1> QED  BY <1>2, <1>3

(* So does what has been read of it, for the slices to come are behind it. *)
LEMMA GrownFlat ==
  ASSUME NEW p, PacketOK(p), NEW q, PacketOK(q), NEW lay, NEW in, in.data \in Data,
         Grown(p, q, lay, in), NEW n \in Nat, n < Row(p.age)
  PROVE  Flat(q.slices, n) = Flat(p.slices, n)
<1>1. p.slices \in Seq(Data)
  BY PacketFacts
<1>2. CASE p.age = Len(p.slices) /\ in.valid
  BY <1>1, <1>2, FlatLemma DEF Grown
<1>3. CASE ~(p.age = Len(p.slices) /\ in.valid)
  BY <1>3 DEF Grown
<1> QED  BY <1>2, <1>3

LEMMA GrownPos ==
  ASSUME NEW p, PacketOK(p), NEW q, PacketOK(q), NEW lay, NEW in,
         Grown(p, q, lay, in)
  PROVE  \A k \in 1 .. Len(p.infos) + 1 :
           HeadPos(q.infos, k) = HeadPos(p.infos, k) /\ MetaPos(q.infos, k) = MetaPos(p.infos, k)
<1>1. p.infos \in Seq(LookupRst) /\ q.infos \in Seq(LookupRst)
  BY PacketFacts
<1> QED  BY <1>1, PositionsKept DEF Grown

LEMMA OldPacket ==
  ASSUME NEW fl, FlightOK(fl), NEW fl2, FlightOK(fl2), NEW lay, NEW in,
         Moved(fl, fl2, lay, in), NEW j \in 1 .. Len(fl2), fl2[j].age # 1
  PROVE  \E i \in 1 .. Len(fl) :
           /\ Grown(fl[i], fl2[j], lay, in) /\ PacketOK(fl[i]) /\ PacketOK(fl2[j])
           /\ fl[i].age \in Nat /\ fl2[j].age = fl[i].age + 1
BY PacketFacts DEF Moved, FlightOK, Grown

(* Where a slice is now, a clock ago it was at the stage before.           *)
LEMMA CameFrom ==
  ASSUME NEW fl, FlightOK(fl), NEW fl2, FlightOK(fl2), NEW lay, NEW in, in.data \in Data,
         Moved(fl, fl2, lay, in), NEW t \in Nat \ {0},
         NEW j \in 1 .. Len(fl2), Came(fl2[j], t + 1)
  PROVE  \E i \in 1 .. Len(fl) :
           /\ Grown(fl[i], fl2[j], lay, in) /\ Came(fl[i], t)
           /\ PacketOK(fl[i]) /\ PacketOK(fl2[j])
           /\ fl[i].age \in Nat /\ fl2[j].age = fl[i].age + 1
<1>1. PacketOK(fl2[j]) /\ fl2[j].age \in Nat
  BY PacketFacts DEF FlightOK
<1>2. fl2[j].age # 1
  BY <1>1 DEF Came
<1>3. PICK i \in 1 .. Len(fl) :
        /\ Grown(fl[i], fl2[j], lay, in) /\ PacketOK(fl[i]) /\ PacketOK(fl2[j])
        /\ fl[i].age \in Nat /\ fl2[j].age = fl[i].age + 1
  BY <1>2, OldPacket
<1>4. Came(fl[i], t)
  BY <1>3, GrownCame
<1> QED  BY <1>3, <1>4

(* And so does what its layers were told.                                  *)
LEMMA GrownRules ==
  ASSUME NEW p, PacketOK(p), NEW q, PacketOK(q), NEW lay, NEW in, Grown(p, q, lay, in)
  PROVE  /\ \A k \in 1 .. Len(p.infos) :
              /\ LookedAt(q, k) = LookedAt(p, k) /\ FieldsOf(q, k) = FieldsOf(p, k)
              /\ AimedAt(q, k) = AimedAt(p, k) /\ LayerFields(q, k) = LayerFields(p, k)
              /\ \A x : InfoOf(x, q, k) <=> InfoOf(x, p, k)
         /\ \A k \in 1 .. Len(p.infos) + 2 : Base(q, k) = Base(p, k)
<1>1. /\ q.head = p.head
      /\ \A n \in 1 .. Len(p.infos) : q.infos[n] = p.infos[n] /\ q.replaces[n] = p.replaces[n]
      /\ Len(p.infos) \in Nat /\ 1 <= Len(p.infos)
  BY PacketFacts DEF Grown
<1>2. \A k \in 1 .. Len(p.infos) + 1 :
        HeadPos(q.infos, k) = HeadPos(p.infos, k) /\ MetaPos(q.infos, k) = MetaPos(p.infos, k)
  BY GrownPos
<1>3. \A k \in 1 .. Len(p.infos) + 2 : k # 1 => k - 1 \in 1 .. Len(p.infos) + 1
  BY <1>1
<1>4. \A k \in 1 .. Len(p.infos) + 2 : Base(q, k) = Base(p, k)
  BY <1>2, <1>3 DEF Base
<1>5. ASSUME NEW k \in 1 .. Len(p.infos)
      PROVE  /\ LookedAt(q, k) = LookedAt(p, k) /\ FieldsOf(q, k) = FieldsOf(p, k)
             /\ AimedAt(q, k) = AimedAt(p, k) /\ LayerFields(q, k) = LayerFields(p, k)
             /\ \A x : InfoOf(x, q, k) <=> InfoOf(x, p, k)
  <2>1. /\ q.infos[k] = p.infos[k] /\ q.replaces[k] = p.replaces[k]
        /\ HeadPos(q.infos, k) = HeadPos(p.infos, k) /\ MetaPos(q.infos, k) = MetaPos(p.infos, k)
    BY <1>1, <1>2
  <2>2. LookedAt(q, k) = LookedAt(p, k) /\ FieldsOf(q, k) = FieldsOf(p, k)
    BY <1>1, <2>1 DEF LookedAt, FieldsOf
  <2>3. Aim(q, k) = Aim(p, k)
    BY <2>1 DEF Aim
  <2>4. AimedAt(q, k) = AimedAt(p, k)
    BY <2>1, <2>3 DEF AimedAt
  <2>5. LayerFields(q, k) = LayerFields(p, k)
    BY <1>1, <2>1 DEF LayerFields
  <2>6. Base(q, k) = Base(p, k) /\ Base(q, k + 1) = Base(p, k + 1)
    BY <1>1, <1>4
  <2>7. \A x : InfoOf(x, q, k) <=> InfoOf(x, p, k)
    BY <2>1, <2>4, <2>6 DEF InfoOf
  <2> QED  BY <2>2, <2>4, <2>5, <2>7
<1> QED  BY <1>4, <1>5

(* A register copied on a clock holds the same slice, one clock older.     *)
LEMMA HeadKept ==
  ASSUME NEW fl, FlightOK(fl), NEW fl2, FlightOK(fl2), NEW lay, NEW in, in.data \in Data,
         Moved(fl, fl2, lay, in),
         NEW t \in Nat \ {0}, t < Latency * NUM_LAYER, NEW k \in Nat \ {0},
         \A i \in 1 .. Len(fl) : fl[i].age = t => k <= Len(fl[i].infos) + 1,
         NEW r, HeadOf(r, t, k, fl)
  PROVE  HeadOf(r, t + 1, k, fl2)
<1>1. \A i \in 1 .. Len(fl) : PacketOK(fl[i]) /\ Len(fl[i].infos) \in Nat
  BY PacketFacts DEF FlightOK
<1>2. ASSUME NEW j \in 1 .. Len(fl2), fl2[j].age = t + 1
      PROVE  \E i \in 1 .. Len(fl) :
               /\ Grown(fl[i], fl2[j], lay, in) /\ fl[i].age = t
               /\ PacketOK(fl[i]) /\ PacketOK(fl2[j])
  <2>1. fl2[j].age # 1
    BY <1>2
  <2>2. PICK i \in 1 .. Len(fl) :
          /\ Grown(fl[i], fl2[j], lay, in) /\ PacketOK(fl[i]) /\ PacketOK(fl2[j])
          /\ fl[i].age \in Nat /\ fl2[j].age = fl[i].age + 1
    BY <2>1, OldPacket
  <2>3. fl[i].age = t
    BY <1>2, <2>2
  <2> QED  BY <2>2, <2>3
<1>3. ASSUME NEW i \in 1 .. Len(fl), fl[i].age = t
      PROVE  \E j \in 1 .. Len(fl2) : fl2[j].age = t + 1
  <2>1. ~(fl[i].age + 1 >= Latency * NUM_LAYER + Len(fl[i].slices))
    <3>1. Len(fl[i].slices) \in Nat /\ 1 <= Len(fl[i].slices) /\ Latency * NUM_LAYER \in Nat
      BY <1>1, PacketFacts, TopAssumption DEF Latency
    <3> HIDE DEF Latency
    <3> QED  BY <1>3, <3>1
  <2>2. PICK j \in 1 .. Len(fl2) : Grown(fl[i], fl2[j], lay, in)
    BY <2>1 DEF Moved
  <2> QED  BY <1>3, <2>2 DEF Grown
<1>4. r.valid <=> \E j \in 1 .. Len(fl2) : fl2[j].age = t + 1
  BY <1>2, <1>3 DEF HeadOf
<1>5. ASSUME NEW j \in 1 .. Len(fl2), fl2[j].age = t + 1
      PROVE  r.data = Window(fl2[j].head, HeadPos(fl2[j].infos, k))
  <2>1. PICK i \in 1 .. Len(fl) :
          /\ Grown(fl[i], fl2[j], lay, in) /\ fl[i].age = t
          /\ PacketOK(fl[i]) /\ PacketOK(fl2[j])
    BY <1>2, <1>5
  <2>2. k \in 1 .. Len(fl[i].infos) + 1
    BY <1>1, <2>1
  <2>3. HeadPos(fl2[j].infos, k) = HeadPos(fl[i].infos, k)
    BY <2>1, <2>2, GrownPos
  <2>4. fl2[j].head = fl[i].head
    BY <2>1 DEF Grown
  <2> QED  BY <2>1, <2>3, <2>4 DEF HeadOf
<1> QED  BY <1>4, <1>5 DEF HeadOf

LEMMA FlagsKept ==
  ASSUME NEW fl, FlightOK(fl), NEW fl2, FlightOK(fl2), NEW lay, NEW in, in.data \in Data,
         Moved(fl, fl2, lay, in),
         NEW t \in Nat \ {0}, t < Latency * NUM_LAYER,
         NEW r, FlagsOf(r, t, fl), t = 1 /\ r.valid => (r.tail <=> ~in.valid)
  PROVE  FlagsOf(r, t + 1, fl2)
<1>1. \A i \in 1 .. Len(fl) : PacketOK(fl[i])
  BY DEF FlightOK
<1>2. \A j \in 1 .. Len(fl2) : PacketOK(fl2[j])
  BY DEF FlightOK
<1>3. \A j \in 1 .. Len(fl2) : Came(fl2[j], t + 1) =>
        \E i \in 1 .. Len(fl) : Grown(fl[i], fl2[j], lay, in) /\ Came(fl[i], t)
  BY CameFrom
<1>4. ASSUME NEW i \in 1 .. Len(fl), Came(fl[i], t)
      PROVE  \E j \in 1 .. Len(fl2) : Came(fl2[j], t + 1)
  <2>1. ~(fl[i].age + 1 >= Latency * NUM_LAYER + Len(fl[i].slices))
    <3>1. fl[i].age \in Nat /\ Len(fl[i].slices) \in Nat /\ Latency * NUM_LAYER \in Nat
      BY <1>1, PacketFacts, TopAssumption DEF Latency
    <3> HIDE DEF Latency
    <3> QED  BY <1>4, <3>1 DEF Came
  <2>2. PICK j \in 1 .. Len(fl2) : Grown(fl[i], fl2[j], lay, in)
    BY <2>1 DEF Moved
  <2> QED  BY <1>1, <1>2, <1>4, <2>2, GrownCame
<1>5. r.valid <=> \E j \in 1 .. Len(fl2) : Came(fl2[j], t + 1)
  BY <1>3, <1>4 DEF FlagsOf
<1>6. ASSUME NEW j \in 1 .. Len(fl2), Came(fl2[j], t + 1)
      PROVE  /\ r.start <=> fl2[j].age = t + 1
             /\ r.tail <=> fl2[j].age - (t + 1) = Len(fl2[j].slices) - 1
  <2>1. PICK i \in 1 .. Len(fl) : Grown(fl[i], fl2[j], lay, in) /\ Came(fl[i], t)
    BY <1>3, <1>6
  <2> DEFINE p == fl[i]
             q == fl2[j]
  <2>2. PacketOK(p) /\ PacketOK(q) /\ Grown(p, q, lay, in) /\ Came(p, t)
    BY <1>1, <1>2, <2>1
  <2>3. /\ r.valid
        /\ r.start <=> p.age = t
        /\ t > 1 => (r.tail <=> p.age - t = Len(p.slices) - 1)
    BY <2>1 DEF FlagsOf
  <2> HIDE DEF p, q
  <2>4. /\ p.age \in Nat /\ q.age = p.age + 1
        /\ p.slices \in Seq(Data) /\ Len(p.slices) \in Nat
    BY <2>2, PacketFacts DEF Grown
  <2>5. r.start <=> q.age = t + 1
    BY <2>3, <2>4
  <2>7. r.tail <=> q.age - (t + 1) = Len(q.slices) - 1
    <3>1. CASE t > 1
      BY SMTT(20), <2>2, <2>3, <3>1, GrownCame
    <3>2. CASE t = 1
      <4>1. p.age = Len(p.slices)
        BY <2>2, <3>2, GrownCame
      <4>2. CASE in.valid
        <5>1. Len(q.slices) = Len(p.slices) + 1
          BY <2>2, <2>4, <4>1, <4>2 DEF Grown
        <5> QED  BY <2>3, <2>4, <3>2, <4>1, <4>2, <5>1
      <4>3. CASE ~in.valid
        <5>1. q.slices = p.slices
          BY <2>2, <4>3 DEF Grown
        <5> QED  BY <2>3, <2>4, <3>2, <4>1, <4>3, <5>1
      <4> QED  BY <4>2, <4>3
    <3> QED  BY <3>1, <3>2
  <2> QED  BY <2>5, <2>7 DEF p, q
<1>7. ~r.valid => ~r.start /\ ~r.tail
  BY DEF FlagsOf
<1> QED  BY <1>5, <1>6, <1>7 DEF FlagsOf

(* The remainder and the carry of a running total say where it is.         *)
LEMMA DivRow ==
  ASSUME NEW k \in Nat, NEW u \in UnitIds
  PROVE  (Row(k) + u) \div CANDI_NUM = k /\ (Row(k) + u) % CANDI_NUM = u
<1> DEFINE n == k * CANDI_NUM + u
           d == n \div CANDI_NUM
           r == n % CANDI_NUM
<1>1. CANDI_NUM \in Nat \ {0} /\ u \in 0 .. CANDI_NUM - 1 /\ n \in Int
  BY WidthAssumption DEF UnitIds
<1>2. n = CANDI_NUM * d + r /\ d \in Int /\ r \in 0 .. CANDI_NUM - 1
  BY <1>1
<1>3. n = CANDI_NUM * k + u
  BY <1>1
<1> HIDE DEF n, d, r
<1> DEFINE m == d - k
<1>4. CANDI_NUM * m = u - r
  <2>1. CANDI_NUM * m = CANDI_NUM * d - CANDI_NUM * k
    BY <1>1, <1>2
  <2> QED  BY <1>1, <1>2, <1>3, <2>1
<1>5. m \in Int /\ CANDI_NUM * m < CANDI_NUM /\ CANDI_NUM * m > -CANDI_NUM
  BY <1>1, <1>2, <1>4
<1>6. d = k + m
  BY <1>2
<1> HIDE DEF m
<1>7. /\ m >= 1 => CANDI_NUM * m >= CANDI_NUM
      /\ m <= -1 => CANDI_NUM * m <= -CANDI_NUM
  BY <1>1, <1>5
<1>8. m = 0
  BY <1>1, <1>5, <1>7
<1>9. d = k /\ r = u
  BY <1>1, <1>2, <1>4, <1>6, <1>8
<1> QED  BY <1>9 DEF Row, n, d, r

LEMMA Carried ==
  ASSUME NEW a \in Nat, NEW s \in UnitIds
  PROVE  /\ (s + (a % CANDI_NUM)) % CANDI_NUM = (a + s) % CANDI_NUM
         /\ s + (a % CANDI_NUM) >= CANDI_NUM <=>
              (a + s) \div CANDI_NUM = (a \div CANDI_NUM) + 1
         /\ (a + s) \div CANDI_NUM \in {a \div CANDI_NUM, (a \div CANDI_NUM) + 1}
         /\ a \div CANDI_NUM \in Nat /\ a % CANDI_NUM \in UnitIds
         /\ a = Row(a \div CANDI_NUM) + (a % CANDI_NUM)
<1>1. PICK d \in Nat, r \in UnitIds : a = Row(d) + r
  BY RowOf
<1>2. a \div CANDI_NUM = d /\ a % CANDI_NUM = r
  BY <1>1, DivRow
<1>3. /\ CANDI_NUM \in Nat \ {0} /\ s \in 0 .. CANDI_NUM - 1 /\ r \in 0 .. CANDI_NUM - 1
      /\ Row(d) \in Nat /\ Row(d + 1) = Row(d) + CANDI_NUM /\ Row(0) = 0 /\ d + 1 \in Nat
  BY <1>1, RowLemma, WidthAssumption DEF UnitIds
<1>4. CASE s + r < CANDI_NUM
  <2>1. s + r \in UnitIds /\ a + s = Row(d) + (s + r) /\ s + r = Row(0) + (s + r)
    BY <1>1, <1>3, <1>4 DEF UnitIds
  <2>2. (a + s) \div CANDI_NUM = d /\ (a + s) % CANDI_NUM = s + r
    BY <1>1, <2>1, DivRow
  <2>3. (s + r) % CANDI_NUM = s + r
    BY <2>1, DivRow
  <2>4. ~(s + r >= CANDI_NUM) /\ d # d + 1
    BY <1>1, <1>3, <1>4
  <2> QED  BY <1>1, <1>2, <2>2, <2>3, <2>4
<1>5. CASE ~(s + r < CANDI_NUM)
  <2> DEFINE u == s + r - CANDI_NUM
  <2>1. /\ u \in UnitIds /\ a + s = Row(d + 1) + u /\ s + r = Row(1) + u
        /\ s + r >= CANDI_NUM
    <3>1. Row(1) = CANDI_NUM
      BY <1>3 DEF Row
    <3> QED  BY <1>1, <1>3, <1>5, <3>1 DEF UnitIds
  <2> HIDE DEF u
  <2>2. (a + s) \div CANDI_NUM = d + 1 /\ (a + s) % CANDI_NUM = u
    <3>1. (Row(d + 1) + u) \div CANDI_NUM = d + 1 /\ (Row(d + 1) + u) % CANDI_NUM = u
      BY <1>3, <2>1, DivRow
    <3> QED  BY <2>1, <3>1
  <2>3. (s + r) % CANDI_NUM = u
    <3>1. (Row(1) + u) % CANDI_NUM = u
      BY <2>1, DivRow
    <3> QED  BY <2>1, <3>1
  <2> QED  BY <1>1, <1>2, <2>1, <2>2, <2>3
<1> QED  BY <1>4, <1>5

(* The base slice is that of the layer before or the one behind it.        *)
LEMMA BaseStep ==
  ASSUME NEW p, PacketOK(p), NEW k \in 1 .. Len(p.infos) + 1
  PROVE  /\ Base(p, k) \in Nat
         /\ Base(p, k + 1) = MetaPos(p.infos, k) \div CANDI_NUM
         /\ Base(p, k + 1) \in {Base(p, k), Base(p, k) + 1}
<1>1. p.infos \in Seq(LookupRst) /\ Len(p.infos) \in Nat
  BY PacketFacts
<1>2. MetaPos(p.infos, 1) = 0 /\ MetaPos(p.infos, k) \in Nat /\ CANDI_NUM \in Nat \ {0}
  BY <1>1, Positions, WidthAssumption
<1>3. Base(p, k + 1) = MetaPos(p.infos, k) \div CANDI_NUM
  <2>1. k + 1 # 1 /\ (k + 1) - 1 = k
    BY <1>1
  <2> QED  BY <2>1 DEF Base
<1>4. CASE k = 1
  <2>1. 0 = Row(0) + 0 /\ 0 \in UnitIds
    BY RowLemma, ConstantTypes
  <2>2. 0 \div CANDI_NUM = 0
    BY <2>1, DivRow
  <2> QED  BY <1>2, <1>3, <1>4, <2>2 DEF Base
<1>5. CASE k # 1
  <2> DEFINE n == k - 1
  <2>1. n \in 1 .. Len(p.infos) /\ n + 1 = k
    BY <1>1, <1>5
  <2>2. /\ MetaPos(p.infos, k) = MetaPos(p.infos, n) + p.infos[n].metaShift
        /\ MetaPos(p.infos, n) \in Nat
    <3>1. MetaPos(p.infos, n + 1) = MetaPos(p.infos, n) + p.infos[n].metaShift
      BY <1>1, <2>1, Positions
    <3>2. n \in 1 .. Len(p.infos) + 1
      BY <1>1, <2>1
    <3>3. MetaPos(p.infos, n) \in Nat
      BY <1>1, <3>2, Positions
    <3> QED  BY <2>1, <3>1, <3>3
  <2>3. p.infos[n].metaShift \in UnitIds
    <3>1. p.infos[n] \in LookupRst
      BY <1>1, <2>1
    <3> QED  BY <3>1 DEF LookupRst
  <2>4. Base(p, k) = MetaPos(p.infos, n) \div CANDI_NUM
    BY <1>5 DEF Base
  <2> HIDE DEF n
  <2> QED  BY <1>3, <2>2, <2>3, <2>4, Carried
<1> QED  BY <1>3, <1>4, <1>5

(* Shift_Replace_Head makes, of the field values of a packet, those the    *)
(* next layer is to see; nothing follows them.                             *)
LEMMA HeadShifted ==
  ASSUME NEW fl, FlightOK(fl), NEW k \in Nat \ {0}, NEW t \in Nat \ {0},
         \A i \in 1 .. Len(fl) : fl[i].age = t + 1 => k <= Len(fl[i].infos),
         NEW sr \in ShiftReplaceRegs, NEW ih \in Slice,
         HeadOf(sr.preHead, t + 1, k, fl), HeadOf(ih, t, k, fl),
         \A i \in 1 .. Len(fl) : fl[i].age = t + 1 => sr.headShift = fl[i].infos[k].headShift
  PROVE  HeadOf(MovedHead(sr, ih), t + 1, k + 1, fl)
<1> DEFINE pre == sr.preHead
           s == sr.headShift
           out == MovedHead(sr, ih)
<1>1. pre \in Slice /\ s \in UnitIds
  BY DEF ShiftReplaceRegs
<1>2. /\ out.valid = pre.valid /\ out.start = pre.start
      /\ pre.valid => out.data = ShiftedData(pre.data, ih.data, s)
      /\ ~pre.valid => out = pre
  BY <1>1 DEF MovedHead, Slice
<1>3. \A i \in 1 .. Len(fl) : PacketOK(fl[i])
  BY DEF FlightOK
<1>4. ASSUME NEW i \in 1 .. Len(fl), fl[i].age = t + 1
      PROVE  out.data = Window(fl[i].head, HeadPos(fl[i].infos, k + 1))
  <2> DEFINE p == fl[i]
             pos == HeadPos(p.infos, k)
  <2>1. /\ p.infos \in Seq(LookupRst) /\ Len(p.infos) \in Nat /\ k \in 1 .. Len(p.infos)
        /\ p.head \in Seq(Data) /\ Len(p.head) = 1
    BY <1>3, <1>4, PacketFacts, PacketHead
  <2>2. HeadPos(p.infos, k + 1) = pos + s /\ pos \in Nat
    <3>1. HeadPos(p.infos, k + 1) = pos + p.infos[k].headShift
      BY <2>1, Positions
    <3>2. k \in 1 .. Len(p.infos) + 1
      BY <2>1
    <3>3. pos \in Nat
      BY <2>1, <3>2, Positions
    <3>4. s = p.infos[k].headShift
      BY <1>4
    <3> QED  BY <3>1, <3>3, <3>4
  <2>3. pre.valid /\ pre.data = Window(p.head, pos)
    BY <1>4 DEF HeadOf
  <2>4. ih.data = ZeroData
    <3>1. ASSUME NEW j \in 1 .. Len(fl), fl[j].age = t PROVE FALSE
      <4>1. Came(fl[i], t + 1) /\ Came(fl[j], t)
        BY <1>3, <1>4, <3>1, AgeCame
      <4>2. i = j
        BY <4>1, Apart
      <4> QED  BY <1>4, <3>1, <4>2
    <3>2. ih = ZeroSlice
      BY <3>1 DEF HeadOf
    <3> QED  BY <3>2 DEF ZeroSlice
  <2>5. pos + CANDI_NUM >= Row(Len(p.head))
    BY <2>1, <2>2, WidthAssumption DEF Row
  <2> HIDE DEF p, pos, s, pre
  <2>6. ShiftedData(Window(p.head, pos), ZeroData, s) = Window(p.head, pos + s)
    BY <1>1, <2>1, <2>2, <2>5, WindowShifted
  <2>7. out.data = Window(p.head, HeadPos(p.infos, k + 1))
    BY <1>2, <2>2, <2>3, <2>4, <2>6
  <2> QED  BY <2>7 DEF p
<1>5. /\ pre.valid <=> pre.start
      /\ pre.valid <=> \E i \in 1 .. Len(fl) : fl[i].age = t + 1
      /\ ~pre.valid => pre = ZeroSlice
  BY DEF HeadOf
<1> HIDE DEF out, pre
<1>6. HeadOf(out, t + 1, k + 1, fl)
  BY <1>2, <1>4, <1>5 DEF HeadOf
<1> QED  BY <1>6 DEF out

(* What arrives at layer k on a clock, seen after it.                      *)
InputHolds(input, k, fl) ==
  /\ HeadOf(input.head, LookupAge(k), k, fl)
  /\ FlagsOf(input.meta, LookupAge(k), fl)
  /\ \A i \in 1 .. Len(fl) : fl[i].age = LookupAge(k) => InfoOf(input.info, fl[i], k)

(* One clock of what layer k knows of the packets.                         *)
LEMMA RulesStep ==
  ASSUME NEW fl, FlightOK(fl), NEW fl2, FlightOK(fl2), NEW lay, NEW in, in.data \in Data,
         Moved(fl, fl2, lay, in), lay \in [Layers -> DepLayerRegs], NEW k \in Layers,
         LayerHolds(lay[k], k, fl), NEW input, input \in DepLayerInfo, InputHolds(input, k, fl2),
         NEW w, NEW j \in 1 .. Len(fl2)
  PROVE  RulesOf(DepLayerClock(lay[k], input, w), fl2[j], k)
<1>A. LookupAge(k) \in Nat \ {0}
  BY LayerAges
<1>C. \A n \in 1 .. Len(fl2) : Came(fl2[n], LookupAge(k) + 1) =>
        \E i \in 1 .. Len(fl) :
          /\ Grown(fl[i], fl2[n], lay, in) /\ Came(fl[i], LookupAge(k))
          /\ PacketOK(fl[i]) /\ fl[i].age \in Nat /\ fl2[n].age = fl[i].age + 1
  BY <1>A, CameFrom
<1> DEFINE l == lay[k]
           t == LookupAge(k)
           m == DepLayerClock(l, input, w)
           q == fl2[j]
<1>O. q.age # 1 =>
        \E i \in 1 .. Len(fl) :
          /\ Grown(fl[i], q, lay, in) /\ PacketOK(fl[i])
          /\ fl[i].age \in Nat /\ q.age = fl[i].age + 1
  BY OldPacket
<1>1. /\ m.type = ExtractTypes(input.head.data, input.info.rst)
      /\ m.key = ExtractKeys(input.head.data, input.info.rst)
      /\ m.info = input.info
      /\ m.s1 = [rst |-> LookupType(l.table, l.type), replace |-> LookupReplace(l.table, l.type),
                 total |-> Total(l.info) % CANDI_NUM, totalCarry |-> Total(l.info) >= CANDI_NUM]
      /\ m.s2 = [rst |-> l.s1.rst,
                 target |-> TargetsOf(l.s1.rst.keyOffset_v,
                              [n \in KeyIds |-> l.s1.replace[n] + l.s1.total]),
                 total |-> l.s1.total, totalCarry |-> l.s1.totalCarry]
      /\ m.sr.headShift = IF l.head.start THEN l.info.rst.headShift ELSE l.sr.headShift
      /\ m.sr.toShift = IF l.head.start THEN l.info.totalCarry ELSE l.sr.toShift
      /\ m.sr.field = IF l.head.start THEN l.key ELSE l.sr.field
      /\ m.sr.target = IF l.head.start THEN l.info.target ELSE l.sr.target
  BY DEF DepLayerClock, ShiftReplaceClock
<1>2. t \in Nat \ {0} /\ k \in Nat \ {0}
  BY LayerAges
<1>3. l \in DepLayerRegs /\ l.table \in Tables
  BY DEF DepLayerRegs, Tables
<1>4. PacketOK(q) /\ q.age \in Nat /\ \A i \in 1 .. Len(fl) : PacketOK(fl[i])
  BY PacketFacts DEF FlightOK
<1>H. HeadOf(l.head, t, k, fl) /\ \A i \in 1 .. Len(fl) : RulesOf(l, fl[i], k)
  BY DEF LayerHolds
<1>I. HeadOf(input.head, t, k, fl2) /\ (q.age = t => InfoOf(input.info, q, k))
  BY DEF InputHolds
<1> HIDE DEF m, l, t
<1>5. \A i \in 1 .. Len(fl) : fl[i].age >= t => k \in 1 .. Len(fl[i].infos)
  <2> SUFFICES ASSUME NEW i \in 1 .. Len(fl), fl[i].age >= t
               PROVE  k \in 1 .. Len(fl[i].infos)
    OBVIOUS
  <2>1. Len(fl[i].infos) \in Nat /\ (fl[i].age >= LookupAge(k) => k <= Len(fl[i].infos))
    BY <1>4, PacketFacts
  <2> QED  BY <1>2, <2>1 DEF t
<1>6. \A i \in 1 .. Len(fl) : fl[i].age >= t + 1 => k + 1 \in 1 .. Len(fl[i].infos)
  <2> SUFFICES ASSUME NEW i \in 1 .. Len(fl), fl[i].age >= t + 1
               PROVE  k + 1 \in 1 .. Len(fl[i].infos)
    OBVIOUS
  <2>1. Len(fl[i].infos) \in Nat /\ fl[i].age \in Nat
    BY <1>4, PacketFacts
  <2>2. LookupAge(k) < fl[i].age
    BY <1>2, <2>1 DEF t
  <2>3. k + 1 <= Len(fl[i].infos)
    BY <1>4, <2>2 DEF PacketOK
  <2> QED  BY <1>2, <2>1, <2>3
<1>7. ASSUME q.age = t
      PROVE  m.type = LookedAt(q, k) /\ m.key = FieldsOf(q, k) /\ InfoOf(m.info, q, k)
  <2>1. InfoOf(input.info, q, k) /\ input.info.rst = q.infos[k]
    BY <1>I, <1>7 DEF InfoOf
  <2>2. input.head.data = Window(q.head, HeadPos(q.infos, k))
    BY <1>I, <1>7 DEF HeadOf
  <2> QED  BY <1>1, <2>1, <2>2 DEF LookedAt, FieldsOf
<1>8. ASSUME q.age = t + 1
      PROVE  /\ m.sr.headShift = q.infos[k].headShift
             /\ m.s1.rst = q.infos[k + 1]
             /\ m.s1.replace = [n \in KeyIds |-> q.replaces[k + 1][n] % RepOffsetMod]
             /\ m.s1.total = MetaPos(q.infos, k + 1) % CANDI_NUM
             /\ m.s1.totalCarry <=> Base(q, k + 2) = Base(q, k + 1) + 1
  <2>1. PICK i \in 1 .. Len(fl) :
          /\ Grown(fl[i], q, lay, in) /\ PacketOK(fl[i])
          /\ fl[i].age \in Nat /\ q.age = fl[i].age + 1
    BY <1>2, <1>8, <1>O
  <2> DEFINE p == fl[i]
  <2>2. p.age = t
    BY <1>2, <1>8, <2>1
  <2>3. k \in 1 .. Len(p.infos) /\ Len(p.infos) \in Nat /\ p.infos \in Seq(LookupRst)
    BY <1>2, <1>5, <2>1, <2>2, PacketFacts
  <2>4. l.type = LookedAt(p, k) /\ InfoOf(l.info, p, k)
    BY <1>H, <2>2 DEF RulesOf, t
  <2>5. /\ q.infos[k + 1] = LookupType(l.table, LookedAt(p, k))
        /\ q.replaces[k + 1] = FullReplace(l.table, LookedAt(p, k))
        /\ q.infos[k] = p.infos[k]
    BY <2>1, <2>2, <2>3 DEF Grown, l, t
  <2>6. l.head.start
    BY <1>H, <2>2 DEF HeadOf
  <2>7. m.sr.headShift = q.infos[k].headShift /\ m.s1.rst = q.infos[k + 1]
    BY <1>1, <2>4, <2>5, <2>6 DEF InfoOf
  <2>8. m.s1.replace = [n \in KeyIds |-> q.replaces[k + 1][n] % RepOffsetMod]
    <3>1. LookupReplace(l.table, l.type) =
            [n \in KeyIds |-> FullReplace(l.table, l.type)[n] % RepOffsetMod]
      BY <1>3, ReplaceTyped
    <3> QED  BY <1>1, <2>4, <2>5, <3>1
  <2>9. /\ MetaPos(q.infos, k + 1) = MetaPos(p.infos, k) + p.infos[k].metaShift
        /\ MetaPos(p.infos, k) \in Nat /\ p.infos[k].metaShift \in UnitIds
    <3>1. k + 1 \in 1 .. Len(p.infos) + 1 /\ k \in 1 .. Len(p.infos) + 1
      BY <2>3
    <3>2. MetaPos(q.infos, k + 1) = MetaPos(p.infos, k + 1)
      BY <1>4, <2>1, <3>1, GrownPos
    <3>3. /\ MetaPos(p.infos, k + 1) = MetaPos(p.infos, k) + p.infos[k].metaShift
          /\ MetaPos(p.infos, k) \in Nat
      BY <2>3, <3>1, Positions
    <3>4. p.infos[k].metaShift \in UnitIds
      <4>1. p.infos[k] \in LookupRst
        BY <2>1, <2>3, PacketHead
      <4> QED  BY <4>1 DEF LookupRst
    <3> QED  BY <3>2, <3>3, <3>4
  <2>10. Total(l.info) = p.infos[k].metaShift + (MetaPos(p.infos, k) % CANDI_NUM)
    BY <2>4 DEF InfoOf, Total
  <2>11. m.s1.total = MetaPos(q.infos, k + 1) % CANDI_NUM
    BY <1>1, <2>9, <2>10, Carried
  <2>12. m.s1.totalCarry <=> Base(q, k + 2) = Base(q, k + 1) + 1
    <3>1. k + 1 \in 1 .. Len(p.infos) + 2 /\ k + 2 \in 1 .. Len(p.infos) + 2
      BY <2>3
    <3>2. Base(q, k + 1) = Base(p, k + 1) /\ Base(q, k + 2) = Base(p, k + 2)
      BY <1>4, <2>1, <3>1, GrownRules
    <3>3. k + 1 \in 1 .. Len(p.infos) + 1 /\ k \in 1 .. Len(p.infos) + 1 /\ (k + 1) + 1 = k + 2
      BY <2>3
    <3>4. /\ Base(p, k + 1) = MetaPos(p.infos, k) \div CANDI_NUM
          /\ Base(p, k + 2) = MetaPos(p.infos, k + 1) \div CANDI_NUM
      BY <2>1, <3>3, BaseStep
    <3>5. MetaPos(p.infos, k + 1) = MetaPos(p.infos, k) + p.infos[k].metaShift
      BY <2>3, Positions
    <3>6. m.s1.totalCarry = (Total(l.info) >= CANDI_NUM)
      BY <1>1
    <3> DEFINE a == MetaPos(p.infos, k)
               z == p.infos[k].metaShift
    <3>7. z + (a % CANDI_NUM) >= CANDI_NUM <=> (a + z) \div CANDI_NUM = (a \div CANDI_NUM) + 1
      BY <2>9, Carried
    <3>8. Base(q, k + 1) = a \div CANDI_NUM /\ Base(q, k + 2) = (a + z) \div CANDI_NUM
      BY <3>2, <3>4, <3>5
    <3>9. Total(l.info) = z + (a % CANDI_NUM)
      BY <2>10
    <3> HIDE DEF a, z
    <3> QED  BY <3>6, <3>7, <3>8, <3>9
  <2> QED  BY <2>7, <2>8, <2>11, <2>12
<1>9. ASSUME q.age = t + 2 PROVE InfoOf(m.s2, q, k + 1)
  <2>1. PICK i \in 1 .. Len(fl) :
          /\ Grown(fl[i], q, lay, in) /\ PacketOK(fl[i])
          /\ fl[i].age \in Nat /\ q.age = fl[i].age + 1
    BY <1>2, <1>9, <1>O
  <2> DEFINE p == fl[i]
  <2>2. p.age = t + 1
    BY <1>2, <1>9, <2>1
  <2>3. k + 1 \in 1 .. Len(p.infos) /\ Len(p.infos) \in Nat
    BY <1>2, <1>6, <2>1, <2>2, PacketFacts
  <2>4. /\ l.s1.rst = p.infos[k + 1]
        /\ l.s1.replace = [n \in KeyIds |-> p.replaces[k + 1][n] % RepOffsetMod]
        /\ l.s1.total = MetaPos(p.infos, k + 1) % CANDI_NUM
        /\ l.s1.totalCarry <=> Base(p, k + 2) = Base(p, k + 1) + 1
    BY <1>H, <2>2 DEF RulesOf, t
  <2>5. [n \in KeyIds |-> l.s1.replace[n] + l.s1.total] = Aim(p, k + 1)
    BY <1>2, <2>4 DEF Aim
  <2>6. (k + 1) + 1 = k + 2
    BY <1>2
  <2>7. InfoOf(m.s2, p, k + 1)
    <3>1. m.s2.rst = p.infos[k + 1] /\ m.s2.total = MetaPos(p.infos, k + 1) % CANDI_NUM
      BY <1>1, <2>4
    <3>2. m.s2.totalCarry <=> Base(p, (k + 1) + 1) = Base(p, k + 1) + 1
      BY <1>1, <2>4, <2>6
    <3>3. m.s2.target = AimedAt(p, k + 1)
      <4>1. m.s2.target = TargetsOf(l.s1.rst.keyOffset_v,
                                    [n \in KeyIds |-> l.s1.replace[n] + l.s1.total])
        BY <1>1
      <4>2. m.s2.target = TargetsOf(p.infos[k + 1].keyOffset_v, Aim(p, k + 1))
        BY <2>4, <2>5, <4>1
      <4> QED  BY <4>2 DEF AimedAt
    <3> QED  BY <3>1, <3>2, <3>3 DEF InfoOf
  <2> QED  BY <1>4, <2>1, <2>3, <2>7, GrownRules
<1>10. ASSUME Came(q, t + 1)
       PROVE  /\ m.sr.field = FieldsOf(q, k)
              /\ m.sr.target = AimedAt(q, k)
              /\ m.sr.toShift <=> Base(q, k + 1) = Base(q, k) + 1
  <2>1. PICK i \in 1 .. Len(fl) :
          /\ Grown(fl[i], q, lay, in) /\ Came(fl[i], t)
          /\ PacketOK(fl[i]) /\ fl[i].age \in Nat /\ q.age = fl[i].age + 1
    BY <1>10, <1>C DEF t
  <2> DEFINE p == fl[i]
  <2>2. p.age >= t /\ Len(p.slices) \in Nat /\ Len(p.infos) \in Nat
    BY <1>2, <2>1, PacketFacts, CameCases
  <2>3. k \in 1 .. Len(p.infos)
    BY <1>5, <2>2
  <2>4. /\ FieldsOf(q, k) = FieldsOf(p, k) /\ AimedAt(q, k) = AimedAt(p, k)
        /\ Base(q, k + 1) = Base(p, k + 1) /\ Base(q, k) = Base(p, k)
    <3>1. k \in 1 .. Len(p.infos) + 2 /\ k + 1 \in 1 .. Len(p.infos) + 2
      BY <2>2, <2>3
    <3> QED  BY <1>4, <2>1, <2>3, <3>1, GrownRules
  <2>5. RulesOf(l, p, k)
    BY <1>H
  <2>6. CASE p.age = t
    <3>1. l.head.start /\ l.key = FieldsOf(p, k) /\ InfoOf(l.info, p, k)
      BY <1>H, <2>5, <2>6 DEF HeadOf, RulesOf, t
    <3> QED  BY <1>1, <2>4, <3>1 DEF InfoOf
  <2>7. CASE p.age # t
    <3>1. Came(p, t + 1)
      <4>1. t <= p.age /\ p.age < t + Len(p.slices)
        BY <1>2, <2>1, CameCases
      <4>2. t + 1 <= p.age /\ p.age < (t + 1) + Len(p.slices) /\ t + 1 \in Nat
        <5>1. \A a, n, c \in Nat :
                c <= a /\ a < c + n /\ a # c => c + 1 <= a /\ a < (c + 1) + n /\ c + 1 \in Nat
          OBVIOUS
        <5>2. t \in Nat /\ p.age \in Nat
          BY <1>2, <2>1
        <5> HIDE DEF p
        <5> QED  BY <2>2, <2>7, <4>1, <5>1, <5>2
      <4> HIDE DEF p
      <4> QED  BY <2>1, <4>2, CameCases DEF p
    <3>2. ~l.head.start
      <4>1. ASSUME NEW n \in 1 .. Len(fl), fl[n].age = t PROVE FALSE
        <5>1. Came(fl[n], t)
          BY <1>4, <4>1, AgeCame
        <5>2. i = n
          BY <1>2, <3>1, <5>1, Apart
        <5> QED  BY <2>7, <4>1, <5>2
      <4> QED  BY <1>H, <4>1 DEF HeadOf
    <3>3. /\ l.sr.field = FieldsOf(p, k)
          /\ l.sr.target = AimedAt(p, k)
          /\ l.sr.toShift <=> Base(p, k + 1) = Base(p, k) + 1
      BY <2>5, <3>1 DEF RulesOf, t
    <3> QED  BY <1>1, <2>4, <3>2, <3>3
  <2> QED  BY <2>6, <2>7
<1>11. RulesOf(m, q, k)
  BY <1>7, <1>8, <1>9, <1>10 DEF RulesOf, t
<1> QED  BY <1>11 DEF m, l

(* One clock of a layer.                                                   *)
LEMMA LayerStep ==
  ASSUME NEW fl, FlightOK(fl), NEW fl2, FlightOK(fl2), NEW lay, NEW in, in.data \in Data,
         Moved(fl, fl2, lay, in), lay \in [Layers -> DepLayerRegs], NEW k \in Layers,
         LayerHolds(lay[k], k, fl), NEW input, input \in DepLayerInfo, InputHolds(input, k, fl2),
         k = 1 /\ lay[1].meta.valid => (lay[1].meta.tail <=> ~in.valid), NEW w
  PROVE  LayerHolds(DepLayerClock(lay[k], input, w), k, fl2)
<1> DEFINE l == lay[k]
           t == LookupAge(k)
           m == DepLayerClock(l, input, w)
<1>1. /\ m.head = input.head /\ m.meta = input.meta
      /\ m.sr.preHead = l.head /\ m.sr.preMeta = l.meta
      /\ m.sr.head = MovedHead(l.sr, l.head) /\ m.sr.meta = ReplacedMeta(l.sr)
  BY DEF DepLayerClock, ShiftReplaceClock
<1>2. /\ t \in Nat \ {0} /\ k \in Nat \ {0} /\ t + 1 < Latency * NUM_LAYER
      /\ t = 1 => k = 1
  <2>1. k > 1 => t > 1
    BY LayerAges
  <2> QED  BY <2>1, LayerAges
<1>3. Latency * NUM_LAYER \in Nat
  BY TopAssumption DEF Latency
<1>4. l \in DepLayerRegs /\ l.sr \in ShiftReplaceRegs /\ l.head \in Slice
  BY DEF DepLayerRegs
<1>5. /\ HeadOf(l.head, t, k, fl) /\ HeadOf(l.sr.preHead, t + 1, k, fl)
      /\ FlagsOf(l.meta, t, fl) /\ FlagsOf(l.sr.preMeta, t + 1, fl)
      /\ \A i \in 1 .. Len(fl) : RulesOf(l, fl[i], k)
  BY DEF LayerHolds
<1>6. \A j \in 1 .. Len(fl2) : RulesOf(m, fl2[j], k)
  BY RulesStep
<1>7. HeadOf(m.head, t, k, fl2) /\ FlagsOf(m.meta, t, fl2)
  BY <1>1 DEF InputHolds
<1> HIDE DEF m, t
<1>8. \A i \in 1 .. Len(fl) : Len(fl[i].infos) \in Nat /\ fl[i].age \in Nat
                              /\ (fl[i].age >= t => k <= Len(fl[i].infos))
  BY PacketFacts DEF FlightOK, t
<1>9. HeadOf(m.sr.preHead, t + 1, k, fl2)
  <2>1. t < Latency * NUM_LAYER
    BY <1>2, <1>3
  <2>2. \A i \in 1 .. Len(fl) : fl[i].age = t => k <= Len(fl[i].infos) + 1
    BY <1>2, <1>8
  <2> HIDE DEF l
  <2> QED  BY <1>1, <1>2, <1>5, <2>1, <2>2, HeadKept
<1>10. FlagsOf(m.sr.preMeta, t + 1, fl2)
  <2>1. t < Latency * NUM_LAYER
    BY <1>2, <1>3
  <2>2. t = 1 /\ l.meta.valid => (l.meta.tail <=> ~in.valid)
    BY <1>2
  <2> HIDE DEF l
  <2> QED  BY <1>1, <1>2, <1>5, <2>1, <2>2, FlagsKept
<1>11. HeadOf(m.sr.head, t + 2, k + 1, fl2)
  <2> DEFINE r == MovedHead(l.sr, l.head)
             t1 == t + 1
             k1 == k + 1
  <2>1. HeadOf(r, t1, k1, fl)
    <3>1. ASSUME NEW i \in 1 .. Len(fl), fl[i].age = t + 1
          PROVE  k <= Len(fl[i].infos) /\ l.sr.headShift = fl[i].infos[k].headShift
      <4>1. RulesOf(l, fl[i], k)
        BY <1>5
      <4>2. l.sr.headShift = fl[i].infos[k].headShift
        BY <3>1, <4>1 DEF RulesOf, t
      <4>3. fl[i].age >= t
        BY <1>2, <3>1
      <4> QED  BY <1>8, <4>2, <4>3
    <3> HIDE DEF l
    <3> QED  BY <1>2, <1>4, <1>5, <3>1, HeadShifted
  <2>2. \A i \in 1 .. Len(fl) : fl[i].age = t1 => k1 <= Len(fl[i].infos) + 1
    BY <1>2, <1>8
  <2>3. t1 \in Nat \ {0} /\ k1 \in Nat \ {0} /\ t + 2 = t1 + 1 /\ t1 < Latency * NUM_LAYER
    BY <1>2
  <2> HIDE DEF r, t1, k1
  <2>4. HeadOf(r, t1 + 1, k1, fl2)
    BY <2>1, <2>2, <2>3, HeadKept
  <2> QED  BY <1>1, <2>3, <2>4 DEF r, k1
<1>12. FlagsOf(m.sr.meta, t + 2, fl2)
  <2> DEFINE r == ReplacedMeta(l.sr)
             t1 == t + 1
  <2>1. FlagsOf(r, t1, fl)
    <3>1. r.valid = l.sr.preMeta.valid /\ r.start = l.sr.preMeta.start /\ r.tail = l.sr.preMeta.tail
      <4>1. l.sr.preMeta \in Slice
        BY <1>4 DEF ShiftReplaceRegs
      <4> QED  BY <4>1 DEF ReplacedMeta, Slice
    <3> HIDE DEF r, l
    <3> QED  BY <1>5, <3>1 DEF FlagsOf
  <2>2. t1 \in Nat \ {0} /\ t + 2 = t1 + 1 /\ t1 < Latency * NUM_LAYER /\ t1 # 1
    BY <1>2
  <2> HIDE DEF r, t1
  <2>3. FlagsOf(r, t1 + 1, fl2)
    BY <2>1, <2>2, FlagsKept
  <2> QED  BY <1>1, <2>2, <2>3 DEF r
<1>13. LayerHolds(m, k, fl2)
  BY <1>6, <1>7, <1>9, <1>10, <1>11, <1>12 DEF LayerHolds, t
<1> QED  BY <1>13 DEF m

-----------------------------------------------------------------------------
(* What the replacement needs of the host: whatever it writes to layer 0,  *)
(* it does not change the validity of a key or where the key goes, for the *)
(* latches of layer 0 never forget a target.                               *)
StaticTargets ==
  \A c \in Configs, w \in ConfInputs :
    w.kind = "keyOffset" /\ w.layer % LayerIdMod = 0 /\ w.id \in KeyIds =>
      w.valid = c.rst.keyOffset_v[w.id] /\ w.replace % CANDI_NUM = c.replace[w.id]

LEMMA SameFlags ==
  ASSUME NEW S, NEW f \in [S -> BOOLEAN], NEW g \in [S -> BOOLEAN],
         \A u \in S : f[u] <=> g[u]
  PROVE  f = g
<1>1. \A u \in S : f[u] = g[u]
  <2> TAKE u \in S
  <2>1. f[u] \in BOOLEAN /\ g[u] \in BOOLEAN /\ (f[u] <=> g[u])
    OBVIOUS
  <2>2. \A a, b \in BOOLEAN : (a <=> b) => a = b
    BY Zenon
  <2> QED  BY <2>1, <2>2, Zenon
<1> QED  BY <1>1

LEMMA TargetsStayStep ==
  ASSUME StaticTargets, TypeOK, TargetsStay, NEW h, NEW m, NEW w \in ConfInputs \cup {NoWord},
         Clock(h, m, w)
  PROVE  TargetsStay'
<1> DEFINE w0 == WordFor(0, w)
           r == Rst0Conf(info0.rst, w0)
           p == Replace0Conf(replace0, w0)
           T == TargetsOf(info0.rst.keyOffset_v, replace0)
<1>1. PICK c \in Configs : info0.rst.keyOffset_v = c.rst.keyOffset_v /\ replace0 = c.replace
  BY DEF TargetsStay
<1>2. /\ latch0 = {u \in UnitIds : T.v[u]} /\ info0.target = T
      /\ info0.total = 0 /\ ~info0.totalCarry
  BY DEF TargetsStay
<1>3. c.rst.keyOffset_v \in [KeyIds -> BOOLEAN] /\ c.replace \in [KeyIds -> UnitIds]
  BY TopAssumption DEF LookupRst
<1>4. ASSUME NEW j \in KeyIds
      PROVE  /\ w0.kind = "keyOffset" /\ w0.id = j => w0.valid = c.rst.keyOffset_v[j]
             /\ w0.kind = "keyOffset" /\ w0.id = j => w0.replace % CANDI_NUM = c.replace[j]
  <2> SUFFICES ASSUME w0.kind = "keyOffset" /\ w0.id = j
               PROVE  w0.valid = c.rst.keyOffset_v[j] /\ w0.replace % CANDI_NUM = c.replace[j]
    OBVIOUS
  <2>1. w0 # NoWord
    BY DEF NoWord
  <2>2. w0 = w /\ w.layer % LayerIdMod = 0 /\ w \in ConfInputs
    BY <2>1 DEF WordFor
  <2> QED  BY <2>2 DEF StaticTargets
<1> HIDE DEF w0
<1>5. r.keyOffset_v = info0.rst.keyOffset_v
  <2>1. r.keyOffset_v = [j \in KeyIds |-> IF w0.kind = "keyOffset" /\ w0.id = j THEN w0.valid
                                          ELSE info0.rst.keyOffset_v[j]]
    BY DEF Rst0Conf
  <2> HIDE DEF r
  <2> QED  BY <1>1, <1>3, <1>4, <2>1
<1>6. p = replace0
  <2>1. p = [j \in KeyIds |-> IF w0.kind = "keyOffset" /\ w0.id = j THEN w0.replace % CANDI_NUM
                              ELSE replace0[j]]
    BY DEF Replace0Conf
  <2> HIDE DEF p
  <2> QED  BY <1>1, <1>3, <1>4, <2>1
<1>7. /\ info0' = [rst |-> r, target |-> Target0, total |-> 0, totalCarry |-> FALSE]
      /\ replace0' = p /\ latch0' = Latched(latch0, r.keyOffset_v, p)
  BY DEF Clock, w0
<1> HIDE DEF r, p
<1>8. T \in Targets
  BY TargetTypes
<1>9. Target0 = T
  <2>1. Target0 = [T EXCEPT !.v = [u \in UnitIds |-> u \in latch0]]
    BY DEF Target0
  <2>2. [u \in UnitIds |-> u \in latch0] = T.v
    <3> HIDE DEF T
    <3>1. T.v \in [UnitIds -> BOOLEAN] /\ \A u \in UnitIds : u \in latch0 <=> T.v[u]
      BY <1>2, <1>8 DEF Targets
    <3>2. [u \in UnitIds |-> u \in latch0] \in [UnitIds -> BOOLEAN]
      OBVIOUS
    <3> QED  BY <3>1, <3>2, SameFlags
  <2> HIDE DEF T
  <2> QED  BY <1>8, <2>1, <2>2 DEF Targets
<1>10. latch0' = latch0
  BY <1>2, <1>5, <1>6, <1>7 DEF Latched
<1>11. /\ info0'.rst.keyOffset_v = info0.rst.keyOffset_v /\ replace0' = replace0
       /\ info0'.target = T /\ info0'.total = 0 /\ ~info0'.totalCarry
  BY <1>5, <1>6, <1>7, <1>9
<1>12. /\ \E d \in Configs : info0'.rst.keyOffset_v = d.rst.keyOffset_v /\ replace0' = d.replace
       /\ TargetsOf(info0'.rst.keyOffset_v, replace0') = T
  BY <1>1, <1>11
<1> HIDE DEF T
<1> QED  BY <1>2, <1>10, <1>11, <1>12 DEF TargetsStay

LEMMA WindowAt ==
  ASSUME NEW q \in Seq(Data), NEW k \in Nat, k < Len(q)
  PROVE  Window(q, Row(k)) = q[k + 1]
<1>1. q[k + 1] \in [UnitIds -> Unit]
  BY DEF Data
<1>2. \A u \in UnitIds : Flat(q, Row(k) + u) = q[k + 1][u]
  BY FlatAt
<1> QED  BY <1>1, <1>2 DEF Window

(* What the input of layer 1 says of the newest packet.                    *)
LEMMA LastFacts ==
  ASSUME HeadsInv
  PROVE  /\ LastIn.valid => /\ Len(flight) > 0
                            /\ flight[Len(flight)].age = Len(flight[Len(flight)].slices)
         /\ ~LastIn.valid => \A i \in 1 .. Len(flight) : flight[i].age # Len(flight[i].slices)
         /\ Len(flight) \in Nat
<1>0. Len(flight) \in Nat /\ FlightOK(flight)
  BY DEF HeadsInv, FlightOK
<1>1. FlagsOf(LastIn, 1, flight)
  <2>1. 1 \in Layers
    BY TopAssumption DEF Layers
  <2> QED  BY <2>1, LayerAges DEF HeadsInv, LayerHolds, LastIn
<1>2. ASSUME NEW i \in 1 .. Len(flight)
      PROVE  /\ Came(flight[i], 1) <=> flight[i].age = Len(flight[i].slices)
             /\ flight[i].age \in Nat /\ Len(flight[i].slices) \in Nat
             /\ flight[i].age >= 1
  <2>1. PacketOK(flight[i])
    BY <1>0 DEF FlightOK
  <2>2. /\ flight[i].age \in Nat /\ Len(flight[i].slices) \in Nat
        /\ 1 <= Len(flight[i].slices) /\ Len(flight[i].slices) <= flight[i].age
    BY <2>1, PacketFacts
  <2>3. Came(flight[i], 1) <=> 1 <= flight[i].age /\ flight[i].age < 1 + Len(flight[i].slices)
    BY <2>1, CameCases
  <2> QED  BY <2>2, <2>3
<1>3. ASSUME LastIn.valid
      PROVE  /\ Len(flight) > 0
             /\ flight[Len(flight)].age = Len(flight[Len(flight)].slices)
  <2>1. PICK i \in 1 .. Len(flight) : flight[i].age = Len(flight[i].slices)
    BY <1>1, <1>2, <1>3 DEF FlagsOf
  <2>2. Len(flight) > 0
    BY <1>0
  <2>3. i = Len(flight)
    <3> SUFFICES ASSUME i # Len(flight) PROVE FALSE
      OBVIOUS
    <3>1. i < Len(flight) /\ Len(flight) \in 1 .. Len(flight)
      BY <1>0
    <3>2. flight[i].age > flight[Len(flight)].age + Len(flight[i].slices)
      BY <1>0, <3>1 DEF FlightOK
    <3> QED  BY <1>2, <2>1, <3>1, <3>2
  <2> QED  BY <2>1, <2>2, <2>3
<1>4. ASSUME ~LastIn.valid, NEW i \in 1 .. Len(flight)
      PROVE  flight[i].age # Len(flight[i].slices)
  BY <1>1, <1>2, <1>4 DEF FlagsOf
<1> QED  BY <1>0, <1>3, <1>4

(* A clock on which field values h and packet slice m arrive, seen from    *)
(* the packets: m is the next slice of a packet, or the first of a new     *)
(* one, which then brings the field values.                                *)
Arrives(h, m, w) ==
  /\ Clock(h, m, w)
  /\ FlightOK(flight') /\ Moved(flight, flight', layer, m)
  /\ HeadOf(h, 1, 1, flight') /\ FlagsOf(m, 1, flight')
  /\ \A j \in 1 .. Len(flight') : flight'[j].age = 1 =>
       flight'[j].infos[1] = info0.rst /\ flight'[j].replaces[1] = replace0
  /\ \A j \in 1 .. Len(flight') : Came(flight'[j], 1) =>
       m.data = Window(flight'[j].slices, Row(flight'[j].age - 1))
  /\ m.valid <=> m.shift
  /\ LastIn.valid => (LastIn.tail <=> ~m.valid)

(* What layer k takes in on a clock.                                       *)
LayerIn(k, h, m) ==
  IF k = 1 THEN [head |-> h, meta |-> m, info |-> info0] ELSE DepLayerOut(layer[k - 1])

(* Layer 1 is told of the first header what layer 0 is configured for.     *)
LEMMA FirstInfo ==
  ASSUME TargetsStay, NEW p, PacketOK(p), p.infos[1] = info0.rst, p.replaces[1] = replace0
  PROVE  InfoOf(info0, p, 1)
<1>1. AimedAt(p, 1) = info0.target
  BY DEF AimedAt, Aim, TargetsStay
<1>2. p.infos \in Seq(LookupRst) /\ 1 \in 1 .. Len(p.infos) + 1
  BY PacketFacts
<1>3. MetaPos(p.infos, 1) = 0
  BY <1>2, Positions
<1>4. 0 % CANDI_NUM = 0 /\ 0 \div CANDI_NUM = 0
  <2>1. 0 = Row(0) + 0 /\ 0 \in UnitIds
    BY RowLemma, ConstantTypes
  <2> QED  BY <2>1, DivRow
<1>5. Base(p, 1 + 1) = 0 /\ Base(p, 1) = 0
  BY <1>2, <1>3, <1>4, BaseStep DEF Base
<1> QED  BY <1>1, <1>3, <1>4, <1>5 DEF InfoOf, TargetsStay

LEMMA Inputs ==
  ASSUME TypeOK, HeadsInv, NEW h \in Slice, NEW m \in Slice, NEW w \in ConfInputs \cup {NoWord},
         Arrives(h, m, w)
  PROVE  /\ layer' = [k \in Layers |-> DepLayerClock(layer[k], LayerIn(k, h, m), WordFor(k, w))]
         /\ \A k \in Layers :
              LayerIn(k, h, m) \in DepLayerInfo /\ InputHolds(LayerIn(k, h, m), k, flight')
<1> DEFINE in(k) == LayerIn(k, h, m)
<1>1. layer' = [k \in Layers |-> DepLayerClock(layer[k], in(k), WordFor(k, w))]
  BY DEF Clock, Arrives, LayerIn
<1>2. /\ FlightOK(flight) /\ layer \in [Layers -> DepLayerRegs] /\ m.data \in Data
      /\ FlightOK(flight') /\ Moved(flight, flight', layer, m)
  BY DEF HeadsInv, TypeOK, Slice, Arrives
<1>3. ASSUME NEW k \in Layers PROVE in(k) \in DepLayerInfo
  <2>1. k # 1 => k - 1 \in Layers
    BY TopAssumption DEF Layers
  <2> QED  BY <2>1, InfoTypes DEF TypeOK, DepLayerInfo, LayerIn
<1>4. ASSUME NEW k \in Layers PROVE InputHolds(in(k), k, flight')
  <2>1. CASE k = 1
    <3>1. in(k).head = h /\ in(k).meta = m /\ in(k).info = info0 /\ LookupAge(k) = 1
      BY <2>1, LayerAges DEF LayerIn
    <3> HIDE DEF in
    <3>2. ASSUME NEW j \in 1 .. Len(flight'), flight'[j].age = 1
          PROVE  InfoOf(info0, flight'[j], 1)
      <4>1. PacketOK(flight'[j])
        BY <1>2 DEF FlightOK
      <4>2. flight'[j].infos[1] = info0.rst /\ flight'[j].replaces[1] = replace0
        BY <3>2 DEF Arrives
      <4> QED  BY <4>1, <4>2, FirstInfo DEF HeadsInv
    <3> QED  BY <2>1, <3>1, <3>2 DEF InputHolds, Arrives
  <2>2. CASE k # 1
    <3> DEFINE l == layer[k - 1]
               t == LookupAge(k - 1) + 2
    <3>1. k > 1 /\ k - 1 \in Layers /\ k \in Nat \ {0} /\ k - 1 < NUM_LAYER
      BY <2>2, TopAssumption DEF Layers
    <3>2. LookupAge(k) = t + 1 /\ t \in Nat \ {0} /\ t # 1 /\ t < Latency * NUM_LAYER
          /\ LookupAge(k - 1) \in Nat /\ LookupAge(k - 1) < t
      <4>1. /\ LookupAge(k) = LookupAge(k - 1) + 3 /\ LookupAge(k - 1) \in Nat \ {0}
            /\ LookupAge(k - 1) + 2 < Latency * NUM_LAYER
        BY <3>1, LayerAges
      <4> QED  BY <3>1, <4>1
    <3>3. LayerHolds(l, k - 1, flight)
      BY <3>1 DEF HeadsInv
    <3>4. (k - 1) + 1 = k
      BY <3>1
    <3>5. /\ HeadOf(l.sr.head, t, k, flight) /\ FlagsOf(l.sr.meta, t, flight)
          /\ \A i \in 1 .. Len(flight) : flight[i].age = t => InfoOf(l.s2, flight[i], k)
      BY <3>3, <3>4 DEF LayerHolds, RulesOf
    <3> HIDE DEF t
    <3>6. ASSUME NEW i \in 1 .. Len(flight), flight[i].age = t
          PROVE  k \in 1 .. Len(flight[i].infos) /\ k <= Len(flight[i].infos) + 1
      <4>1. PacketOK(flight[i]) /\ Len(flight[i].infos) \in Nat
        BY <1>2, PacketFacts DEF FlightOK
      <4>2. LookupAge(k - 1) < flight[i].age
        BY <3>2, <3>6
      <4>3. (k - 1) + 1 <= Len(flight[i].infos)
        BY <3>1, <4>1, <4>2 DEF PacketOK
      <4> QED  BY <3>1, <3>4, <4>1, <4>3
    <3> HIDE DEF l
    <3>7. HeadOf(l.sr.head, t + 1, k, flight')
      BY <1>2, <3>1, <3>2, <3>5, <3>6, HeadKept
    <3>8. FlagsOf(l.sr.meta, t + 1, flight')
      BY <1>2, <3>2, <3>5, FlagsKept
    <3>9. ASSUME NEW j \in 1 .. Len(flight'), flight'[j].age = t + 1
          PROVE  InfoOf(l.s2, flight'[j], k)
      <4>1. flight'[j].age # 1
        BY <3>2, <3>9
      <4>2. PICK i \in 1 .. Len(flight) :
              /\ Grown(flight[i], flight'[j], layer, m) /\ PacketOK(flight[i])
              /\ PacketOK(flight'[j])
              /\ flight[i].age \in Nat /\ flight'[j].age = flight[i].age + 1
        BY <1>2, <4>1, OldPacket
      <4>3. flight[i].age = t
        BY <3>2, <3>9, <4>2
      <4>4. InfoOf(l.s2, flight[i], k) /\ k \in 1 .. Len(flight[i].infos)
        BY <3>5, <3>6, <4>3
      <4> QED  BY <4>2, <4>4, GrownRules
    <3>10. in(k).head = l.sr.head /\ in(k).meta = l.sr.meta /\ in(k).info = l.s2
      BY <2>2 DEF DepLayerOut, LayerIn, l
    <3> HIDE DEF in
    <3> QED  BY <3>2, <3>7, <3>8, <3>9, <3>10 DEF InputHolds
  <2> QED  BY <2>1, <2>2
<1> QED  BY <1>1, <1>3, <1>4

(* Such a clock keeps the invariant.                                       *)
LEMMA ClockStep ==
  ASSUME StaticTargets, TypeOK, HeadsInv, NEW h \in Slice, NEW m \in Slice,
         NEW w \in ConfInputs \cup {NoWord}, Arrives(h, m, w)
  PROVE  HeadsInv'
<1> DEFINE in(k) == LayerIn(k, h, m)
<1>1. /\ layer' = [k \in Layers |-> DepLayerClock(layer[k], in(k), WordFor(k, w))]
      /\ \A k \in Layers : in(k) \in DepLayerInfo /\ InputHolds(in(k), k, flight')
  BY Inputs
<1>2. /\ FlightOK(flight) /\ layer \in [Layers -> DepLayerRegs] /\ m.data \in Data
      /\ FlightOK(flight') /\ Moved(flight, flight', layer, m)
  BY DEF HeadsInv, TypeOK, Slice, Arrives
<1> HIDE DEF in
<1>3. ASSUME NEW k \in Layers PROVE LayerHolds(layer'[k], k, flight')
  <2>1. LayerHolds(layer[k], k, flight)
    BY DEF HeadsInv
  <2>2. k = 1 /\ layer[1].meta.valid => (layer[1].meta.tail <=> ~m.valid)
    BY DEF LastIn, Arrives
  <2>3. LayerHolds(DepLayerClock(layer[k], in(k), WordFor(k, w)), k, flight')
    BY <1>1, <1>2, <2>1, <2>2, LayerStep
  <2> QED  BY <1>1, <2>3
<1>4. TargetsStay'
  BY TargetsStayStep DEF Arrives, HeadsInv
<1> QED  BY <1>2, <1>3, <1>4 DEF HeadsInv

(* Every action of the input is such a clock.                              *)
LEMMA GapArrives ==
  ASSUME TypeOK, HeadsInv, NEW w, Gap(w)
  PROVE  Arrives(ZeroSlice, ZeroSlice, w)
<1> DEFINE m == ZeroSlice
<1>1. m.data \in Data /\ ~m.valid /\ ~m.start /\ ~m.tail /\ ~m.shift
  BY ConstantTypes DEF ZeroSlice
<1> HIDE DEF m
<1>2. /\ FlightOK(flight') /\ Moved(flight, flight', layer, m)
      /\ \A j \in 1 .. Len(flight') : \E i \in 1 .. Len(flight) : Grown(flight[i], flight'[j], layer, m)
  <2>1. flight' = Flying(<<>>)
    BY DEF Gap
  <2>2. FlightOK(flight) /\ \A i \in 1 .. Len(flight) :
          ~(flight[i].age = Len(flight[i].slices) /\ m.valid)
    BY <1>1 DEF HeadsInv
  <2> QED  BY <1>1, <2>1, <2>2, FlyingStep
<1>3. ASSUME NEW j \in 1 .. Len(flight') PROVE ~Came(flight'[j], 1) /\ flight'[j].age # 1
  <2>1. PICK i \in 1 .. Len(flight) : Grown(flight[i], flight'[j], layer, m)
    BY <1>2
  <2>2. PacketOK(flight[i]) /\ PacketOK(flight'[j])
    BY <1>2 DEF HeadsInv, FlightOK
  <2>3. /\ flight[i].age \in Nat /\ Len(flight[i].slices) \in Nat
        /\ 1 <= Len(flight[i].slices) /\ Len(flight[i].slices) <= flight[i].age
    BY <2>2, PacketFacts
  <2>4. flight'[j].age = flight[i].age + 1 /\ flight'[j].slices = flight[i].slices
    BY <1>1, <2>1 DEF Grown
  <2>5. Came(flight'[j], 1) <=> 1 <= flight'[j].age /\ flight'[j].age < 1 + Len(flight'[j].slices)
    BY <2>2, CameCases
  <2> QED  BY <2>3, <2>4, <2>5
<1>4. FlagsOf(m, 1, flight') /\ HeadOf(m, 1, 1, flight')
  BY <1>1, <1>3 DEF FlagsOf, HeadOf, m
<1>5. LastIn.valid => (LastIn.tail <=> ~m.valid)
  BY <1>1 DEF Gap
<1>6. Clock(ZeroSlice, ZeroSlice, w)
  BY DEF Gap
<1> QED  BY <1>1, <1>2, <1>3, <1>4, <1>5, <1>6 DEF Arrives, m

LEMMA StartArrives ==
  ASSUME TypeOK, HeadsInv, NEW w, NEW fields \in Data, NEW d \in Data, NEW tail \in BOOLEAN,
         StartSlice(fields, d, tail, w)
  PROVE  Arrives(TaggedSlice(fields, TRUE, FALSE), TaggedSlice(d, TRUE, tail), w)
<1> DEFINE h == TaggedSlice(fields, TRUE, FALSE)
           m == TaggedSlice(d, TRUE, tail)
           F == Flying(<<>>)
           new == [head |-> <<fields>>, slices |-> <<d>>, age |-> 1,
                   infos |-> <<info0.rst>>, replaces |-> <<replace0>>]
<1>1. /\ m.data = d /\ m.data \in Data /\ m.valid /\ m.start /\ m.shift
      /\ h.data = fields /\ h.valid /\ h.start
  BY DEF TaggedSlice
<1>2. ~LastIn.valid /\ flight' = Append(F, new) /\ Clock(h, m, w)
  BY DEF StartSlice
<1> HIDE DEF h, m
<1>3. /\ FlightOK(F) /\ Moved(flight, F, layer, m)
      /\ \A j \in 1 .. Len(F) : \E i \in 1 .. Len(flight) : Grown(flight[i], F[j], layer, m)
  <2>1. FlightOK(flight) /\ \A i \in 1 .. Len(flight) :
          ~(flight[i].age = Len(flight[i].slices) /\ m.valid)
    BY <1>2, LastFacts DEF HeadsInv
  <2> QED  BY <1>1, <2>1, FlyingStep
<1> HIDE DEF F
<1>4. ASSUME NEW j \in 1 .. Len(F)
      PROVE  /\ ~Came(F[j], 1) /\ F[j].age # 1 /\ F[j].age > 1 + Len(F[j].slices)
  <2>1. PICK i \in 1 .. Len(flight) : Grown(flight[i], F[j], layer, m)
    BY <1>3
  <2>2. PacketOK(flight[i]) /\ PacketOK(F[j])
    BY <1>3 DEF HeadsInv, FlightOK
  <2>3. /\ flight[i].age \in Nat /\ Len(flight[i].slices) \in Nat
        /\ 1 <= Len(flight[i].slices) /\ Len(flight[i].slices) <= flight[i].age
    BY <2>2, PacketFacts
  <2>4. flight[i].age # Len(flight[i].slices)
    BY <1>2, LastFacts
  <2>5. F[j].age = flight[i].age + 1 /\ F[j].slices = flight[i].slices
    BY <1>1, <2>1, <2>4 DEF Grown
  <2>6. Came(F[j], 1) <=> 1 <= F[j].age /\ F[j].age < 1 + Len(F[j].slices)
    BY <2>2, CameCases
  <2> QED  BY <2>3, <2>4, <2>5, <2>6
<1>5. /\ PacketOK(new) /\ new.age = 1 /\ new.infos[1] = info0.rst /\ new.replaces[1] = replace0
      /\ Len(new.slices) = 1 /\ new.slices = <<d>> /\ new.head = <<fields>>
      /\ new.infos \in Seq(LookupRst)
  <2>1. /\ new.slices = <<d>> /\ new.infos = <<info0.rst>> /\ new.age = 1 /\ new.head = <<fields>>
        /\ new.replaces = <<replace0>>
    OBVIOUS
  <2>2. /\ <<d>> \in Seq(Data) /\ Len(<<d>>) = 1 /\ <<fields>> \in Seq(Data) /\ Len(<<fields>>) = 1
    OBVIOUS
  <2>3. /\ <<info0.rst>> \in Seq(LookupRst) /\ Len(<<info0.rst>>) = 1
        /\ <<info0.rst>>[1] = info0.rst
        /\ <<replace0>> \in Seq([KeyIds -> UnitIds]) /\ Len(<<replace0>>) = 1
        /\ <<replace0>>[1] = replace0
    <3>1. info0.rst \in LookupRst /\ replace0 \in [KeyIds -> UnitIds]
      BY DEF TypeOK, DepInfo
    <3> QED  BY <3>1
  <2>4. new \in Packet
    BY <2>1, <2>2, <2>3 DEF Packet
  <2>5. \A k \in Layers : ~(LookupAge(k) < 1) /\ ~(k + 1 <= 1)
    BY LayerAges
  <2>6. 1 \in 1 .. NUM_LAYER + 1
    BY TopAssumption
  <2> HIDE DEF new
  <2> QED  BY <2>1, <2>2, <2>3, <2>4, <2>5, <2>6 DEF PacketOK
<1>6. new.age < Latency * NUM_LAYER + Len(new.slices)
  BY <1>5, TopAssumption DEF Latency
<1> HIDE DEF new
<1>7. /\ flight' \in Seq(Packet) /\ Len(flight') = Len(F) + 1 /\ Len(F) \in Nat
      /\ flight'[Len(F) + 1] = new
      /\ \A j \in 1 .. Len(F) : flight'[j] = F[j]
  <2>1. F \in Seq(Packet) /\ new \in Packet
    BY <1>3, <1>5 DEF FlightOK, PacketOK
  <2> QED  BY <1>2, <2>1
<1>8. \A j \in 1 .. Len(flight') : j \in 1 .. Len(F) \/ j = Len(F) + 1
  BY <1>7
<1>9. FlightOK(flight')
  <2>1. ASSUME NEW j \in 1 .. Len(flight')
        PROVE  PacketOK(flight'[j]) /\ flight'[j].age < Latency * NUM_LAYER + Len(flight'[j].slices)
    BY <1>3, <1>5, <1>6, <1>7, <1>8 DEF FlightOK
  <2>2. ASSUME NEW i \in 1 .. Len(flight'), NEW j \in 1 .. Len(flight'), i < j
        PROVE  flight'[i].age > flight'[j].age + Len(flight'[i].slices)
    <3>1. i \in 1 .. Len(F)
      BY <1>7, <1>8, <2>2
    <3>2. CASE j \in 1 .. Len(F)
      BY <1>3, <1>7, <2>2, <3>1, <3>2 DEF FlightOK
    <3>3. CASE j = Len(F) + 1
      BY <1>4, <1>5, <1>7, <3>1, <3>3
    <3> QED  BY <1>8, <3>2, <3>3
  <2> QED  BY <1>7, <2>1, <2>2 DEF FlightOK
<1>10. Moved(flight, flight', layer, m)
  <2>1. \A j \in 1 .. Len(flight') :
          flight'[j].age = 1 \/ \E i \in 1 .. Len(flight) : Grown(flight[i], flight'[j], layer, m)
    BY <1>3, <1>5, <1>7, <1>8
  <2>2. \A j \in 1 .. Len(F) : j \in 1 .. Len(flight')
    BY <1>7
  <2>3. \A i \in 1 .. Len(flight) :
          \/ flight[i].age + 1 >= Latency * NUM_LAYER + Len(flight[i].slices)
          \/ \E j \in 1 .. Len(flight') : Grown(flight[i], flight'[j], layer, m)
    BY <1>3, <1>7, <2>2 DEF Moved
  <2> QED  BY <2>1, <2>3 DEF Moved
<1>11. Len(F) + 1 \in 1 .. Len(flight')
  BY <1>7
<1>12. \A q \in Data : Window(<<q>>, 0) = q
  <2> TAKE q \in Data
  <2>1. <<q>> \in Seq(Data) /\ 0 < Len(<<q>>) /\ 0 + 1 = 1 /\ <<q>>[1] = q
    OBVIOUS
  <2>2. Window(<<q>>, Row(0)) = <<q>>[0 + 1]
    BY <2>1, WindowAt
  <2> QED  BY <2>1, <2>2, RowLemma
<1>13. /\ Came(new, 1) /\ new.age - 1 = 0 /\ HeadPos(new.infos, 1) = 0 /\ Row(0) = 0
  <2>1. new.age - 1 = 0 /\ Came(new, 1)
    BY <1>5 DEF Came
  <2>2. HeadPos(new.infos, 1) = 0
    BY <1>5, Positions
  <2> QED  BY <2>1, <2>2, RowLemma
<1>14. \A j \in 1 .. Len(flight') : Came(flight'[j], 1) \/ flight'[j].age = 1 => flight'[j] = new
  BY <1>4, <1>7, <1>8
<1>15. HeadOf(h, 1, 1, flight')
  <2>1. h.data = Window(new.head, HeadPos(new.infos, 1))
    BY <1>1, <1>5, <1>12, <1>13
  <2> QED  BY <1>1, <1>5, <1>7, <1>11, <1>14, <2>1 DEF HeadOf
<1>16. FlagsOf(m, 1, flight')
  BY <1>1, <1>5, <1>7, <1>11, <1>13, <1>14 DEF FlagsOf
<1>17. \A j \in 1 .. Len(flight') : Came(flight'[j], 1) =>
         m.data = Window(flight'[j].slices, Row(flight'[j].age - 1))
  <2>1. m.data = Window(new.slices, Row(new.age - 1))
    BY <1>1, <1>5, <1>12, <1>13
  <2> QED  BY <1>14, <2>1
<1>18. \A j \in 1 .. Len(flight') : flight'[j].age = 1 =>
         flight'[j].infos[1] = info0.rst /\ flight'[j].replaces[1] = replace0
  BY <1>5, <1>14
<1> QED  BY <1>1, <1>2, <1>9, <1>10, <1>15, <1>16, <1>17, <1>18 DEF Arrives, h, m

LEMMA NextArrives ==
  ASSUME TypeOK, HeadsInv, NEW w, NEW d \in Data, NEW tail \in BOOLEAN, NextSlice(d, tail, w)
  PROVE  Arrives(ZeroSlice, TaggedSlice(d, FALSE, tail), w)
<1> DEFINE m == TaggedSlice(d, FALSE, tail)
           last == Len(flight)
<1>1. m.data = d /\ m.data \in Data /\ m.valid /\ ~m.start /\ m.shift
  BY DEF TaggedSlice
<1>2. LastIn.valid /\ ~LastIn.tail /\ flight' = Flying(<<d>>) /\ Clock(ZeroSlice, m, w)
  BY DEF NextSlice
<1> HIDE DEF m
<1>3. /\ last > 0 /\ last \in Nat /\ flight[last].age = Len(flight[last].slices)
  BY <1>2, LastFacts
<1>4. /\ FlightOK(flight') /\ Moved(flight, flight', layer, m)
      /\ \A j \in 1 .. Len(flight') : \E i \in 1 .. Len(flight) : Grown(flight[i], flight'[j], layer, m)
  <2>1. FlightOK(flight) /\ <<d>> = <<m.data>>
    BY <1>1 DEF HeadsInv
  <2> QED  BY <1>1, <1>2, <1>3, <2>1, FlyingStep
<1>5. ASSUME NEW i \in 1 .. Len(flight), NEW j \in 1 .. Len(flight'),
             Grown(flight[i], flight'[j], layer, m)
      PROVE  /\ flight'[j].age # 1
             /\ Came(flight'[j], 1) <=> flight[i].age = Len(flight[i].slices)
             /\ Came(flight'[j], 1) => d = Window(flight'[j].slices, Row(flight'[j].age - 1))
  <2> DEFINE p == flight[i]
             q == flight'[j]
  <2>1. PacketOK(p) /\ PacketOK(q)
    BY <1>4 DEF HeadsInv, FlightOK
  <2>2. /\ p.age \in Nat /\ Len(p.slices) \in Nat /\ p.slices \in Seq(Data)
        /\ 1 <= Len(p.slices) /\ Len(p.slices) <= p.age /\ q.age = p.age + 1
        /\ q.slices \in Seq(Data)
    BY <1>5, <2>1, PacketFacts DEF Grown
  <2>3. Came(q, 1) <=> 1 <= q.age /\ q.age < 1 + Len(q.slices)
    BY <2>1, CameCases
  <2>4. CASE p.age = Len(p.slices)
    <3>1. q.slices = Append(p.slices, d)
      BY <1>1, <1>5, <2>4 DEF Grown
    <3> HIDE DEF p, q
    <3>2. Len(q.slices) = Len(p.slices) + 1 /\ q.slices[Len(p.slices) + 1] = d
      BY <2>2, <3>1
    <3>3. Len(p.slices) < Len(q.slices)
      BY <2>2, <3>2
    <3>4. Window(q.slices, Row(Len(p.slices))) = d
      BY <2>2, <3>2, <3>3, WindowAt
    <3>5. q.age - 1 = Len(p.slices)
      BY <2>2, <2>4
    <3>6. q.age # 1 /\ Came(q, 1)
      BY <2>2, <2>3, <2>4, <3>2
    <3> QED  BY <2>4, <3>4, <3>5, <3>6 DEF p, q
  <2>5. CASE p.age # Len(p.slices)
    <3>1. q.slices = p.slices
      BY <1>5, <2>5 DEF Grown
    <3> QED  BY <2>2, <2>3, <2>5, <3>1
  <2> QED  BY <2>4, <2>5
<1>6. \A j \in 1 .. Len(flight') : flight'[j].age # 1
  BY <1>4, <1>5
<1>7. \E j \in 1 .. Len(flight') : Came(flight'[j], 1)
  <2>1. last \in 1 .. Len(flight)
    BY <1>3
  <2>2. ~(flight[last].age + 1 >= Latency * NUM_LAYER + Len(flight[last].slices))
    <3>1. Len(flight[last].slices) \in Nat
      BY <2>1, PacketFacts DEF HeadsInv, FlightOK
    <3>2. Latency * NUM_LAYER \in Nat /\ Latency * NUM_LAYER > 1
      BY TopAssumption DEF Latency
    <3> QED  BY <1>3, <3>1, <3>2
  <2>3. PICK j \in 1 .. Len(flight') : Grown(flight[last], flight'[j], layer, m)
    BY <1>4, <2>1, <2>2 DEF Moved
  <2> QED  BY <1>3, <1>5, <2>1, <2>3
<1>8. FlagsOf(m, 1, flight')
  BY <1>1, <1>6, <1>7 DEF FlagsOf
<1>9. HeadOf(ZeroSlice, 1, 1, flight')
  <2>1. ~ZeroSlice.valid /\ ~ZeroSlice.start
    BY DEF ZeroSlice
  <2> QED  BY <1>6, <2>1 DEF HeadOf
<1>10. \A j \in 1 .. Len(flight') : Came(flight'[j], 1) =>
         m.data = Window(flight'[j].slices, Row(flight'[j].age - 1))
  BY <1>1, <1>4, <1>5
<1> QED  BY <1>1, <1>2, <1>4, <1>6, <1>8, <1>9, <1>10 DEF Arrives, m

LEMMA ArrivalAlways ==
  ASSUME TypeOK, HeadsInv, Next
  PROVE  \/ Reset
         \/ \E h \in Slice, m \in Slice, w \in ConfInputs \cup {NoWord} : Arrives(h, m, w)
<1>1. HeadInputs \subseteq Data /\ MetaInputs \subseteq Data
  BY TopAssumption
<1>2. ASSUME NEW w \in ConfInputs \cup {NoWord}, Gap(w)
      PROVE  \E h \in Slice, m \in Slice, v \in ConfInputs \cup {NoWord} : Arrives(h, m, v)
  BY <1>2, GapArrives, ConstantTypes
<1>3. ASSUME NEW w \in ConfInputs \cup {NoWord}, NEW fields \in HeadInputs, NEW d \in MetaInputs,
             NEW tail \in BOOLEAN, StartSlice(fields, d, tail, w)
      PROVE  \E h \in Slice, m \in Slice, v \in ConfInputs \cup {NoWord} : Arrives(h, m, v)
  <2>1. /\ d \in Data /\ fields \in Data
        /\ TaggedSlice(fields, TRUE, FALSE) \in Slice /\ TaggedSlice(d, TRUE, tail) \in Slice
    BY <1>1, ConstantTypes
  <2>2. Arrives(TaggedSlice(fields, TRUE, FALSE), TaggedSlice(d, TRUE, tail), w)
    BY <1>3, <2>1, StartArrives
  <2> QED  BY <2>1, <2>2
<1>4. ASSUME NEW w \in ConfInputs \cup {NoWord}, NEW d \in MetaInputs, NEW tail \in BOOLEAN,
             NextSlice(d, tail, w)
      PROVE  \E h \in Slice, m \in Slice, v \in ConfInputs \cup {NoWord} : Arrives(h, m, v)
  <2>1. d \in Data /\ TaggedSlice(d, FALSE, tail) \in Slice /\ ZeroSlice \in Slice
    BY <1>1, ConstantTypes
  <2>2. Arrives(ZeroSlice, TaggedSlice(d, FALSE, tail), w)
    BY <1>4, <2>1, NextArrives
  <2> QED  BY <2>1, <2>2
<1> QED  BY <1>2, <1>3, <1>4 DEF Next

(* Reset reaches the rules, and no packet.                                 *)
LEMMA ResetKeeps ==
  ASSUME TypeOK, HeadsInv, Reset
  PROVE  HeadsInv'
<1>1. flight' = flight /\ info0' = info0 /\ replace0' = replace0 /\ latch0' = latch0
  BY DEF Reset
<1>2. ASSUME NEW k \in Layers PROVE LayerHolds(layer'[k], k, flight)
  <2>1. LayerHolds(layer[k], k, flight)
    BY DEF HeadsInv
  <2>2. /\ layer'[k].head = layer[k].head /\ layer'[k].meta = layer[k].meta
        /\ layer'[k].sr = layer[k].sr /\ layer'[k].info = layer[k].info
        /\ layer'[k].type = layer[k].type /\ layer'[k].key = layer[k].key
        /\ layer'[k].s1 = layer[k].s1 /\ layer'[k].s2 = layer[k].s2
    BY DEF Reset, DepLayerReset, TypeOK, DepLayerRegs
  <2> QED  BY <2>1, <2>2 DEF LayerHolds, RulesOf
<1>3. TargetsStay'
  BY <1>1 DEF HeadsInv, TargetsStay
<1> QED  BY <1>1, <1>2, <1>3 DEF HeadsInv

LEMMA HeadsStart == Init => HeadsInv
<1> SUFFICES ASSUME Init PROVE HeadsInv
  OBVIOUS
<1>1. flight = <<>> /\ Len(flight) = 0 /\ FlightOK(flight)
  BY DEF Init, FlightOK
<1>2. ASSUME NEW k \in Layers PROVE LayerHolds(layer[k], k, flight)
  <2>1. /\ layer[k].head = ZeroSlice /\ layer[k].meta = ZeroSlice
        /\ layer[k].sr.preHead = ZeroSlice /\ layer[k].sr.head = ZeroSlice
        /\ layer[k].sr.preMeta = ZeroSlice /\ layer[k].sr.meta = ZeroSlice
    BY DEF Init, ZeroDepLayer
  <2>2. \A t, n : HeadOf(ZeroSlice, t, n, flight) /\ FlagsOf(ZeroSlice, t, flight)
    BY <1>1 DEF HeadOf, FlagsOf, ZeroSlice
  <2> QED  BY <1>1, <2>1, <2>2 DEF LayerHolds
<1>3. TargetsStay
  <2>1. PICK c \in Configs :
          /\ info0 = [rst |-> c.rst, target |-> TargetsOf(c.rst.keyOffset_v, c.replace),
                      total |-> 0, totalCarry |-> FALSE]
          /\ replace0 = c.replace
          /\ latch0 = {u \in UnitIds : TargetsOf(c.rst.keyOffset_v, c.replace).v[u]}
    BY DEF Init
  <2> QED  BY <2>1 DEF TargetsStay
<1> QED  BY <1>1, <1>2, <1>3 DEF HeadsInv

LEMMA HeadsStep ==
  ASSUME StaticTargets, TypeOK, HeadsInv, [Next]_vars
  PROVE  HeadsInv'
<1>1. CASE Next
  BY <1>1, ArrivalAlways, ClockStep, ResetKeeps
<1>2. CASE UNCHANGED vars
  BY <1>2 DEF vars, HeadsInv, TargetsStay
<1> QED  BY <1>1, <1>2

-----------------------------------------------------------------------------
(* The shift flags: before the tail, they are set from the base slice of   *)
(* layer k on.                                                             *)
ShiftOf(r, t, k, fl) ==
  /\ ~r.valid => ~r.shift
  /\ \A i \in 1 .. Len(fl) : Came(fl[i], t) /\ ~r.tail =>
       (r.shift <=> fl[i].age - t >= Base(fl[i], k))

(* By the flags the base slice is found, and the one behind it; a tail is  *)
(* always taken for a base slice.                                          *)
BaseFound(sr, t, k, fl) ==
  /\ ~sr.preMeta.valid => ~sr.startBit
  /\ sr.preMeta.tail => sr.startBit
  /\ \A i \in 1 .. Len(fl) : Came(fl[i], t) =>
       /\ ~sr.preMeta.tail => (sr.startBit <=> fl[i].age - t = Base(fl[i], k))
       /\ sr.startBitCarry <=> fl[i].age - t = Base(fl[i], k) + 1

ShiftsHold(l, k, fl) ==
  /\ ShiftOf(l.meta, LookupAge(k), k, fl)
  /\ ShiftOf(l.sr.preMeta, LookupAge(k) + 1, k, fl)
  /\ BaseFound(l.sr, LookupAge(k) + 1, k, fl)
  /\ ShiftOf(l.sr.meta, LookupAge(k) + 2, k + 1, fl)

ShiftsInv == \A k \in Layers : ShiftsHold(layer[k], k, flight)

(* What "Expressible" asks of layer k of a packet of several slices.       *)
LayerExpressible(p, k) ==
  LET valid == {j \in KeyIds : p.infos[k].keyOffset_v[j]}
  IN  valid # {} =>
        /\ \A j, n \in valid :
             p.replaces[k][j] % CANDI_NUM = p.replaces[k][n] % CANDI_NUM => j = n
        /\ k > 1 => /\ \A j \in valid : p.replaces[k][j] < RepOffsetMod
                    /\ MetaPos(p.infos, k) \div CANDI_NUM
                          = MetaPos(p.infos, k - 1) \div CANDI_NUM

(* And of a packet of one slice: it has fields, and in its first slice.    *)
InFirst(p, k) ==
  (\E j \in KeyIds : p.infos[k].keyOffset_v[j]) => MetaPos(p.infos, k) < CANDI_NUM

(* Unit n of the packet after the layers before layer k.                   *)
Result(p, k, n) ==
  LET by == {m \in 1 .. k - 1 : \E f \in LayerFields(p, m) : f.at = n}
      last == CHOOSE m \in by : \A o \in by : o <= m
  IN  IF by = {} THEN Flat(p.slices, n)
      ELSE (CHOOSE f \in LayerFields(p, last) : f.at = n).field

DataOf(r, t, k, fl) ==
  \A i \in 1 .. Len(fl) :
    /\ Came(fl[i], t)
    /\ \A n \in 1 .. k - 1 : LayerExpressible(fl[i], n)
    /\ r.tail => fl[i].age = t /\ \A n \in 1 .. k - 1 : InFirst(fl[i], n)
    => \A u \in UnitIds : r.data[u] = Result(fl[i], k, Row(fl[i].age - t) + u)

DataInv ==
  \A k \in Layers : /\ DataOf(layer[k].meta, LookupAge(k), k, flight)
                    /\ DataOf(layer[k].sr.preMeta, LookupAge(k) + 1, k, flight)
                    /\ DataOf(layer[k].sr.meta, LookupAge(k) + 2, k + 1, flight)

(* The flags of a slice go with it.                                        *)
LEMMA ShiftKept ==
  ASSUME NEW fl, FlightOK(fl), NEW fl2, FlightOK(fl2), NEW lay, NEW in, in.data \in Data,
         Moved(fl, fl2, lay, in), NEW t \in Nat \ {0}, NEW k \in Nat \ {0},
         \A i \in 1 .. Len(fl) : fl[i].age >= t => k <= Len(fl[i].infos) + 1,
         NEW r, ShiftOf(r, t, k, fl)
  PROVE  ShiftOf(r, t + 1, k, fl2)
<1>C. \A j \in 1 .. Len(fl2) : Came(fl2[j], t + 1) =>
        \E i \in 1 .. Len(fl) :
          /\ Grown(fl[i], fl2[j], lay, in) /\ Came(fl[i], t)
          /\ PacketOK(fl[i]) /\ PacketOK(fl2[j])
          /\ fl[i].age \in Nat /\ fl2[j].age = fl[i].age + 1
  BY CameFrom
<1>1. ASSUME NEW j \in 1 .. Len(fl2), Came(fl2[j], t + 1), ~r.tail
      PROVE  r.shift <=> fl2[j].age - (t + 1) >= Base(fl2[j], k)
  <2>1. PICK i \in 1 .. Len(fl) :
          /\ Grown(fl[i], fl2[j], lay, in) /\ Came(fl[i], t)
          /\ PacketOK(fl[i]) /\ PacketOK(fl2[j])
          /\ fl[i].age \in Nat /\ fl2[j].age = fl[i].age + 1
    BY <1>1, <1>C
  <2>2. r.shift <=> fl[i].age - t >= Base(fl[i], k)
    BY <1>1, <2>1 DEF ShiftOf
  <2>3. fl[i].age >= t /\ Len(fl[i].infos) \in Nat
    BY <2>1, CameCases, PacketFacts
  <2>4. k \in 1 .. Len(fl[i].infos) + 2
    BY <2>3
  <2>5. Base(fl2[j], k) = Base(fl[i], k)
    BY <2>1, <2>4, GrownRules
  <2>6. fl2[j].age - (t + 1) = fl[i].age - t
    BY <2>1
  <2> QED  BY <2>2, <2>5, <2>6
<1>2. ~r.valid => ~r.shift
  BY DEF ShiftOf
<1> QED  BY <1>1, <1>2 DEF ShiftOf

(* Shift_Replace_Head moves the mark of the base slice to where the next   *)
(* layer needs it.                                                         *)
LEMMA ShiftMoved ==
  ASSUME NEW fl, FlightOK(fl), NEW k \in Nat \ {0}, NEW t \in Nat \ {0, 1},
         NEW sr \in ShiftReplaceRegs,
         \A i \in 1 .. Len(fl) : Came(fl[i], t) =>
           k <= Len(fl[i].infos) /\ (sr.toShift <=> Base(fl[i], k + 1) = Base(fl[i], k) + 1),
         ShiftOf(sr.preMeta, t, k, fl), BaseFound(sr, t, k, fl)
  PROVE  ShiftOf(ReplacedMeta(sr), t, k + 1, fl)
<1> DEFINE pre == sr.preMeta
           r == ReplacedMeta(sr)
<1>1. /\ r.valid = pre.valid /\ r.tail = pre.tail
      /\ sr.startBit => r.shift = ~sr.toShift
      /\ ~sr.startBit => r.shift = pre.shift
  <2>1. pre \in Slice
    BY DEF ShiftReplaceRegs
  <2> QED  BY <2>1 DEF ReplacedMeta, Slice
<1> HIDE DEF r
<1>2. ~r.valid => ~r.shift
  BY <1>1 DEF BaseFound, ShiftOf
<1>3. ASSUME NEW i \in 1 .. Len(fl), Came(fl[i], t), ~r.tail
      PROVE  r.shift <=> fl[i].age - t >= Base(fl[i], k + 1)
  <2>1. /\ pre.shift <=> fl[i].age - t >= Base(fl[i], k)
        /\ sr.startBit <=> fl[i].age - t = Base(fl[i], k)
        /\ sr.toShift <=> Base(fl[i], k + 1) = Base(fl[i], k) + 1
    BY <1>1, <1>3 DEF ShiftOf, BaseFound
  <2>2. PacketOK(fl[i]) /\ Len(fl[i].infos) \in Nat /\ fl[i].age \in Nat
    BY PacketFacts DEF FlightOK
  <2>3. k \in 1 .. Len(fl[i].infos) + 1
    BY <1>3, <2>2
  <2>4. /\ Base(fl[i], k) \in Nat
        /\ Base(fl[i], k + 1) = Base(fl[i], k) \/ Base(fl[i], k + 1) = Base(fl[i], k) + 1
    BY <2>2, <2>3, BaseStep
  <2> DEFINE b == Base(fl[i], k)
             c == Base(fl[i], k + 1)
             d == fl[i].age - t
  <2>5. d \in Int /\ b \in Nat /\ (c = b \/ c = b + 1)
    BY <2>2, <2>4
  <2>6. /\ pre.shift <=> d >= b
        /\ sr.startBit <=> d = b
        /\ sr.toShift <=> c = b + 1
    BY <2>1
  <2> HIDE DEF b, c, d, pre
  <2>7. r.shift <=> d >= c
    <3>1. CASE d = b
      <4>1. r.shift <=> ~sr.toShift
        BY <1>1, <2>6, <3>1
      <4> QED  BY <2>5, <2>6, <3>1, <4>1
    <3>2. CASE d # b
      <4>1. r.shift <=> pre.shift
        BY <1>1, <2>6, <3>2
      <4> QED  BY <2>5, <2>6, <3>2, <4>1
    <3> QED  BY <3>1, <3>2
  <2> QED  BY <2>7 DEF c, d
<1>4. ShiftOf(r, t, k + 1, fl)
  BY <1>2, <1>3 DEF ShiftOf
<1> QED  BY <1>4 DEF r

(* One clock of the marks of a layer.                                      *)
LEMMA ShiftsStep ==
  ASSUME NEW fl, FlightOK(fl), NEW fl2, FlightOK(fl2), NEW lay, NEW in, in.data \in Data,
         Moved(fl, fl2, lay, in), lay \in [Layers -> DepLayerRegs], NEW k \in Layers,
         LayerHolds(lay[k], k, fl), ShiftsHold(lay[k], k, fl),
         NEW input, ShiftOf(input.meta, LookupAge(k), k, fl2), NEW w
  PROVE  ShiftsHold(DepLayerClock(lay[k], input, w), k, fl2)
<1> DEFINE l == lay[k]
           t == LookupAge(k)
           m == DepLayerClock(l, input, w)
<1>1. /\ m.meta = input.meta /\ m.sr.preMeta = l.meta /\ m.sr.meta = ReplacedMeta(l.sr)
      /\ m.sr.startBit = BaseSlice(l.sr, l.meta) /\ m.sr.startBitCarry = l.sr.startBit
  BY DEF DepLayerClock, ShiftReplaceClock
<1>2. t \in Nat \ {0} /\ k \in Nat \ {0}
  BY LayerAges
<1>3. l.sr \in ShiftReplaceRegs
  BY DEF DepLayerRegs
<1>4. /\ FlagsOf(l.meta, t, fl) /\ FlagsOf(l.sr.preMeta, t + 1, fl)
      /\ \A i \in 1 .. Len(fl) : RulesOf(l, fl[i], k)
      /\ ShiftOf(l.meta, t, k, fl) /\ ShiftOf(l.sr.preMeta, t + 1, k, fl)
      /\ BaseFound(l.sr, t + 1, k, fl)
  BY DEF LayerHolds, ShiftsHold
<1>5. \A i \in 1 .. Len(fl) : /\ PacketOK(fl[i]) /\ Len(fl[i].infos) \in Nat /\ fl[i].age \in Nat
                              /\ Len(fl[i].slices) \in Nat /\ 1 <= Len(fl[i].slices)
                              /\ fl[i].age >= t => k <= Len(fl[i].infos)
  BY PacketFacts DEF FlightOK
<1>6. ShiftOf(m.meta, t, k, fl2)
  BY <1>1
<1>C. \A j \in 1 .. Len(fl2) : Came(fl2[j], t + 1) =>
        \E i \in 1 .. Len(fl) :
          /\ Grown(fl[i], fl2[j], lay, in) /\ Came(fl[i], t)
          /\ PacketOK(fl[i]) /\ PacketOK(fl2[j])
          /\ fl[i].age \in Nat /\ fl2[j].age = fl[i].age + 1
  BY <1>2, CameFrom
<1> HIDE DEF m, t, l
<1>7. ShiftOf(m.sr.preMeta, t + 1, k, fl2)
  <2>1. \A i \in 1 .. Len(fl) : fl[i].age >= t => k <= Len(fl[i].infos) + 1
    BY <1>2, <1>5
  <2> QED  BY <1>1, <1>2, <1>4, <2>1, ShiftKept
<1>8. ShiftOf(m.sr.meta, t + 2, k + 1, fl2)
  <2> DEFINE r == ReplacedMeta(l.sr)
             t1 == t + 1
             k1 == k + 1
  <2>1. t1 \in Nat \ {0, 1} /\ k1 \in Nat \ {0} /\ t + 2 = t1 + 1 /\ t1 \in Nat \ {0}
    BY <1>2
  <2>2. ASSUME NEW i \in 1 .. Len(fl), Came(fl[i], t1)
        PROVE  /\ k <= Len(fl[i].infos)
               /\ l.sr.toShift <=> Base(fl[i], k + 1) = Base(fl[i], k) + 1
    <3>1. fl[i].age >= t1
      BY <1>5, <2>1, <2>2, CameCases
    <3>2. RulesOf(l, fl[i], k)
      BY <1>4
    <3>3. l.sr.toShift <=> Base(fl[i], k + 1) = Base(fl[i], k) + 1
      BY <2>2, <3>2 DEF RulesOf, t
    <3> QED  BY <1>2, <1>5, <3>1, <3>3
  <2>3. ShiftOf(l.sr.preMeta, t1, k, fl) /\ BaseFound(l.sr, t1, k, fl)
    BY <1>4
  <2>4. \A i \in 1 .. Len(fl) : fl[i].age >= t1 => k1 <= Len(fl[i].infos) + 1
    BY <1>2, <1>5
  <2> HIDE DEF t1
  <2>5. ShiftOf(r, t1, k1, fl)
    BY <1>2, <1>3, <2>1, <2>2, <2>3, ShiftMoved
  <2> HIDE DEF r, k1
  <2>6. ShiftOf(r, t1 + 1, k1, fl2)
    BY <2>1, <2>4, <2>5, ShiftKept
  <2> QED  BY <1>1, <2>1, <2>6 DEF r, k1
<1>9. BaseFound(m.sr, t + 1, k, fl2)
  <2>1. ~l.meta.valid => ~l.meta.shift /\ ~l.meta.tail
    BY <1>4 DEF ShiftOf, FlagsOf
  <2>2. m.sr.startBit <=> (l.meta.shift /\ ~l.sr.preMeta.shift) \/ l.meta.tail
    BY <1>1 DEF BaseSlice
  <2>3. ASSUME NEW j \in 1 .. Len(fl2), Came(fl2[j], t + 1)
        PROVE  /\ ~l.meta.tail => (m.sr.startBit <=> fl2[j].age - (t + 1) = Base(fl2[j], k))
               /\ m.sr.startBitCarry <=> fl2[j].age - (t + 1) = Base(fl2[j], k) + 1
    <3>1. PICK i \in 1 .. Len(fl) :
            /\ Grown(fl[i], fl2[j], lay, in) /\ Came(fl[i], t)
            /\ PacketOK(fl[i]) /\ PacketOK(fl2[j])
            /\ fl[i].age \in Nat /\ fl2[j].age = fl[i].age + 1
      BY <1>C, <2>3
    <3> DEFINE p == fl[i]
               b == Base(p, k)
               d == p.age - t
    <3>2. /\ p.age >= t /\ p.age < t + Len(p.slices)
          /\ Len(p.slices) \in Nat /\ Len(p.infos) \in Nat
      BY <1>2, <3>1, CameCases, PacketFacts
    <3>3. k \in 1 .. Len(p.infos) + 2 /\ k \in 1 .. Len(p.infos) + 1
      BY <1>2, <1>5, <3>2
    <3>4. Base(fl2[j], k) = b /\ b \in Nat
      BY <3>1, <3>3, GrownRules, BaseStep
    <3>5. fl2[j].age - (t + 1) = d /\ d \in Nat
      BY <1>2, <3>1, <3>2
    <3>6. ~l.meta.tail => (l.meta.shift <=> d >= b)
      BY <1>4, <3>1 DEF ShiftOf
    <3>7. CASE d = 0
      <4>1. ASSUME NEW n \in 1 .. Len(fl), Came(fl[n], t + 1) PROVE FALSE
        <5>1. n = i
          BY <1>2, <3>1, <4>1, Apart
        <5>2. t + 1 <= fl[n].age
          BY <1>2, <1>5, <4>1, CameCases
        <5> QED  BY <1>2, <3>1, <3>7, <5>1, <5>2
      <4>2. ~l.sr.preMeta.valid
        BY <1>4, <4>1 DEF FlagsOf
      <4>3. ~l.sr.startBit /\ ~l.sr.preMeta.shift
        BY <1>4, <4>2 DEF BaseFound, ShiftOf
      <4> HIDE DEF b, d, p
      <4> QED  BY <1>1, <2>2, <3>4, <3>5, <3>6, <3>7, <4>3
    <3>8. CASE d # 0
      <4>1. Came(p, t + 1) /\ p.age - (t + 1) = d - 1 /\ d - 1 # Len(p.slices) - 1
        <5>1. t + 1 <= p.age /\ p.age < (t + 1) + Len(p.slices) /\ t + 1 \in Nat
          <6>1. \A a, n, c \in Nat :
                  c <= a /\ a < c + n /\ a - c # 0 => c + 1 <= a /\ a < (c + 1) + n /\ c + 1 \in Nat
            OBVIOUS
          <6>2. t \in Nat /\ p.age \in Nat /\ p.age - t # 0
            BY <1>2, <3>1, <3>8
          <6> HIDE DEF p
          <6> QED  BY <3>2, <6>1, <6>2
        <5>2. p.age - (t + 1) = d - 1 /\ d - 1 # Len(p.slices) - 1
          BY <1>2, <3>1, <3>2
        <5>3. Came(p, t + 1)
          BY <3>1, <5>1, CameCases
        <5> QED  BY <5>2, <5>3
      <4>2. ~l.sr.preMeta.tail
        <5>1. t + 1 > 1
          BY <1>2
        <5>2. l.sr.preMeta.tail <=> p.age - (t + 1) = Len(p.slices) - 1
          BY <1>4, <4>1, <5>1 DEF FlagsOf
        <5> QED  BY <4>1, <5>2
      <4>3. /\ l.sr.startBit <=> d - 1 = b
            /\ l.sr.preMeta.shift <=> d - 1 >= b
        <5>1. /\ l.sr.startBit <=> p.age - (t + 1) = b
              /\ l.sr.preMeta.shift <=> p.age - (t + 1) >= b
          BY <1>4, <4>1, <4>2 DEF BaseFound, ShiftOf
        <5> QED  BY <4>1, <5>1
      <4> HIDE DEF b, d, p
      <4>4. /\ d - 1 = b <=> d = b + 1
            /\ d >= b /\ ~(d - 1 >= b) <=> d = b
        BY <3>4, <3>5
      <4> QED  BY <1>1, <2>2, <3>4, <3>5, <3>6, <4>3, <4>4
    <3> QED  BY <3>7, <3>8
  <2> QED  BY <1>1, <2>1, <2>2, <2>3 DEF BaseFound
<1>10. ShiftsHold(m, k, fl2)
  BY <1>6, <1>7, <1>8, <1>9 DEF ShiftsHold, t
<1> QED  BY <1>10 DEF m, l

LEMMA ClockShifts ==
  ASSUME TypeOK, HeadsInv, ShiftsInv, NEW h \in Slice, NEW m \in Slice,
         NEW w \in ConfInputs \cup {NoWord}, Arrives(h, m, w)
  PROVE  ShiftsInv'
<1> DEFINE in(k) == LayerIn(k, h, m)
<1>1. layer' = [k \in Layers |-> DepLayerClock(layer[k], in(k), WordFor(k, w))]
  BY Inputs
<1>2. /\ FlightOK(flight) /\ layer \in [Layers -> DepLayerRegs] /\ m.data \in Data
      /\ FlightOK(flight') /\ Moved(flight, flight', layer, m)
  BY DEF HeadsInv, TypeOK, Slice, Arrives
<1>3. ASSUME NEW k \in Layers PROVE ShiftOf(in(k).meta, LookupAge(k), k, flight')
  <2>1. CASE k = 1
    <3>1. in(k).meta = m /\ LookupAge(k) = 1
      BY <2>1, LayerAges DEF LayerIn
    <3>2. m.valid <=> m.shift
      BY DEF Arrives
    <3>3. ASSUME NEW j \in 1 .. Len(flight'), Came(flight'[j], 1)
          PROVE  m.shift /\ flight'[j].age - 1 >= Base(flight'[j], 1)
      <4>1. m.valid
        BY <3>3 DEF Arrives, FlagsOf
      <4>2. PacketOK(flight'[j])
        BY <1>2 DEF FlightOK
      <4>3. flight'[j].age \in Nat /\ 1 <= flight'[j].age
        BY <3>3, <4>2, CameCases, PacketFacts
      <4>4. Base(flight'[j], 1) = 0
        BY DEF Base
      <4> QED  BY <3>2, <4>1, <4>3, <4>4
    <3> HIDE DEF in
    <3> QED  BY <2>1, <3>1, <3>2, <3>3 DEF ShiftOf
  <2>2. CASE k # 1
    <3> DEFINE r == layer[k - 1].sr.meta
               t == LookupAge(k - 1) + 2
    <3>1. k > 1 /\ k - 1 \in Layers /\ k \in Nat \ {0} /\ (k - 1) + 1 = k
      BY <2>2, TopAssumption DEF Layers
    <3>2. /\ LookupAge(k) = t + 1 /\ t \in Nat \ {0}
          /\ LookupAge(k - 1) \in Nat /\ LookupAge(k - 1) < t
      <4>1. LookupAge(k) = LookupAge(k - 1) + 3 /\ LookupAge(k - 1) \in Nat \ {0}
        BY <3>1, LayerAges
      <4> QED  BY <4>1
    <3>3. ShiftOf(r, t, k, flight)
      <4>1. ShiftsHold(layer[k - 1], k - 1, flight)
        BY <3>1 DEF ShiftsInv
      <4> QED  BY <3>1, <4>1 DEF ShiftsHold
    <3> HIDE DEF t
    <3>4. ASSUME NEW i \in 1 .. Len(flight), flight[i].age >= t
          PROVE  k <= Len(flight[i].infos) + 1
      <4>1. PacketOK(flight[i]) /\ Len(flight[i].infos) \in Nat /\ flight[i].age \in Nat
        BY <1>2, PacketFacts DEF FlightOK
      <4>2. LookupAge(k - 1) < flight[i].age
        BY <3>2, <3>4, <4>1
      <4>3. (k - 1) + 1 <= Len(flight[i].infos)
        BY <3>1, <4>1, <4>2 DEF PacketOK
      <4> QED  BY <3>1, <4>1, <4>3
    <3> HIDE DEF r
    <3>5. ShiftOf(r, t + 1, k, flight')
      BY <1>2, <3>1, <3>2, <3>3, <3>4, ShiftKept
    <3>6. in(k).meta = r
      BY <2>2 DEF DepLayerOut, LayerIn, r
    <3> HIDE DEF in
    <3> QED  BY <3>2, <3>5, <3>6
  <2> QED  BY <2>1, <2>2
<1> HIDE DEF in
<1>4. ASSUME NEW k \in Layers PROVE ShiftsHold(layer'[k], k, flight')
  <2>1. LayerHolds(layer[k], k, flight) /\ ShiftsHold(layer[k], k, flight)
    BY DEF HeadsInv, ShiftsInv
  <2>2. ShiftOf(in(k).meta, LookupAge(k), k, flight')
    BY <1>3
  <2>3. ShiftsHold(DepLayerClock(layer[k], in(k), WordFor(k, w)), k, flight')
    BY <1>2, <2>1, <2>2, ShiftsStep
  <2> QED  BY <1>1, <2>3
<1> QED  BY <1>4 DEF ShiftsInv

LEMMA ResetLeaves ==
  ASSUME TypeOK, Reset
  PROVE  /\ flight' = flight
         /\ \A k \in Layers : layer'[k].meta = layer[k].meta /\ layer'[k].sr = layer[k].sr
BY DEF Reset, DepLayerReset, TypeOK, DepLayerRegs

LEMMA ShiftsStart == Init => ShiftsInv
<1> SUFFICES ASSUME Init PROVE ShiftsInv
  OBVIOUS
<1>1. flight = <<>> /\ Len(flight) = 0
  BY DEF Init
<1>2. ASSUME NEW k \in Layers PROVE ShiftsHold(layer[k], k, flight)
  <2>1. /\ layer[k].meta = ZeroSlice /\ layer[k].sr.preMeta = ZeroSlice
        /\ layer[k].sr.meta = ZeroSlice /\ ~layer[k].sr.startBit
    BY <1>1 DEF Init, ZeroDepLayer
  <2>2. ~ZeroSlice.valid /\ ~ZeroSlice.shift /\ ~ZeroSlice.tail
    BY DEF ZeroSlice
  <2> QED  BY <1>1, <2>1, <2>2 DEF ShiftsHold, ShiftOf, BaseFound
<1> QED  BY <1>2 DEF ShiftsInv

LEMMA ShiftsKept ==
  ASSUME TypeOK, HeadsInv, ShiftsInv, [Next]_vars
  PROVE  ShiftsInv'
<1>1. CASE Reset
  <2>1. ASSUME NEW k \in Layers PROVE ShiftsHold(layer'[k], k, flight')
    <3>1. /\ flight' = flight
          /\ layer'[k].meta = layer[k].meta /\ layer'[k].sr = layer[k].sr
      BY <1>1, ResetLeaves
    <3>2. ShiftsHold(layer[k], k, flight)
      BY DEF ShiftsInv
    <3> QED  BY <3>1, <3>2 DEF ShiftsHold
  <2> QED  BY <2>1 DEF ShiftsInv
<1>2. CASE Next /\ ~Reset
  BY <1>2, ArrivalAlways, ClockShifts
<1>3. CASE UNCHANGED vars
  BY <1>3 DEF vars, ShiftsInv
<1> QED  BY <1>1, <1>2, <1>3

-----------------------------------------------------------------------------
(* Where the fields of a layer go: the remainder and the carry of the      *)
(* accumulated meta shift name the same unit of the packet as the position *)
(* itself, and no two fields are aimed at one unit.                        *)
LEMMA SmallMod ==
  ASSUME NEW s \in Nat, NEW n \in Nat, s < n
  PROVE  s % n = s
<1> DEFINE d == s \div n
           r == s % n
<1>1. s = n * d + r /\ d \in Int /\ r \in 0 .. n - 1
  OBVIOUS
<1> HIDE DEF d, r
<1>2. d <= -1 => n * d <= -n
  BY <1>1
<1>3. d >= 1 => n * d >= n
  BY <1>1
<1>4. d = 0
  BY <1>1, <1>2, <1>3
<1>5. r = s
  BY <1>1, <1>4
<1> QED  BY <1>5 DEF r

LEMMA OtherUnit ==
  ASSUME NEW a \in Nat, NEW s \in UnitIds, NEW z \in UnitIds,
         (a + s) % CANDI_NUM = (a + z) % CANDI_NUM
  PROVE  s = z
<1>1. PICK d \in Nat, r \in UnitIds : a = Row(d) + r
  BY RowOf
<1>2. /\ CANDI_NUM \in Nat \ {0} /\ r \in 0 .. CANDI_NUM - 1
      /\ Row(d) \in Nat /\ Row(d + 1) = Row(d) + CANDI_NUM /\ d + 1 \in Nat
  BY <1>1, RowLemma, WidthAssumption DEF UnitIds
<1>3. ASSUME NEW x \in UnitIds
      PROVE  (a + x) % CANDI_NUM = IF x + r < CANDI_NUM THEN x + r ELSE x + r - CANDI_NUM
  <2>1. x \in 0 .. CANDI_NUM - 1
    BY DEF UnitIds
  <2>2. CASE x + r < CANDI_NUM
    <3>1. x + r \in UnitIds /\ a + x = Row(d) + (x + r)
      BY <1>1, <1>2, <2>1, <2>2 DEF UnitIds
    <3>2. (a + x) % CANDI_NUM = x + r
      BY <3>1, DivRow
    <3> QED  BY <2>2, <3>2
  <2>3. CASE ~(x + r < CANDI_NUM)
    <3> DEFINE y == x + r - CANDI_NUM
    <3>1. y \in UnitIds /\ a + x = Row(d + 1) + y
      BY <1>1, <1>2, <2>1, <2>3 DEF UnitIds
    <3>2. (Row(d + 1) + y) % CANDI_NUM = y
      <4> HIDE DEF y
      <4> QED  BY <1>2, <3>1, DivRow
    <3>3. (a + x) % CANDI_NUM = y
      BY <3>1, <3>2
    <3> QED  BY <2>3, <3>3
  <2> QED  BY <2>2, <2>3
<1>4. s \in 0 .. CANDI_NUM - 1 /\ z \in 0 .. CANDI_NUM - 1
  BY DEF UnitIds
<1> QED  BY <1>2, <1>3, <1>4

LEMMA Placed ==
  ASSUME NEW p, PacketOK(p), NEW k \in 1 .. Len(p.infos), LayerExpressible(p, k),
         NEW j \in KeyIds, p.infos[k].keyOffset_v[j],
         NEW at, at = MetaPos(p.infos, k) + p.replaces[k][j]
  PROVE  /\ Aim(p, k)[j] % CANDI_NUM = at % CANDI_NUM
         /\ Aim(p, k)[j] >= CANDI_NUM <=> at \div CANDI_NUM = Base(p, k) + 1
         /\ at \div CANDI_NUM \in {Base(p, k), Base(p, k) + 1}
         /\ at = Row(at \div CANDI_NUM) + (at % CANDI_NUM) /\ at \in Nat
         /\ MetaPos(p.infos, k) \div CANDI_NUM = Base(p, k)
<1> DEFINE a == MetaPos(p.infos, k)
           s == p.replaces[k][j]
<1>1. p.infos \in Seq(LookupRst) /\ Len(p.infos) \in Nat /\ k \in 1 .. Len(p.infos) + 1
  BY PacketFacts
<1>2. a \in Nat /\ MetaPos(p.infos, 1) = 0 /\ s \in UnitIds
  <2>1. a \in Nat /\ MetaPos(p.infos, 1) = 0
    BY <1>1, Positions
  <2>2. p.replaces[k] \in [KeyIds -> UnitIds]
    BY PacketHead
  <2> QED  BY <2>1, <2>2
<1>3. 0 \div CANDI_NUM = 0 /\ 0 % CANDI_NUM = 0
  <2>1. 0 = Row(0) + 0 /\ 0 \in UnitIds
    BY RowLemma, ConstantTypes
  <2> QED  BY <2>1, DivRow
<1>4. k > 1 => s < RepOffsetMod /\ a \div CANDI_NUM = MetaPos(p.infos, k - 1) \div CANDI_NUM
  BY DEF LayerExpressible
<1>5. a \div CANDI_NUM = Base(p, k)
  <2>1. CASE k = 1
    BY <1>2, <1>3, <2>1 DEF Base
  <2>2. CASE k # 1
    BY <1>4, <2>2 DEF Base
  <2> QED  BY <2>1, <2>2
<1>6. Aim(p, k)[j] = s + (a % CANDI_NUM)
  <2>1. CASE k = 1
    <3>1. Aim(p, k)[j] = s /\ s \in Nat
      BY <1>2, <2>1 DEF Aim, UnitIds
    <3>2. a % CANDI_NUM = 0
      BY <1>2, <1>3, <2>1
    <3> QED  BY <3>1, <3>2
  <2>2. CASE k # 1
    <3>1. s < RepOffsetMod /\ s \in Nat /\ RepOffsetMod \in Nat
      BY <1>2, <1>4, <2>2, NumAssumption DEF UnitIds, RepOffsetMod
    <3>2. s % RepOffsetMod = s
      BY <3>1, SmallMod
    <3> QED  BY <2>2, <3>2 DEF Aim
  <2> QED  BY <2>1, <2>2
<1>7. at = a + s
  OBVIOUS
<1> DEFINE b == Base(p, k)
           g == Aim(p, k)[j]
<1> HIDE DEF a, s, b, g
<1>8. a \div CANDI_NUM = b /\ g = s + (a % CANDI_NUM)
  BY <1>5, <1>6 DEF a, s, b, g
<1>9. /\ g % CANDI_NUM = at % CANDI_NUM
      /\ g >= CANDI_NUM <=> at \div CANDI_NUM = b + 1
      /\ at \div CANDI_NUM \in {b, b + 1}
  BY <1>2, <1>7, <1>8, Carried
<1>10. at \in Nat
  BY <1>2, <1>7 DEF UnitIds
<1>11. at = Row(at \div CANDI_NUM) + (at % CANDI_NUM)
  BY <1>10, ConstantTypes, Carried
<1> QED  BY <1>8, <1>9, <1>10, <1>11 DEF b, g, a

(* The field for unit u is aimed at slice d of the packet.                 *)
AimedHere(p, k, d, u) ==
  \/ d = Base(p, k) /\ ~AimedAt(p, k).carry[u]
  \/ d = Base(p, k) + 1 /\ AimedAt(p, k).carry[u]

LEMMA FieldAt ==
  ASSUME NEW p, PacketOK(p), NEW k \in 1 .. Len(p.infos), LayerExpressible(p, k),
         NEW d \in Nat, NEW u \in UnitIds
  PROVE  /\ (\E f \in LayerFields(p, k) : f.at = Row(d) + u)
              <=> AimedAt(p, k).v[u] /\ AimedHere(p, k, d, u)
         /\ AimedAt(p, k).v[u] /\ AimedHere(p, k, d, u) =>
              (CHOOSE f \in LayerFields(p, k) : f.at = Row(d) + u).field
                 = FieldsOf(p, k)[AimedAt(p, k).key[u]]
<1> DEFINE valid(n) == p.infos[k].keyOffset_v[n]
           A(n) == Aim(p, k)[n]
           At == {n \in KeyIds : valid(n) /\ A(n) % CANDI_NUM = u}
           b == Base(p, k)
           P(n) == MetaPos(p.infos, k) + p.replaces[k][n]
           F(n) == [at    |-> P(n),
                    field |-> Flat(p.head, HeadPos(p.infos, k) + p.infos[k].keyOffset[n])]
           T == AimedAt(p, k)
           here == AimedHere(p, k, d, u)
<1>1. /\ T.v[u] <=> At # {}
      /\ T.carry[u] <=> \E n \in At : A(n) >= CANDI_NUM
      /\ T.key[u] = OrOf(At)
  BY DEF AimedAt, TargetsOf
<1>2. b \in Nat
  <2>1. k \in 1 .. Len(p.infos) + 1
    BY PacketFacts
  <2> QED  BY <2>1, BaseStep
<1>3. \A n \in KeyIds : valid(n) =>
        /\ A(n) % CANDI_NUM = P(n) % CANDI_NUM
        /\ A(n) >= CANDI_NUM <=> P(n) \div CANDI_NUM = b + 1
        /\ P(n) \div CANDI_NUM \in {b, b + 1}
        /\ P(n) = Row(P(n) \div CANDI_NUM) + (P(n) % CANDI_NUM)
  BY Placed
<1>4. \A j, n \in At : j = n
  <2> SUFFICES ASSUME NEW j \in At, NEW n \in At PROVE j = n
    OBVIOUS
  <2>1. (MetaPos(p.infos, k) + p.replaces[k][j]) % CANDI_NUM
          = (MetaPos(p.infos, k) + p.replaces[k][n]) % CANDI_NUM
    BY <1>3
  <2>2. p.replaces[k][j] \in UnitIds /\ p.replaces[k][n] \in UnitIds
    <3>1. p.replaces[k] \in [KeyIds -> UnitIds]
      BY PacketHead
    <3> QED  BY <3>1
  <2>3. MetaPos(p.infos, k) \in Nat
    <3>1. p.infos \in Seq(LookupRst) /\ k \in 1 .. Len(p.infos) + 1
      BY PacketFacts
    <3> QED  BY <3>1, Positions
  <2>4. p.replaces[k][j] = p.replaces[k][n]
    BY <2>1, <2>2, <2>3, OtherUnit
  <2>5. \A x, y \in {z \in KeyIds : valid(z)} :
          p.replaces[k][x] % CANDI_NUM = p.replaces[k][y] % CANDI_NUM => x = y
    BY DEF LayerExpressible
  <2> QED  BY <2>4, <2>5
<1>5. LayerFields(p, k) = {F(n) : n \in {z \in KeyIds : valid(z)}}
  BY DEF LayerFields
<1>6. FieldsOf(p, k) = [n \in KeyIds |-> IF valid(n) THEN F(n).field ELSE Zero]
  <2>1. \A n \in KeyIds : p.infos[k].keyOffset[n] \in UnitIds
    <3>1. p.infos[k] \in LookupRst
      BY PacketHead
    <3> QED  BY <3>1 DEF LookupRst
  <2> QED  BY <2>1 DEF FieldsOf, ExtractKeys, Window
<1>7. \A n : F(n).at = P(n)
  OBVIOUS
<1>8. At \in SUBSET KeyIds /\ \A n \in KeyIds : n \in At <=> valid(n) /\ A(n) % CANDI_NUM = u
  OBVIOUS
<1>9. here <=> (d = b /\ ~T.carry[u]) \/ (d = b + 1 /\ T.carry[u])
  BY DEF AimedHere
<1> HIDE DEF F, T, At, A, P, valid, b, here
<1>10. \A n \in KeyIds : valid(n) =>
         (P(n) = Row(d) + u <=> /\ n \in At
                                /\ \/ d = b /\ ~(A(n) >= CANDI_NUM)
                                   \/ d = b + 1 /\ A(n) >= CANDI_NUM)
  <2> SUFFICES ASSUME NEW n \in KeyIds, valid(n)
               PROVE  P(n) = Row(d) + u <=>
                        /\ n \in At
                        /\ \/ d = b /\ ~(A(n) >= CANDI_NUM)
                           \/ d = b + 1 /\ A(n) >= CANDI_NUM
    OBVIOUS
  <2> DEFINE row == P(n) \div CANDI_NUM
             rest == P(n) % CANDI_NUM
  <2>1. P(n) = Row(d) + u => row = d /\ rest = u
    BY DivRow
  <2>2. /\ n \in At <=> rest = u
        /\ A(n) >= CANDI_NUM <=> row = b + 1
        /\ row = b \/ row = b + 1
        /\ P(n) = Row(row) + rest
    BY <1>3, <1>8
  <2> HIDE DEF row, rest
  <2>3. b # b + 1
    BY <1>2
  <2> QED  BY <2>1, <2>2, <2>3
<1>11. CASE At = {}
  <2>1. ~T.v[u]
    BY <1>1, <1>11
  <2>2. ~\E f \in LayerFields(p, k) : f.at = Row(d) + u
    BY <1>5, <1>7, <1>10, <1>11
  <2> QED  BY <2>1, <2>2 DEF T, here
<1>12. CASE At # {}
  <2>1. PICK j \in KeyIds : At = {j} /\ valid(j)
    BY <1>4, <1>8, <1>12
  <2>2. T.v[u] /\ (T.carry[u] <=> A(j) >= CANDI_NUM) /\ T.key[u] = j
    BY <1>1, <1>8, <1>12, <2>1, OrLemma
  <2>3. here <=> P(j) = Row(d) + u
    BY <1>9, <1>10, <2>1, <2>2
  <2>4. \A f \in LayerFields(p, k) : f.at = Row(d) + u => f = F(j)
    BY <1>5, <1>7, <1>10, <2>1
  <2>5. F(j) \in LayerFields(p, k)
    BY <1>5, <2>1
  <2>6. (\E f \in LayerFields(p, k) : f.at = Row(d) + u) <=> here
    BY <1>7, <2>3, <2>4, <2>5
  <2>7. ASSUME here
        PROVE  (CHOOSE f \in LayerFields(p, k) : f.at = Row(d) + u).field = FieldsOf(p, k)[T.key[u]]
    <3>1. F(j).at = Row(d) + u
      BY <1>7, <2>3, <2>7
    <3>2. (CHOOSE f \in LayerFields(p, k) : f.at = Row(d) + u) = F(j)
      BY <2>4, <2>5, <3>1
    <3>3. FieldsOf(p, k)[T.key[u]] = F(j).field
      BY <1>6, <2>1, <2>2
    <3> QED  BY <3>2, <3>3
  <2> QED  BY <2>2, <2>6, <2>7 DEF T, here
<1> QED  BY <1>11, <1>12

(* A unit after one more layer.                                            *)
LEMMA ResultStep ==
  ASSUME NEW p, NEW k \in Nat \ {0}, NEW n
  PROVE  Result(p, k + 1, n) =
           IF \E f \in LayerFields(p, k) : f.at = n
             THEN (CHOOSE f \in LayerFields(p, k) : f.at = n).field
             ELSE Result(p, k, n)
<1> DEFINE W(m) == \E f \in LayerFields(p, m) : f.at = n
           By(i) == {m \in 1 .. i - 1 : W(m)}
           V(m) == (CHOOSE f \in LayerFields(p, m) : f.at = n).field
           Final(S) == CHOOSE m \in S : \A o \in S : o <= m
<1>1. \A i : Result(p, i, n) = IF By(i) = {} THEN Flat(p.slices, n) ELSE V(Final(By(i)))
  BY DEF Result
<1>2. /\ W(k) => By(k + 1) = By(k) \cup {k}
      /\ ~W(k) => By(k + 1) = By(k)
      /\ \A m \in By(k) : m \in Nat /\ m < k
  <2>1. \A m : m \in 1 .. (k + 1) - 1 <=> m \in 1 .. k - 1 \/ m = k
    OBVIOUS
  <2> HIDE DEF W
  <2> QED  BY <2>1
<1> HIDE DEF W, By, V
<1>3. W(k) => Final(By(k + 1)) = k
  <2> SUFFICES ASSUME W(k) PROVE Final(By(k + 1)) = k
    OBVIOUS
  <2>1. k \in By(k + 1) /\ \A o \in By(k + 1) : o \in Nat /\ o <= k
    BY <1>2
  <2>2. \A m \in By(k + 1) : (\A o \in By(k + 1) : o <= m) => m = k
    <3> SUFFICES ASSUME NEW m \in By(k + 1), \A o \in By(k + 1) : o <= m PROVE m = k
      OBVIOUS
    <3>1. k <= m /\ m <= k /\ m \in Nat
      BY <2>1
    <3> QED  BY <3>1
  <2> QED  BY <2>1, <2>2
<1>4. CASE W(k)
  <2>1. By(k + 1) # {}
    BY <1>2, <1>4
  <2>2. Result(p, k + 1, n) = V(k)
    BY <1>1, <1>3, <1>4, <2>1
  <2> QED  BY <1>4, <2>2 DEF W, V
<1>5. CASE ~W(k)
  <2>1. Result(p, k + 1, n) = Result(p, k, n)
    BY <1>1, <1>2, <1>5
  <2> QED  BY <1>5, <2>1 DEF W
<1> QED  BY <1>4, <1>5

-----------------------------------------------------------------------------
(* What the layers have made of a slice stays true of it.                  *)
LEMMA GrownExpressible ==
  ASSUME NEW p, PacketOK(p), NEW q, PacketOK(q), NEW lay, NEW in, Grown(p, q, lay, in),
         NEW n \in 1 .. Len(p.infos)
  PROVE  (LayerExpressible(q, n) <=> LayerExpressible(p, n)) /\ (InFirst(q, n) <=> InFirst(p, n))
<1>1. q.infos[n] = p.infos[n] /\ q.replaces[n] = p.replaces[n]
  BY DEF Grown
<1>2. n \in 1 .. Len(p.infos) + 1 /\ (n > 1 => n - 1 \in 1 .. Len(p.infos) + 1)
  BY PacketFacts
<1>3. /\ MetaPos(q.infos, n) = MetaPos(p.infos, n)
      /\ n > 1 => MetaPos(q.infos, n - 1) = MetaPos(p.infos, n - 1)
  BY <1>2, GrownPos
<1> QED  BY <1>1, <1>3 DEF LayerExpressible, InFirst

LEMMA GrownResult ==
  ASSUME NEW p, PacketOK(p), NEW q, PacketOK(q), NEW lay, NEW in, in.data \in Data,
         Grown(p, q, lay, in), NEW k \in Nat \ {0}, k <= Len(p.infos) + 1,
         NEW n \in Nat, n < Row(p.age)
  PROVE  Result(q, k, n) = Result(p, k, n)
<1> DEFINE by == {m \in 1 .. k - 1 : \E f \in LayerFields(p, m) : f.at = n}
           last == CHOOSE m \in by : \A o \in by : o <= m
<1>1. \A m \in 1 .. k - 1 : LayerFields(q, m) = LayerFields(p, m)
  <2>1. \A m \in 1 .. k - 1 : m \in 1 .. Len(p.infos)
    BY PacketFacts
  <2> QED  BY <2>1, GrownRules
<1>2. by = {m \in 1 .. k - 1 : \E f \in LayerFields(q, m) : f.at = n}
  BY <1>1
<1>3. Flat(q.slices, n) = Flat(p.slices, n)
  BY GrownFlat
<1>4. by \subseteq 1 .. k - 1
  OBVIOUS
<1>5. /\ Result(p, k, n) = IF by = {} THEN Flat(p.slices, n)
                           ELSE (CHOOSE f \in LayerFields(p, last) : f.at = n).field
      /\ Result(q, k, n) = IF by = {} THEN Flat(q.slices, n)
                           ELSE (CHOOSE f \in LayerFields(q, last) : f.at = n).field
  <2>1. Result(p, k, n) = IF by = {} THEN Flat(p.slices, n)
                           ELSE (CHOOSE f \in LayerFields(p, last) : f.at = n).field
    BY DEF Result
  <2> DEFINE byq == {m \in 1 .. k - 1 : \E f \in LayerFields(q, m) : f.at = n}
             lastq == CHOOSE m \in byq : \A o \in byq : o <= m
  <2>2. Result(q, k, n) = IF byq = {} THEN Flat(q.slices, n)
                           ELSE (CHOOSE f \in LayerFields(q, lastq) : f.at = n).field
    BY DEF Result
  <2>3. by = byq
    BY <1>2
  <2> HIDE DEF by, byq
  <2> QED  BY <2>1, <2>2, <2>3
<1> HIDE DEF by
<1>6. by # {} => last \in by
  <2> SUFFICES ASSUME by # {} PROVE \E m \in by : \A o \in by : o <= m
    OBVIOUS
  <2> DEFINE T == {k - m : m \in by}
  <2>0. \A m \in by : k - m \in Nat
    BY <1>4
  <2>1. T \subseteq Nat /\ T # {}
    BY <2>0
  <2>2. PICK x \in T : \A y \in T : x <= y
    BY <2>1, LeastNumber
  <2>3. PICK m \in by : x = k - m
    BY <2>2
  <2>4. \A o \in by : k - m <= k - o
    BY <2>2, <2>3
  <2> HIDE DEF T
  <2>5. \A o \in by : o <= m
    BY <1>4, <2>4
  <2> QED  BY <2>5
<1> HIDE DEF last
<1>7. by # {} => LayerFields(q, last) = LayerFields(p, last)
  BY <1>1, <1>4, <1>6
<1>8. CASE by = {}
  BY <1>3, <1>5, <1>8
<1>9. CASE by # {}
  <2>1. LayerFields(q, last) = LayerFields(p, last)
    BY <1>7, <1>9
  <2>2. Result(q, k, n) = (CHOOSE f \in LayerFields(q, last) : f.at = n).field
    BY <1>5, <1>9
  <2>3. Result(p, k, n) = (CHOOSE f \in LayerFields(p, last) : f.at = n).field
    BY <1>5, <1>9
  <2> QED  BY <2>1, <2>2, <2>3
<1> QED  BY <1>8, <1>9

LEMMA DataKept ==
  ASSUME NEW fl, FlightOK(fl), NEW fl2, FlightOK(fl2), NEW lay, NEW in, in.data \in Data,
         Moved(fl, fl2, lay, in), NEW t \in Nat \ {0}, NEW k \in Nat \ {0},
         \A i \in 1 .. Len(fl) : fl[i].age >= t => k <= Len(fl[i].infos) + 1,
         NEW r, DataOf(r, t, k, fl)
  PROVE  DataOf(r, t + 1, k, fl2)
<1>C. \A j \in 1 .. Len(fl2) : Came(fl2[j], t + 1) =>
        \E i \in 1 .. Len(fl) :
          /\ Grown(fl[i], fl2[j], lay, in) /\ Came(fl[i], t)
          /\ PacketOK(fl[i]) /\ PacketOK(fl2[j])
          /\ fl[i].age \in Nat /\ fl2[j].age = fl[i].age + 1
  BY CameFrom
<1> SUFFICES ASSUME NEW j \in 1 .. Len(fl2), Came(fl2[j], t + 1),
                    \A n \in 1 .. k - 1 : LayerExpressible(fl2[j], n),
                    r.tail => fl2[j].age = t + 1 /\ \A n \in 1 .. k - 1 : InFirst(fl2[j], n),
                    NEW u \in UnitIds
             PROVE  r.data[u] = Result(fl2[j], k, Row(fl2[j].age - (t + 1)) + u)
  BY DEF DataOf
<1>1. PICK i \in 1 .. Len(fl) :
        /\ Grown(fl[i], fl2[j], lay, in) /\ Came(fl[i], t)
        /\ PacketOK(fl[i]) /\ PacketOK(fl2[j])
        /\ fl[i].age \in Nat /\ fl2[j].age = fl[i].age + 1
  BY <1>C
<1> DEFINE p == fl[i]
           q == fl2[j]
           d == p.age - t
<1>2. p.age >= t /\ Len(p.infos) \in Nat /\ d \in Nat /\ q.age - (t + 1) = d /\ d < p.age
  <2>1. p.age >= t /\ Len(p.infos) \in Nat /\ p.age \in Nat /\ q.age = p.age + 1
    BY <1>1, CameCases, PacketFacts
  <2> HIDE DEF p, q
  <2> QED  BY <2>1
<1>3. k <= Len(p.infos) + 1 /\ \A n \in 1 .. k - 1 : n \in 1 .. Len(p.infos)
  BY <1>2
<1>4. \A n \in 1 .. k - 1 : LayerExpressible(p, n) /\ (r.tail => InFirst(p, n))
  BY <1>1, <1>3, GrownExpressible
<1>5. r.tail => p.age = t
  BY <1>1
<1>6. r.data[u] = Result(p, k, Row(d) + u)
  BY <1>1, <1>4, <1>5 DEF DataOf
<1>7. Row(d) + u \in Nat /\ Row(d) + u < Row(p.age)
  <2> HIDE DEF p, d
  <2>1. Row(d) \in Nat /\ Row(p.age) \in Nat /\ Row(d) + CANDI_NUM <= Row(p.age)
    BY <1>1, <1>2, RowLemma DEF p
  <2> QED  BY <2>1, WidthAssumption DEF UnitIds
<1>8. Result(q, k, Row(d) + u) = Result(p, k, Row(d) + u)
  BY <1>1, <1>3, <1>7, GrownResult
<1> QED  BY <1>2, <1>6, <1>8

(* A unit is a target of a valid key only.                                 *)
LEMMA TargetsFrom ==
  ASSUME NEW valid, NEW place, NEW u \in UnitIds, TargetsOf(valid, place).v[u]
  PROVE  \E j \in KeyIds : valid[j]
<1>1. {k \in KeyIds : valid[k] /\ place[k] % CANDI_NUM = u} # {}
  BY DEF TargetsOf
<1> QED  BY <1>1

(* Shift_Replace_Head puts the fields of its layer where they belong.      *)
LEMMA DataMoved ==
  ASSUME NEW fl, FlightOK(fl), NEW k \in Nat \ {0}, NEW t \in Nat \ {0},
         NEW sr \in ShiftReplaceRegs,
         \A i \in 1 .. Len(fl) : Came(fl[i], t) =>
           /\ k <= Len(fl[i].infos)
           /\ sr.field = FieldsOf(fl[i], k) /\ sr.target = AimedAt(fl[i], k),
         DataOf(sr.preMeta, t, k, fl), BaseFound(sr, t, k, fl)
  PROVE  DataOf(ReplacedMeta(sr), t, k + 1, fl)
<1> DEFINE pre == sr.preMeta
           r == ReplacedMeta(sr)
           T == sr.target
<1> SUFFICES ASSUME NEW i \in 1 .. Len(fl), Came(fl[i], t),
                    \A n \in 1 .. (k + 1) - 1 : LayerExpressible(fl[i], n),
                    r.tail => fl[i].age = t /\ \A n \in 1 .. (k + 1) - 1 : InFirst(fl[i], n),
                    NEW u \in UnitIds
             PROVE  r.data[u] = Result(fl[i], k + 1, Row(fl[i].age - t) + u)
  BY DEF DataOf
<1> DEFINE p == fl[i]
           d == p.age - t
           b == Base(p, k)
           field == sr.field[T.key[u]]
<1>1. /\ r.tail = pre.tail
      /\ ~T.v[u] => r.data[u] = pre.data[u]
      /\ sr.startBit /\ ~T.carry[u] /\ T.v[u] => r.data[u] = field
      /\ sr.startBit /\ T.carry[u] => r.data[u] = pre.data[u]
      /\ ~sr.startBit /\ sr.startBitCarry /\ T.carry[u] /\ T.v[u] => r.data[u] = field
      /\ ~sr.startBit /\ ~T.carry[u] => r.data[u] = pre.data[u]
      /\ ~sr.startBit /\ ~sr.startBitCarry => r.data[u] = pre.data[u]
  <2>1. pre \in Slice /\ T.carry[u] \in BOOLEAN
    BY DEF ShiftReplaceRegs, Targets
  <2>2. /\ r.tail = pre.tail
        /\ sr.startBit => r.data = [x \in UnitIds |->
             IF T.v[x] /\ T.carry[x] = FALSE THEN sr.field[T.key[x]] ELSE pre.data[x]]
        /\ ~sr.startBit /\ sr.startBitCarry => r.data = [x \in UnitIds |->
             IF T.v[x] /\ T.carry[x] = TRUE THEN sr.field[T.key[x]] ELSE pre.data[x]]
        /\ ~sr.startBit /\ ~sr.startBitCarry => r.data = pre.data
    BY <2>1 DEF ReplacedMeta, Slice
  <2>3. /\ sr.startBit => r.data[u] =
             IF T.v[u] /\ T.carry[u] = FALSE THEN field ELSE pre.data[u]
        /\ ~sr.startBit /\ sr.startBitCarry => r.data[u] =
             IF T.v[u] /\ T.carry[u] = TRUE THEN field ELSE pre.data[u]
        /\ ~sr.startBit /\ ~sr.startBitCarry => r.data[u] = pre.data[u]
    BY <2>2
  <2> HIDE DEF r, T, pre, field
  <2>4. CASE T.carry[u] = TRUE
    BY <2>2, <2>3, <2>4
  <2>5. CASE T.carry[u] = FALSE
    BY <2>2, <2>3, <2>5
  <2> QED  BY <2>1, <2>4, <2>5
<1>2. PacketOK(p) /\ k \in 1 .. Len(p.infos) /\ d \in Nat /\ Len(p.infos) \in Nat
  <2>1. PacketOK(p)
    BY DEF FlightOK
  <2>2. p.age >= t /\ p.age \in Nat /\ Len(p.infos) \in Nat
    BY <2>1, CameCases, PacketFacts
  <2> QED  BY <2>1, <2>2
<1>3. LayerExpressible(p, k) /\ \A n \in 1 .. k - 1 : LayerExpressible(p, n)
  OBVIOUS
<1>4. r.tail => d = 0 /\ InFirst(p, k) /\ \A n \in 1 .. k - 1 : InFirst(p, n)
  BY <1>2
<1>5. pre.data[u] = Result(p, k, Row(d) + u)
  BY <1>1, <1>3, <1>4 DEF DataOf
<1>6. b \in Nat
  <2>1. k \in 1 .. Len(p.infos) + 1
    BY <1>2
  <2> QED  BY <1>2, <2>1, BaseStep
<1>7. T = AimedAt(p, k) /\ sr.field = FieldsOf(p, k)
  OBVIOUS
<1>8. T.v[u] => /\ sr.startBit <=> d = b
                /\ ~sr.startBit => (sr.startBitCarry <=> d = b + 1)
  <2> SUFFICES ASSUME T.v[u]
               PROVE  /\ sr.startBit <=> d = b
                      /\ ~sr.startBit => (sr.startBitCarry <=> d = b + 1)
    OBVIOUS
  <2>1. CASE ~pre.tail
    BY <2>1 DEF BaseFound
  <2>2. CASE pre.tail
    <3>1. sr.startBit
      BY <2>2 DEF BaseFound
    <3>2. PICK j \in KeyIds : p.infos[k].keyOffset_v[j]
      <4> HIDE DEF p
      <4> QED  BY <1>7, TargetsFrom DEF AimedAt
    <3>3. MetaPos(p.infos, k) < CANDI_NUM
      BY <1>1, <1>4, <2>2, <3>2 DEF InFirst
    <3>4. MetaPos(p.infos, k) \div CANDI_NUM = b
      BY <1>2, <1>3, <3>2, Placed
    <3>5. MetaPos(p.infos, k) \in Nat
      <4>1. p.infos \in Seq(LookupRst) /\ k \in 1 .. Len(p.infos) + 1
        BY <1>2, PacketFacts
      <4> QED  BY <4>1, Positions
    <3> DEFINE a == MetaPos(p.infos, k)
    <3> HIDE DEF a
    <3>6. a \in UnitIds /\ a = Row(0) + a
      <4>1. a \in Nat /\ a < CANDI_NUM /\ CANDI_NUM \in Nat
        BY <3>3, <3>5, WidthAssumption DEF a
      <4>2. Row(0) = 0 /\ UnitIds = 0 .. CANDI_NUM - 1
        BY RowLemma DEF UnitIds
      <4> QED  BY <4>1, <4>2
    <3>7. a \div CANDI_NUM = 0
      BY <3>6, DivRow
    <3>8. b = 0 /\ d = 0
      BY <1>1, <1>4, <2>2, <3>4, <3>7 DEF a
    <3> QED  BY <3>1, <3>8
  <2> QED  BY <2>1, <2>2
<1> DEFINE here == AimedHere(p, k, d, u)
           at(f) == f.at = Row(d) + u
<1>9. /\ (\E f \in LayerFields(p, k) : at(f)) <=> T.v[u] /\ here
      /\ T.v[u] /\ here => (CHOOSE f \in LayerFields(p, k) : at(f)).field = field
  <2> DEFINE A == AimedAt(p, k)
  <2>1. /\ (\E f \in LayerFields(p, k) : f.at = Row(d) + u) <=> A.v[u] /\ here
        /\ A.v[u] /\ here => (CHOOSE f \in LayerFields(p, k) : f.at = Row(d) + u).field
                                = FieldsOf(p, k)[A.key[u]]
    <3> HIDE DEF p, d
    <3> QED  BY <1>2, <1>3, FieldAt
  <2> QED  BY <1>7, <2>1
<1>H. here <=> (d = b /\ ~T.carry[u]) \/ (d = b + 1 /\ T.carry[u])
  BY <1>7 DEF AimedHere
<1>10. Result(p, k + 1, Row(d) + u) =
         IF \E f \in LayerFields(p, k) : at(f)
           THEN (CHOOSE f \in LayerFields(p, k) : at(f)).field
           ELSE Result(p, k, Row(d) + u)
  BY ResultStep
<1> DEFINE new == (CHOOSE f \in LayerFields(p, k) : at(f)).field
           old == Result(p, k, Row(d) + u)
           result == Result(p, k + 1, Row(d) + u)
<1>11. result = IF T.v[u] /\ here THEN field ELSE old
  BY <1>9, <1>10
<1>12. b # b + 1
  BY <1>6
<1> HIDE DEF result, old, field, T, pre, r, d, b, p, here
<1>13. r.data[u] = result
  BY <1>1, <1>5, <1>8, <1>11, <1>12, <1>H DEF old
<1> QED  BY <1>13 DEF result, d, p

(* One clock of the slices a layer holds.                                  *)
LEMMA DataStep ==
  ASSUME NEW fl, FlightOK(fl), NEW fl2, FlightOK(fl2), NEW lay, NEW in, in.data \in Data,
         Moved(fl, fl2, lay, in), lay \in [Layers -> DepLayerRegs], NEW k \in Layers,
         LayerHolds(lay[k], k, fl), ShiftsHold(lay[k], k, fl),
         DataOf(lay[k].meta, LookupAge(k), k, fl),
         DataOf(lay[k].sr.preMeta, LookupAge(k) + 1, k, fl),
         NEW input, DataOf(input.meta, LookupAge(k), k, fl2), NEW w
  PROVE  LET m == DepLayerClock(lay[k], input, w)
         IN  /\ DataOf(m.meta, LookupAge(k), k, fl2)
             /\ DataOf(m.sr.preMeta, LookupAge(k) + 1, k, fl2)
             /\ DataOf(m.sr.meta, LookupAge(k) + 2, k + 1, fl2)
<1> DEFINE l == lay[k]
           t == LookupAge(k)
           m == DepLayerClock(l, input, w)
<1>1. m.meta = input.meta /\ m.sr.preMeta = l.meta /\ m.sr.meta = ReplacedMeta(l.sr)
  BY DEF DepLayerClock, ShiftReplaceClock
<1>2. t \in Nat \ {0} /\ k \in Nat \ {0}
  BY LayerAges
<1>3. l.sr \in ShiftReplaceRegs
  BY DEF DepLayerRegs
<1>4. /\ \A i \in 1 .. Len(fl) : RulesOf(l, fl[i], k)
      /\ DataOf(l.meta, t, k, fl) /\ DataOf(l.sr.preMeta, t + 1, k, fl)
      /\ BaseFound(l.sr, t + 1, k, fl)
  BY DEF LayerHolds, ShiftsHold
<1>5. \A i \in 1 .. Len(fl) : /\ PacketOK(fl[i]) /\ Len(fl[i].infos) \in Nat /\ fl[i].age \in Nat
                              /\ fl[i].age >= t => k <= Len(fl[i].infos)
  BY PacketFacts DEF FlightOK
<1>6. DataOf(m.meta, t, k, fl2)
  BY <1>1
<1> HIDE DEF m, t, l
<1>7. DataOf(m.sr.preMeta, t + 1, k, fl2)
  <2>1. \A i \in 1 .. Len(fl) : fl[i].age >= t => k <= Len(fl[i].infos) + 1
    BY <1>2, <1>5
  <2> QED  BY <1>1, <1>2, <1>4, <2>1, DataKept
<1>8. DataOf(m.sr.meta, t + 2, k + 1, fl2)
  <2> DEFINE r == ReplacedMeta(l.sr)
             t1 == t + 1
             k1 == k + 1
  <2>1. t1 \in Nat \ {0} /\ k1 \in Nat \ {0} /\ t + 2 = t1 + 1
    BY <1>2
  <2>2. ASSUME NEW i \in 1 .. Len(fl), Came(fl[i], t1)
        PROVE  /\ k <= Len(fl[i].infos)
               /\ l.sr.field = FieldsOf(fl[i], k) /\ l.sr.target = AimedAt(fl[i], k)
    <3>1. fl[i].age >= t1
      BY <1>5, <2>1, <2>2, CameCases
    <3>2. RulesOf(l, fl[i], k)
      BY <1>4
    <3>3. l.sr.field = FieldsOf(fl[i], k) /\ l.sr.target = AimedAt(fl[i], k)
      BY <2>2, <3>2 DEF RulesOf, t
    <3> QED  BY <1>2, <1>5, <3>1, <3>3
  <2>3. DataOf(l.sr.preMeta, t1, k, fl) /\ BaseFound(l.sr, t1, k, fl)
    BY <1>4
  <2>4. \A i \in 1 .. Len(fl) : fl[i].age >= t1 => k1 <= Len(fl[i].infos) + 1
    BY <1>2, <1>5
  <2> HIDE DEF t1
  <2>5. DataOf(r, t1, k1, fl)
    BY <1>2, <1>3, <2>1, <2>2, <2>3, DataMoved
  <2> HIDE DEF r, k1
  <2>6. DataOf(r, t1 + 1, k1, fl2)
    BY <2>1, <2>4, <2>5, DataKept
  <2> QED  BY <1>1, <2>1, <2>6 DEF r, k1
<1> QED  BY <1>6, <1>7, <1>8 DEF m, l, t

LEMMA ClockData ==
  ASSUME TypeOK, HeadsInv, ShiftsInv, DataInv, NEW h \in Slice, NEW m \in Slice,
         NEW w \in ConfInputs \cup {NoWord}, Arrives(h, m, w)
  PROVE  DataInv'
<1> DEFINE in(k) == LayerIn(k, h, m)
<1>1. layer' = [k \in Layers |-> DepLayerClock(layer[k], in(k), WordFor(k, w))]
  BY Inputs
<1>2. /\ FlightOK(flight) /\ layer \in [Layers -> DepLayerRegs] /\ m.data \in Data
      /\ FlightOK(flight') /\ Moved(flight, flight', layer, m)
  BY DEF HeadsInv, TypeOK, Slice, Arrives
<1>3. ASSUME NEW k \in Layers PROVE DataOf(in(k).meta, LookupAge(k), k, flight')
  <2>1. CASE k = 1
    <3>1. in(k).meta = m /\ LookupAge(k) = 1
      BY <2>1, LayerAges DEF LayerIn
    <3>2. ASSUME NEW j \in 1 .. Len(flight'), Came(flight'[j], 1), NEW u \in UnitIds
          PROVE  m.data[u] = Result(flight'[j], 1, Row(flight'[j].age - 1) + u)
      <4>1. m.data = Window(flight'[j].slices, Row(flight'[j].age - 1))
        BY <3>2 DEF Arrives
      <4>2. m.data[u] = Flat(flight'[j].slices, Row(flight'[j].age - 1) + u)
        BY <4>1 DEF Window
      <4>3. \A p, n : Result(p, 1, n) = Flat(p.slices, n)
        <5>1. 1 .. 1 - 1 = {}
          OBVIOUS
        <5> QED  BY <5>1 DEF Result
      <4> QED  BY <4>2, <4>3
    <3> HIDE DEF in
    <3> QED  BY <2>1, <3>1, <3>2 DEF DataOf
  <2>2. CASE k # 1
    <3> DEFINE r == layer[k - 1].sr.meta
               t == LookupAge(k - 1) + 2
    <3>1. k > 1 /\ k - 1 \in Layers /\ k \in Nat \ {0} /\ (k - 1) + 1 = k
      BY <2>2, TopAssumption DEF Layers
    <3>2. /\ LookupAge(k) = t + 1 /\ t \in Nat \ {0}
          /\ LookupAge(k - 1) \in Nat /\ LookupAge(k - 1) < t
      <4>1. LookupAge(k) = LookupAge(k - 1) + 3 /\ LookupAge(k - 1) \in Nat \ {0}
        BY <3>1, LayerAges
      <4> QED  BY <4>1
    <3>3. DataOf(r, t, k, flight)
      <4>1. DataOf(r, t, (k - 1) + 1, flight)
        BY <3>1 DEF DataInv
      <4> QED  BY <3>1, <4>1
    <3> HIDE DEF t
    <3>4. ASSUME NEW i \in 1 .. Len(flight), flight[i].age >= t
          PROVE  k <= Len(flight[i].infos) + 1
      <4>1. PacketOK(flight[i]) /\ Len(flight[i].infos) \in Nat /\ flight[i].age \in Nat
        BY <1>2, PacketFacts DEF FlightOK
      <4>2. LookupAge(k - 1) < flight[i].age
        BY <3>2, <3>4, <4>1
      <4>3. (k - 1) + 1 <= Len(flight[i].infos)
        BY <3>1, <4>1, <4>2 DEF PacketOK
      <4> QED  BY <3>1, <4>1, <4>3
    <3> HIDE DEF r
    <3>5. DataOf(r, t + 1, k, flight')
      BY <1>2, <3>1, <3>2, <3>3, <3>4, DataKept
    <3>6. in(k).meta = r
      BY <2>2 DEF DepLayerOut, LayerIn, r
    <3> HIDE DEF in
    <3> QED  BY <3>2, <3>5, <3>6
  <2> QED  BY <2>1, <2>2
<1> HIDE DEF in
<1>4. ASSUME NEW k \in Layers
      PROVE  /\ DataOf(layer'[k].meta, LookupAge(k), k, flight')
             /\ DataOf(layer'[k].sr.preMeta, LookupAge(k) + 1, k, flight')
             /\ DataOf(layer'[k].sr.meta, LookupAge(k) + 2, k + 1, flight')
  <2>1. /\ LayerHolds(layer[k], k, flight) /\ ShiftsHold(layer[k], k, flight)
        /\ DataOf(layer[k].meta, LookupAge(k), k, flight)
        /\ DataOf(layer[k].sr.preMeta, LookupAge(k) + 1, k, flight)
    BY DEF HeadsInv, ShiftsInv, DataInv
  <2> DEFINE n == DepLayerClock(layer[k], in(k), WordFor(k, w))
  <2>2. /\ DataOf(n.meta, LookupAge(k), k, flight')
        /\ DataOf(n.sr.preMeta, LookupAge(k) + 1, k, flight')
        /\ DataOf(n.sr.meta, LookupAge(k) + 2, k + 1, flight')
    BY <1>2, <1>3, <2>1, DataStep
  <2>3. layer'[k] = n
    BY <1>1
  <2> QED  BY <2>2, <2>3
<1> QED  BY <1>4 DEF DataInv

LEMMA DataAlways ==
  ASSUME TypeOK, HeadsInv, ShiftsInv, DataInv, [Next]_vars
  PROVE  DataInv'
<1>1. CASE Reset
  <2>1. /\ flight' = flight
        /\ \A k \in Layers : layer'[k].meta = layer[k].meta /\ layer'[k].sr = layer[k].sr
    BY <1>1, ResetLeaves
  <2> QED  BY <2>1 DEF DataInv
<1>2. CASE Next /\ ~Reset
  BY <1>2, ArrivalAlways, ClockData
<1>3. CASE UNCHANGED vars
  BY <1>3 DEF vars, DataInv
<1> QED  BY <1>1, <1>2, <1>3

(* A unit of the output, by the layers of the reference.                   *)
LEMMA Output ==
  ASSUME NEW p, PacketOK(p), Expressible(p), NEW d \in Nat, NEW u \in UnitIds
  PROVE  /\ Deparsed(p, d * CANDI_NUM + u) = Result(p, NUM_LAYER + 1, Row(d) + u)
         /\ \A n \in Layers : LayerExpressible(p, n)
         /\ Len(p.slices) = 1 => \A n \in Layers : InFirst(p, n)
<1>1. (NUM_LAYER + 1) - 1 = NUM_LAYER
  BY TopAssumption
<1>2. Deparsed(p, d * CANDI_NUM + u) = Result(p, NUM_LAYER + 1, Row(d) + u)
  <2> DEFINE n == Row(d) + u
             By(S) == {k \in S : \E f \in LayerFields(p, k) : f.at = n}
             UnitBy(S) == IF By(S) = {} THEN Flat(p.slices, n)
                         ELSE (CHOOSE f \in LayerFields(p, CHOOSE k \in By(S) : \A o \in By(S) : o <= k) :
                                 f.at = n).field
  <2>1. Deparsed(p, n) = UnitBy(Layers)
    BY DEF Deparsed
  <2>2. Result(p, NUM_LAYER + 1, n) = UnitBy(1 .. (NUM_LAYER + 1) - 1)
    BY DEF Result
  <2>3. 1 .. (NUM_LAYER + 1) - 1 = Layers
    BY <1>1 DEF Layers
  <2>4. n = d * CANDI_NUM + u
    BY DEF Row
  <2> HIDE DEF UnitBy, n
  <2>5. Deparsed(p, n) = Result(p, NUM_LAYER + 1, n)
    BY <2>1, <2>2, <2>3
  <2> QED  BY <2>4, <2>5 DEF n
<1>3. ASSUME NEW n \in Layers
      PROVE  LayerExpressible(p, n) /\ (Len(p.slices) = 1 => InFirst(p, n))
  BY DEF Expressible, LayerExpressible, InFirst
<1> QED  BY <1>2, <1>3

(* Whatever packets come and whatever rules are written, for any number of *)
(* layers, keys and units: the slices of a packet leave Deparser_Top three *)
(* clocks per layer after they came, and in every one but the tail of a    *)
(* longer packet each unit holds the field of the last header aimed at it. *)
THEOREM Replacement == StaticTargets => (Spec => []FieldsReplaced)
<1> SUFFICES ASSUME StaticTargets PROVE Spec => []FieldsReplaced
  OBVIOUS
<1> DEFINE Inv == TypeOK /\ HeadsInv /\ ShiftsInv /\ DataInv
<1>1. HeadsInv /\ DataInv => FieldsReplaced
  <2> SUFFICES ASSUME HeadsInv, DataInv PROVE FieldsReplaced
    OBVIOUS
  <2> DEFINE T == Latency * NUM_LAYER
  <2>1. T \in Nat /\ T > 1 /\ LookupAge(NUM_LAYER) + 2 = T /\ NUM_LAYER \in Layers
    <3>1. T \in Nat /\ T > 1
      BY TopAssumption DEF Latency
    <3> QED  BY <3>1, LayerAges
  <2> HIDE DEF T
  <2>2. FlagsOf(oMeta, T, flight) /\ DataOf(oMeta, T, NUM_LAYER + 1, flight)
    <3>1. LayerHolds(layer[NUM_LAYER], NUM_LAYER, flight)
      BY <2>1 DEF HeadsInv
    <3>2. DataOf(layer[NUM_LAYER].sr.meta, LookupAge(NUM_LAYER) + 2, NUM_LAYER + 1, flight)
      BY <2>1 DEF DataInv
    <3> QED  BY <2>1, <3>1, <3>2 DEF LayerHolds, oMeta
  <2>3. \A i \in 1 .. Len(flight) : Due(flight[i]) <=> Came(flight[i], T)
    BY DEF Due, Came, T
  <2>4. oMeta.valid <=> \E i \in 1 .. Len(flight) : Due(flight[i])
    BY <2>2, <2>3 DEF FlagsOf
  <2>5. ASSUME NEW i \in 1 .. Len(flight), Due(flight[i])
        PROVE  LET p == flight[i]
                   last == DueSlice(p) = Len(p.slices) - 1
               IN  /\ oMeta.start <=> DueSlice(p) = 0
                   /\ oMeta.tail <=> last
                   /\ (Expressible(p) /\ (last => DueSlice(p) = 0)) =>
                        \A u \in UnitIds :
                          oMeta.data[u] = Deparsed(p, DueSlice(p) * CANDI_NUM + u)
    <3> DEFINE p == flight[i]
               d == DueSlice(p)
               last == d = Len(p.slices) - 1
    <3>1. Came(p, T) /\ d = p.age - T
      BY <2>3, <2>5 DEF DueSlice, T
    <3>2. PacketOK(p) /\ p.age \in Nat /\ Len(p.slices) \in Nat
      BY PacketFacts DEF HeadsInv, FlightOK
    <3>3. p.age >= T
      BY <2>1, <3>1, <3>2, CameCases
    <3>4. d \in Nat /\ (d = 0 <=> p.age = T)
      <4> HIDE DEF d, p
      <4> QED  BY <2>1, <3>1, <3>2, <3>3
    <3>5. /\ oMeta.start <=> p.age = T
          /\ oMeta.tail <=> p.age - T = Len(p.slices) - 1
      BY <2>1, <2>2, <3>1 DEF FlagsOf
    <3>6. (oMeta.start <=> d = 0) /\ (oMeta.tail <=> last)
      BY <3>1, <3>4, <3>5
    <3>7. ASSUME Expressible(p), last => d = 0, NEW u \in UnitIds
          PROVE  oMeta.data[u] = Deparsed(p, d * CANDI_NUM + u)
      <4>1. /\ Deparsed(p, d * CANDI_NUM + u) = Result(p, NUM_LAYER + 1, Row(d) + u)
            /\ \A n \in Layers : LayerExpressible(p, n)
            /\ Len(p.slices) = 1 => \A n \in Layers : InFirst(p, n)
        <5> HIDE DEF d, p
        <5> QED  BY <3>2, <3>4, <3>7, Output
      <4>2. 1 .. (NUM_LAYER + 1) - 1 = Layers
        BY TopAssumption DEF Layers
      <4>3. oMeta.tail => p.age = T /\ Len(p.slices) = 1
        <5>1. oMeta.tail => d = 0 /\ Len(p.slices) = 1
          <6> HIDE DEF d, p
          <6> QED  BY <3>2, <3>4, <3>6, <3>7
        <5> QED  BY <3>4, <5>1
      <4>4. oMeta.data[u] = Result(p, NUM_LAYER + 1, Row(p.age - T) + u)
        BY <2>2, <3>1, <4>1, <4>2, <4>3 DEF DataOf
      <4> QED  BY <3>1, <4>1, <4>4
    <3> QED  BY <3>6, <3>7
  <2> QED  BY <2>4, <2>5 DEF FieldsReplaced
<1>2. Init => HeadsInv /\ ShiftsInv /\ DataInv
  <2> SUFFICES ASSUME Init PROVE DataInv
    BY HeadsStart, ShiftsStart
  <2>1. flight = <<>> /\ Len(flight) = 0
    BY DEF Init
  <2> QED  BY <2>1 DEF DataInv, DataOf
<1>3. Inv /\ [Next]_vars => HeadsInv' /\ ShiftsInv' /\ DataInv'
  BY HeadsStep, ShiftsKept, DataAlways
<1> HIDE DEF StaticTargets
<1> QED  BY <1>1, <1>2, <1>3, TypeCorrect, PTL DEF Spec
==============================================================================
