---------------------------- MODULE ProgramProofs ----------------------------
(* Theorems about the two programs that stand beside the hardware: the     *)
(* rule generator, for every table that read_csv may make of a file, and   *)
(* the parser in C, for every program of rules.                            *)
EXTENDS GenRule, CParser, FiniteSetTheorems, SequenceTheorems, WellFoundedInduction, TLAPS

-----------------------------------------------------------------------------
(* A set of numbers has a least one, and one with a bound a greatest one.  *)
LEMMA LeastNumber ==
  ASSUME NEW T, T \subseteq Nat, T # {}
  PROVE  \E x \in T : \A y \in T : x <= y
<1> DEFINE R == OpToRel(<, Nat)
<1>1. IsWellFoundedOn(R, Nat)
  BY NatLessThanWellFounded
<1>2. \A x \in Nat, y \in Nat : y < x => <<y, x>> \in R
  BY DEF OpToRel
<1> HIDE DEF R
<1>3. \E x \in T : \A y \in T : ~(<<y, x>> \in R)
  BY <1>1, WFMin
<1>4. PICK x \in T : \A y \in T : ~(<<y, x>> \in R)
  BY <1>3
<1>5. ASSUME NEW y \in T PROVE x <= y
  <2>1. x \in Nat /\ y \in Nat
    OBVIOUS
  <2>2. ~(y < x)
    BY <1>2, <1>4, <2>1
  <2> QED  BY <2>1, <2>2
<1> QED  BY <1>5

LEMMA GreatestNumber ==
  ASSUME NEW n \in Nat, NEW S, S \subseteq 1 .. n, S # {}
  PROVE  Max(S) \in S
<1> DEFINE T == {n - x : x \in S}
<1>1. T \subseteq Nat /\ T # {}
  <2>1. ASSUME NEW x \in S PROVE n - x \in Nat
    <3>1. x \in Nat /\ x <= n
      OBVIOUS
    <3> QED  BY <3>1
  <2> QED  BY <2>1
<1>2. PICK d \in T : \A e \in T : d <= e
  <2> HIDE DEF T
  <2> QED  BY <1>1, LeastNumber
<1>3. PICK x \in S : d = n - x
  OBVIOUS
<1>4. ASSUME NEW y \in S PROVE x >= y
  <2>1. n - y \in T /\ x \in Nat /\ y \in Nat
    OBVIOUS
  <2>2. n - x <= n - y
    BY <1>2, <1>3, <2>1
  <2> QED  BY <2>1, <2>2
<1> QED  BY <1>4 DEF Max

(* The sequences of the generator hold anything.                           *)
LEMMA SeqLemma ==
  ASSUME NEW s, IsSeq(s)
  PROVE  /\ Len(s) \in Nat /\ DOMAIN s = 1 .. Len(s) /\ (s = <<>> <=> Len(s) = 0)
         /\ \A i \in 1 .. Len(s) : s[i] \in ToSet(s)
         /\ \A w \in ToSet(s) : \E i \in 1 .. Len(s) : w = s[i]
<1>1. s \in Seq(ToSet(s))
  BY DEF IsSeq
<1>2. Len(s) \in Nat /\ DOMAIN s = 1 .. Len(s) /\ (s = <<>> <=> Len(s) = 0)
  BY <1>1
<1> QED  BY <1>2 DEF ToSet

LEMMA AnySeq ==
  ASSUME NEW S, NEW s \in Seq(S)
  PROVE  IsSeq(s)
<1>1. Len(s) \in Nat /\ s \in [1 .. Len(s) -> S] /\ DOMAIN s = 1 .. Len(s)
  OBVIOUS
<1>2. s \in [1 .. Len(s) -> ToSet(s)]
  BY <1>1 DEF ToSet
<1> DEFINE T == ToSet(s)
<1> HIDE DEF T
<1>3. s \in [1 .. Len(s) -> T]
  BY <1>2 DEF T
<1>4. s \in Seq(T)
  BY <1>1, <1>3
<1> QED  BY <1>4 DEF IsSeq, T

LEMMA AppendLemma ==
  ASSUME NEW s, IsSeq(s), NEW x
  PROVE  /\ IsSeq(Append(s, x)) /\ Len(Append(s, x)) = Len(s) + 1
         /\ Append(s, x)[Len(s) + 1] = x /\ \A i \in 1 .. Len(s) : Append(s, x)[i] = s[i]
         /\ Append(s, x) # <<>>
<1> DEFINE S == ToSet(s) \cup {x}
<1>1. Len(s) \in Nat /\ s \in [1 .. Len(s) -> ToSet(s)]
  BY DEF IsSeq
<1>2. s \in [1 .. Len(s) -> S]
  BY <1>1
<1>3. s \in Seq(S) /\ x \in S
  BY <1>1, <1>2
<1> HIDE DEF S
<1>4. /\ Append(s, x) \in Seq(S) /\ Len(Append(s, x)) = Len(s) + 1
      /\ Append(s, x)[Len(s) + 1] = x /\ \A i \in 1 .. Len(s) : Append(s, x)[i] = s[i]
  BY <1>3
<1>5. Append(s, x) # <<>>
  BY <1>1, <1>4
<1> QED  BY <1>4, <1>5, AnySeq

LEMMA AppendSet ==
  ASSUME NEW s, IsSeq(s), NEW x
  PROVE  ToSet(Append(s, x)) = ToSet(s) \cup {x}
<1> DEFINE a == Append(s, x)
<1>1. /\ IsSeq(a) /\ Len(a) = Len(s) + 1 /\ a[Len(s) + 1] = x
      /\ \A i \in 1 .. Len(s) : a[i] = s[i]
      /\ Len(s) \in Nat
  BY AppendLemma, SeqLemma
<1> HIDE DEF a
<1>2. ASSUME NEW w \in ToSet(a) PROVE w \in ToSet(s) \cup {x}
  <2>1. PICK i \in 1 .. Len(a) : w = a[i]
    BY <1>1, SeqLemma
  <2>2. i \in 1 .. Len(s) \/ i = Len(s) + 1
    BY <1>1, <2>1
  <2> QED  BY <1>1, <2>1, <2>2, SeqLemma
<1>3. ASSUME NEW w \in ToSet(s) PROVE w \in ToSet(a)
  <2>1. PICK i \in 1 .. Len(s) : w = s[i]
    BY SeqLemma
  <2>2. i \in 1 .. Len(a) /\ w = a[i]
    BY <1>1, <2>1
  <2> QED  BY <1>1, <2>2, SeqLemma
<1>4. x \in ToSet(a)
  <2>1. Len(s) + 1 \in 1 .. Len(a)
    BY <1>1
  <2> QED  BY <1>1, <2>1, SeqLemma
<1> QED  BY <1>2, <1>3, <1>4 DEF a

LEMMA TailLemma ==
  ASSUME NEW s, IsSeq(s), s # <<>>
  PROVE  /\ IsSeq(Tail(s)) /\ s[1] \in ToSet(s)
         /\ \A w \in ToSet(Tail(s)) : w \in ToSet(s)
         /\ \A w \in ToSet(s) : w = s[1] \/ w \in ToSet(Tail(s))
<1>1. s \in Seq(ToSet(s)) /\ Len(s) \in Nat
  BY DEF IsSeq
<1>2. Len(s) > 0 /\ 1 \in 1 .. Len(s)
  BY <1>1
<1>3. /\ Tail(s) \in Seq(ToSet(s)) /\ Len(Tail(s)) = Len(s) - 1
      /\ \A i \in 1 .. Len(s) - 1 : Tail(s)[i] = s[i + 1]
  BY <1>1, <1>2
<1>4. IsSeq(Tail(s))
  BY <1>3, AnySeq
<1>5. ASSUME NEW w \in ToSet(Tail(s)) PROVE w \in ToSet(s)
  <2>1. PICK i \in 1 .. Len(Tail(s)) : w = Tail(s)[i]
    BY <1>4, SeqLemma
  <2>2. i + 1 \in 1 .. Len(s) /\ w = s[i + 1]
    BY <1>1, <1>3, <2>1
  <2> QED  BY <2>2, SeqLemma
<1>6. ASSUME NEW w \in ToSet(s), w # s[1] PROVE w \in ToSet(Tail(s))
  <2>1. PICK i \in 1 .. Len(s) : w = s[i]
    BY SeqLemma
  <2>2. i - 1 \in 1 .. Len(s) - 1 /\ (i - 1) + 1 = i
    BY <1>1, <1>6, <2>1
  <2>3. w = Tail(s)[i - 1]
    BY <1>3, <2>1, <2>2
  <2> QED  BY <1>3, <1>4, <2>2, <2>3, SeqLemma
<1> QED  BY <1>2, <1>4, <1>5, <1>6, SeqLemma

LEMMA ConcatLemma ==
  ASSUME NEW s, IsSeq(s), NEW t, IsSeq(t)
  PROVE  IsSeq(s \o t) /\ \A w : w \in ToSet(s \o t) <=> w \in ToSet(s) \/ w \in ToSet(t)
<1> DEFINE S == ToSet(s) \cup ToSet(t)
           c == s \o t
<1>1. /\ Len(s) \in Nat /\ s \in [1 .. Len(s) -> ToSet(s)]
      /\ Len(t) \in Nat /\ t \in [1 .. Len(t) -> ToSet(t)]
  BY DEF IsSeq
<1>2. s \in [1 .. Len(s) -> S] /\ t \in [1 .. Len(t) -> S]
  BY <1>1
<1>3. s \in Seq(S) /\ t \in Seq(S)
  BY <1>1, <1>2
<1> HIDE DEF S
<1>4. /\ c \in Seq(S) /\ Len(c) = Len(s) + Len(t)
      /\ \A i \in 1 .. Len(s) : c[i] = s[i]
      /\ \A i \in 1 .. Len(t) : c[Len(s) + i] = t[i]
      /\ \A i \in 1 .. Len(c) : i \in 1 .. Len(s) \/ (i - Len(s) \in 1 .. Len(t)
                                                     /\ c[i] = t[i - Len(s)])
  <2>1. /\ c \in Seq(S) /\ Len(c) = Len(s) + Len(t)
        /\ \A i \in 1 .. Len(s) : c[i] = s[i]
        /\ \A i \in 1 .. Len(t) : c[Len(s) + i] = t[i]
    BY <1>3
  <2> HIDE DEF c
  <2>2. ASSUME NEW i \in 1 .. Len(c), i \notin 1 .. Len(s)
        PROVE  i - Len(s) \in 1 .. Len(t) /\ c[i] = t[i - Len(s)]
    <3>1. i - Len(s) \in 1 .. Len(t) /\ Len(s) + (i - Len(s)) = i
      BY <1>1, <2>1, <2>2
    <3> QED  BY <2>1, <3>1
  <2> QED  BY <2>1, <2>2
<1>5. IsSeq(c)
  BY <1>4, AnySeq
<1> HIDE DEF c
<1>6. ASSUME NEW w \in ToSet(c) PROVE w \in ToSet(s) \/ w \in ToSet(t)
  <2>1. PICK i \in 1 .. Len(c) : w = c[i]
    BY <1>5, SeqLemma
  <2> QED  BY <1>4, <2>1, SeqLemma
<1>7. ASSUME NEW w \in ToSet(s) PROVE w \in ToSet(c)
  <2>1. PICK i \in 1 .. Len(s) : w = s[i]
    BY SeqLemma
  <2>2. i \in 1 .. Len(c) /\ w = c[i]
    BY <1>1, <1>4, <2>1
  <2> QED  BY <1>5, <2>2, SeqLemma
<1>8. ASSUME NEW w \in ToSet(t) PROVE w \in ToSet(c)
  <2>1. PICK i \in 1 .. Len(t) : w = t[i]
    BY SeqLemma
  <2>2. Len(s) + i \in 1 .. Len(c) /\ w = c[Len(s) + i]
    BY <1>1, <1>4, <2>1
  <2> QED  BY <1>5, <2>2, SeqLemma
<1> QED  BY <1>5, <1>6, <1>7, <1>8 DEF c

-----------------------------------------------------------------------------
(* The rules come in the order of their layers, so the ones written so far *)
(* for a layer are the last ones written: what cntRule counts.             *)
Before(i) == {k \in 1 .. i - 1 : written[k].layer = written[i].layer}

WrittenAs(i) ==
  /\ written[i].layer = rule_info[i].layerID /\ written[i].row = rule_info[i].row
  /\ written[i].typeOffset = OffsetsOnTypeIds(rule_info[i].typeOffset)
  /\ written[i].layer # 0 =>
       /\ written[i].valid
       /\ written[i].typeData = OnTypeIds(rule_info[i].typeValue)
       /\ written[i].typeMask = OnTypeIds(rule_info[i].typeMask)
       /\ written[i].index = Cardinality(Before(i))

NumInv ==
  /\ layerID \in Nat
  /\ IsSeq(rule_info) /\ IsSeq(written) /\ Len(written) <= Len(rule_info)
  /\ pc = "walk" => written = <<>>
  /\ pc = "done" => Len(written) = Len(rule_info)
  /\ \A i \in 1 .. Len(rule_info) : rule_info[i].layerID \in Nat /\ rule_info[i].layerID <= layerID
  /\ \A i, j \in 1 .. Len(rule_info) : i <= j => rule_info[i].layerID <= rule_info[j].layerID
  /\ \A i \in 1 .. Len(written) : WrittenAs(i)
  /\ preLayerID = IF written = <<>> THEN 0 ELSE written[Len(written)].layer
  /\ preLayerID # 0 => cntRule = written[Len(written)].index

(* One more rule is written, with the number RuleIndex has for it.         *)
LEMMA WriteStep ==
  ASSUME NumInv, pc = "write", Len(written) < Len(rule_info),
         UNCHANGED <<layer_info, walkVars, pc>>,
         NEW rule, rule = rule_info[Len(written) + 1],
         NEW w, w.layer = rule.layerID, w.row = rule.row,
         w.typeOffset = OffsetsOnTypeIds(rule.typeOffset),
         written' = Append(written, w), preLayerID' = rule.layerID,
         w.layer # 0 => /\ w.valid
                        /\ w.typeData = OnTypeIds(rule.typeValue)
                        /\ w.typeMask = OnTypeIds(rule.typeMask)
                        /\ w.index = RuleIndex(rule) /\ cntRule' = w.index
  PROVE  NumInv'
<1>0. PICK n \in Nat : n = Len(written)
  <2>1. Len(written) \in Nat
    BY SeqLemma DEF NumInv
  <2> QED  BY <2>1
<1>1. /\ n \in Nat /\ Len(rule_info) \in Nat
      /\ IsSeq(written') /\ Len(written') = n + 1 /\ written'[n + 1] = w
      /\ written' # <<>> /\ \A i \in 1 .. n : written'[i] = written[i]
      /\ written = <<>> <=> n = 0
  <2>1. IsSeq(written) /\ IsSeq(rule_info)
    BY DEF NumInv
  <2> QED  BY <1>0, <2>1, SeqLemma, AppendLemma
<1>2. /\ layerID' = layerID /\ rule_info' = rule_info /\ pc' = "write"
  BY DEF walkVars
<1>3. n + 1 \in 1 .. Len(rule_info) /\ rule = rule_info[n + 1] /\ rule.layerID \in Nat
  <2>1. n + 1 \in 1 .. Len(rule_info)
    BY <1>0, <1>1
  <2> QED  BY <1>0, <2>1 DEF NumInv
<1>4. ASSUME NEW i \in 1 .. n PROVE WrittenAs(i)'
  <2>1. i \in 1 .. Len(written) /\ WrittenAs(i)
    BY <1>0 DEF NumInv
  <2>2. written'[i] = written[i] /\ rule_info'[i] = rule_info[i]
    BY <1>1, <1>2
  <2>3. Before(i)' = Before(i)
    <3>1. \A k \in 1 .. i - 1 : written'[k] = written[k]
      BY <1>1
    <3> QED  BY <2>2, <3>1 DEF Before
  <2> QED  BY <2>1, <2>2, <2>3 DEF WrittenAs
<1>5. WrittenAs(n + 1)'
  <2> DEFINE B == {k \in 1 .. n : written[k].layer = w.layer}
  <2>1. Before(n + 1)' = B
    <3>1. (n + 1) - 1 = n
      BY <1>1
    <3> QED  BY <1>1, <3>1 DEF Before
  <2>2. ASSUME w.layer # 0 PROVE RuleIndex(rule) = Cardinality(B)
    <3>1. CASE preLayerID = w.layer
      <4>1. n # 0 /\ w.layer = written[n].layer
        BY <1>0, <1>1, <2>2, <3>1 DEF NumInv
      <4>2. n \in 1 .. n /\ n \in 1 .. Len(written)
        BY <1>0, <1>1, <4>1
      <4>3. cntRule = written[n].index /\ written[n].index = Cardinality(Before(n))
        BY <1>0, <2>2, <3>1, <4>1, <4>2 DEF NumInv, WrittenAs
      <4>4. B = Before(n) \cup {n} /\ n \notin Before(n) /\ Before(n) \subseteq 1 .. n
        BY <1>1, <4>1, <4>2 DEF Before
      <4>5. IsFiniteSet(Before(n))
        <5>1. IsFiniteSet(1 .. n)
          BY <1>1, FS_Interval
        <5> QED  BY <4>4, <5>1, FS_Subset
      <4>6. Cardinality(B) = Cardinality(Before(n)) + 1
        BY <4>4, <4>5, FS_AddElement
      <4> QED  BY <3>1, <4>3, <4>6 DEF RuleIndex
    <3>2. CASE preLayerID # w.layer
      <4>1. ASSUME NEW k \in 1 .. n PROVE written[k].layer # w.layer
        <5>1. /\ k \in 1 .. Len(written) /\ n \in 1 .. Len(written)
              /\ k \in 1 .. Len(rule_info) /\ n \in 1 .. Len(rule_info)
              /\ k <= n /\ n <= n + 1 /\ written # <<>>
          BY <1>0, <1>1, <1>3
        <5>2. /\ written[k].layer = rule_info[k].layerID
              /\ written[n].layer = rule_info[n].layerID
              /\ preLayerID = written[n].layer
          BY <1>0, <5>1 DEF NumInv, WrittenAs
        <5>3. /\ rule_info[k].layerID <= rule_info[n].layerID
              /\ rule_info[n].layerID <= rule_info[n + 1].layerID
              /\ rule_info[k].layerID \in Nat /\ rule_info[n].layerID \in Nat
          BY <1>3, <5>1 DEF NumInv
        <5> QED  BY <1>3, <3>2, <5>2, <5>3
      <4>2. B = {}
        BY <4>1
      <4> QED  BY <3>2, <4>2, FS_EmptySet DEF RuleIndex
    <3> QED  BY <3>1, <3>2
  <2> HIDE DEF B
  <2> QED  BY <1>1, <1>2, <1>3, <2>1, <2>2 DEF WrittenAs
<1>6. ASSUME NEW i \in 1 .. Len(written') PROVE WrittenAs(i)'
  <2>1. i \in 1 .. n \/ i = n + 1
    BY <1>1
  <2> QED  BY <1>4, <1>5, <2>1
<1>7. Len(written') <= Len(rule_info')
  BY <1>1, <1>2, <1>3
<1>8. preLayerID' = w.layer /\ (w.layer # 0 => cntRule' = w.index)
  OBVIOUS
<1>9. written'[Len(written')] = w
  BY <1>1
<1> QED  BY <1>1, <1>2, <1>6, <1>7, <1>8, <1>9 DEF NumInv

(* One more rule is made, for the layer the walk has come to.              *)
LEMMA WalkStep ==
  ASSUME NumInv, Walk
  PROVE  /\ NumInv'
         /\ \E cur, next : /\ cur = FoundIdx(wait[1].next)
                           /\ next = AfterPop(Tail(wait), nextWait \o NextTypes(layer_info[cur]))
                           /\ rule_info' = Append(rule_info, RuleFor(wait[1], cur))
                           /\ wait' = next.wait /\ nextWait' = next.nextWait
                           /\ layerID' = next.layerID
<1> DEFINE cur == FoundIdx(wait[1].next)
           next == AfterPop(Tail(wait), nextWait \o NextTypes(layer_info[cur]))
           rule == RuleFor(wait[1], cur)
           n == Len(rule_info)
<1>1. /\ rule_info' = Append(rule_info, rule)
      /\ wait' = next.wait /\ nextWait' = next.nextWait /\ layerID' = next.layerID
      /\ pc = "walk" /\ pc' = "walk" /\ written' = written /\ preLayerID' = preLayerID
      /\ cntRule' = cntRule
  BY DEF Walk, writeVars
<1>2. layerID \in Nat /\ (next.layerID = layerID \/ next.layerID = layerID + 1)
  BY DEF NumInv, AfterPop
<1>3. rule.layerID = layerID
  BY DEF RuleFor
<1> HIDE DEF rule, next, cur
<1>4. /\ n \in Nat /\ IsSeq(rule_info') /\ Len(rule_info') = n + 1 /\ rule_info'[n + 1] = rule
      /\ \A i \in 1 .. n : rule_info'[i] = rule_info[i]
  <2>1. IsSeq(rule_info)
    BY DEF NumInv
  <2> QED  BY <1>1, <2>1, SeqLemma, AppendLemma
<1>5. layerID' \in Nat /\ layerID <= layerID'
  BY <1>1, <1>2
<1>6. ASSUME NEW i \in 1 .. n
      PROVE  rule_info[i].layerID \in Nat /\ rule_info[i].layerID <= layerID
  BY DEF NumInv
<1> DEFINE m == n + 1
<1>7. ASSUME NEW i \in 1 .. m
      PROVE  rule_info'[i].layerID \in Nat /\ rule_info'[i].layerID <= layerID
  <2>1. CASE i = m
    BY <1>2, <1>3, <1>4, <2>1
  <2>2. CASE i # m
    <3>1. i \in 1 .. n
      BY <1>4, <2>2
    <3> QED  BY <1>4, <1>6, <3>1
  <2> QED  BY <2>1, <2>2
<1>8. ASSUME NEW i \in 1 .. m, NEW j \in 1 .. m, i <= j
      PROVE  rule_info'[i].layerID <= rule_info'[j].layerID
  <2>1. CASE j = m
    BY <1>3, <1>4, <1>7, <2>1
  <2>2. CASE j # m
    <3>1. i \in 1 .. n /\ j \in 1 .. n
      BY <1>4, <1>8, <2>2
    <3> QED  BY <1>4, <1>8, <3>1 DEF NumInv
  <2> QED  BY <2>1, <2>2
<1>9. NumInv'
  <2>1. written = <<>> /\ Len(written) = 0
    <3>1. IsSeq(written) /\ written = <<>>
      BY <1>1 DEF NumInv
    <3> QED  BY <3>1, SeqLemma
  <2>2. IsSeq(written') /\ preLayerID' = 0 /\ 1 .. Len(written') = {} /\ Len(written') = 0
    BY <1>1, <2>1 DEF NumInv
  <2>3. \A i \in 1 .. m : rule_info'[i].layerID \in Nat /\ rule_info'[i].layerID <= layerID'
    BY <1>2, <1>5, <1>7
  <2> QED  BY <1>1, <1>4, <1>5, <1>8, <2>1, <2>2, <2>3 DEF NumInv
<1> QED  BY <1>1, <1>9 DEF cur, next, rule

LEMMA Numbered == Spec => []NumInv
<1>1. Init => NumInv
  <2> SUFFICES ASSUME Init PROVE NumInv
    OBVIOUS
  <2>1. /\ layerID = 0 /\ rule_info = <<>> /\ written = <<>> /\ preLayerID = 0 /\ pc = "walk"
    BY DEF Init
  <2>2. IsSeq(<<>>) /\ Len(<<>>) = 0 /\ 1 .. 0 = {}
    BY DEF IsSeq
  <2> QED  BY <2>1, <2>2 DEF NumInv
<1>2. NumInv /\ [Next]_vars => NumInv'
  <2> SUFFICES ASSUME NumInv, [Next]_vars PROVE NumInv'
    OBVIOUS
  <2>1. CASE Walk
    BY <2>1, WalkStep
  <2>0. ASSUME UNCHANGED <<walkVars, writeVars>>, pc' = "walk" => pc = "walk",
               pc' = "done" => pc = "done" \/ Len(written) = Len(rule_info)
        PROVE  NumInv'
    <3>1. /\ layerID' = layerID /\ rule_info' = rule_info
          /\ written' = written /\ preLayerID' = preLayerID /\ cntRule' = cntRule
      BY <2>0 DEF walkVars, writeVars
    <3>2. \A i : WrittenAs(i)' <=> WrittenAs(i)
      BY <3>1 DEF WrittenAs, Before
    <3> QED  BY <2>0, <3>1, <3>2 DEF NumInv
  <2>2. CASE WalkDone
    BY <2>0, <2>2 DEF WalkDone
  <2>3. CASE WriteLayer0
    <3> DEFINE rule == rule_info[Len(written) + 1]
               w == Layer0Written(rule)
    <3>1. /\ pc = "write" /\ Len(written) < Len(rule_info)
          /\ UNCHANGED <<layer_info, walkVars, pc>>
          /\ rule.layerID = 0 /\ written' = Append(written, w) /\ preLayerID' = preLayerID
      BY <2>3 DEF WriteLayer0
    <3>2. w.layer = 0 /\ w.row = rule.row /\ w.typeOffset = OffsetsOnTypeIds(rule.typeOffset)
      BY DEF Layer0Written
    <3>3. preLayerID = 0
      <4> DEFINE n == Len(written)
      <4>1. n \in Nat /\ Len(rule_info) \in Nat /\ (written = <<>> <=> n = 0)
        BY SeqLemma DEF NumInv
      <4>2. CASE written = <<>>
        BY <4>2 DEF NumInv
      <4>3. CASE written # <<>>
        <5>1. n \in 1 .. Len(written) /\ n \in 1 .. Len(rule_info)
              /\ n + 1 \in 1 .. Len(rule_info) /\ n <= n + 1
          BY <3>1, <4>1, <4>3
        <5>2. preLayerID = written[n].layer /\ written[n].layer = rule_info[n].layerID
          BY <4>3, <5>1 DEF NumInv, WrittenAs
        <5>3. rule_info[n].layerID \in Nat /\ rule_info[n].layerID <= rule_info[n + 1].layerID
          BY <5>1 DEF NumInv
        <5> QED  BY <3>1, <5>2, <5>3
      <4> QED  BY <4>2, <4>3
    <3> HIDE DEF rule, w
    <3>4. rule = rule_info[Len(written) + 1]
      BY DEF rule
    <3> QED  BY <3>1, <3>2, <3>3, <3>4, WriteStep
  <2>4. CASE WriteRule
    <3> DEFINE rule == rule_info[Len(written) + 1]
               w == RuleWritten(rule)
    <3>1. /\ pc = "write" /\ Len(written) < Len(rule_info)
          /\ UNCHANGED <<layer_info, walkVars, pc>>
          /\ cntRule' = RuleIndex(rule) /\ preLayerID' = rule.layerID
          /\ written' = Append(written, w)
      BY <2>4 DEF WriteRule
    <3>2. /\ w.layer = rule.layerID /\ w.row = rule.row /\ w.valid
          /\ w.typeOffset = OffsetsOnTypeIds(rule.typeOffset)
          /\ w.typeData = OnTypeIds(rule.typeValue) /\ w.typeMask = OnTypeIds(rule.typeMask)
          /\ w.index = RuleIndex(rule)
      BY DEF RuleWritten
    <3> HIDE DEF rule, w
    <3>3. rule = rule_info[Len(written) + 1]
      BY DEF rule
    <3> QED  BY <3>1, <3>2, <3>3, WriteStep
  <2>5. CASE WriteDone
    BY <2>0, <2>5 DEF WriteDone
  <2>6. CASE UNCHANGED vars
    BY <2>0, <2>6 DEF vars
  <2> QED  BY <2>1, <2>2, <2>3, <2>4, <2>5, <2>6 DEF Next
<1> QED  BY <1>1, <1>2, PTL DEF Spec

(* The rules of a layer are numbered from 0 on, without a hole or a        *)
(* repetition, in the order in which the walk made them.                   *)
THEOREM RuleNumbers == Spec => []RulesNumbered
<1>1. NumInv => RulesNumbered
  <2> SUFFICES ASSUME NumInv PROVE RulesNumbered
    OBVIOUS
  <2>1. DOMAIN written = 1 .. Len(written)
    BY SeqLemma DEF NumInv
  <2> QED  BY <2>1 DEF NumInv, WrittenAs, Before, RulesNumbered
<1> QED  BY <1>1, Numbered, PTL

-----------------------------------------------------------------------------
(* What a row announces, in the order of its values.                       *)
LEMMA NextTypesLemma ==
  ASSUME NEW t \in Tables, NEW r \in DOMAIN t
  PROVE  /\ IsSeq(NextTypes(t[r]))
         /\ \A p \in ToSet(NextTypes(t[r])) :
              p.mask = t[r].mask /\ p.value \subseteq Nat /\ t[r].proto # <<>>
<1> DEFINE s == t[r].proto
           f == NextTypes(t[r])
<1>1. IsSeq(s) /\ \A p \in ToSet(s) : p.value \subseteq Nat
  BY GenRuleAssumption
<1>2. Len(s) \in Nat /\ DOMAIN s = 1 .. Len(s) /\ (s = <<>> <=> Len(s) = 0)
  BY <1>1, SeqLemma
<1>3. /\ f = [i \in 1 .. Len(s) |-> f[i]]
      /\ \A i \in 1 .. Len(s) : f[i].mask = t[r].mask /\ f[i].value = s[i].value
  BY <1>2 DEF NextTypes
<1>4. f \in [1 .. Len(s) -> {f[i] : i \in 1 .. Len(s)}]
  BY <1>3
<1> HIDE DEF f
<1>5. f \in Seq({f[i] : i \in 1 .. Len(s)}) /\ DOMAIN f = 1 .. Len(s)
  BY <1>2, <1>4
<1>6. ASSUME NEW p \in ToSet(f)
      PROVE  p.mask = t[r].mask /\ p.value \subseteq Nat /\ s # <<>>
  <2>1. PICK i \in 1 .. Len(s) : p = f[i]
    BY <1>5, <1>6 DEF ToSet
  <2>2. s[i] \in ToSet(s) /\ s # <<>>
    BY <1>1, <1>2, <2>1, SeqLemma
  <2> QED  BY <1>1, <1>3, <2>1, <2>2
<1>7. IsSeq(f)
  BY <1>5, AnySeq
<1> QED  BY <1>6, <1>7 DEF f

(* The chains of a table: a chain goes on with whatever the row of its     *)
(* last header announces, and what a chain starts with is a chain.         *)
LEMMA TableLemma ==
  ASSUME NEW t \in Tables
  PROVE  /\ Len(t) \in Nat /\ 1 \in 1 .. Len(t) /\ DOMAIN t = 1 .. Len(t)
         /\ \A r \in 1 .. Len(t) : IsSeq(NextTypes(t[r]))
         /\ \A r \in 1 .. Len(t) : ToSet(NextTypes(t[r])) \subseteq Announced(t)
         /\ \A name : RowsNamed(t, name) \subseteq 1 .. Len(t)
         /\ \A name : RowsNamed(t, name) # {} => Max(RowsNamed(t, name)) \in 1 .. Len(t)
<1>1. IsSeq(t) /\ Len(t) > 0
  BY GenRuleAssumption
<1>2. Len(t) \in Nat /\ 1 \in 1 .. Len(t) /\ DOMAIN t = 1 .. Len(t)
  BY <1>1, SeqLemma
<1>3. \A r \in 1 .. Len(t) : IsSeq(NextTypes(t[r]))
  BY <1>2, NextTypesLemma
<1>4. \A r \in 1 .. Len(t) : ToSet(NextTypes(t[r])) \subseteq Announced(t)
  BY <1>2 DEF Announced
<1>5. \A name : RowsNamed(t, name) \subseteq 1 .. Len(t)
  BY <1>2 DEF RowsNamed
<1>6. ASSUME NEW name, RowsNamed(t, name) # {} PROVE Max(RowsNamed(t, name)) \in 1 .. Len(t)
  <2>1. Max(RowsNamed(t, name)) \in RowsNamed(t, name)
    BY <1>2, <1>5, <1>6, GreatestNumber
  <2> QED  BY <1>5, <2>1
<1> QED  BY <1>2, <1>3, <1>4, <1>5, <1>6

LEMMA ChainRows ==
  ASSUME NEW t \in Tables, Closed(t), NEW n \in Nat, NEW c \in Chains(t, n), NEW i \in 0 .. n
  PROVE  RowsNamed(t, NameOf(t, c, i)) # {} /\ RowOf(t, c, i) \in 1 .. Len(t)
<1>1. RowsNamed(t, NameOf(t, c, i)) # {}
  <2>1. CASE i = 0
    <3>1. 1 \in RowsNamed(t, t[1].name)
      BY TableLemma DEF RowsNamed
    <3> QED  BY <2>1, <3>1 DEF NameOf
  <2>2. CASE i # 0
    <3>1. i \in 1 .. n
      BY <2>2
    <3>2. c[i] \in Announced(t)
      BY <3>1 DEF Chains
    <3> QED  BY <2>2, <3>2 DEF Closed, NameOf
  <2> QED  BY <2>1, <2>2
<1> QED  BY <1>1, TableLemma DEF RowOf

LEMMA ChainExtended ==
  ASSUME NEW t \in Tables, Closed(t), NEW n \in Nat, NEW c \in Chains(t, n),
         NEW p \in ToSet(NextTypes(t[RowOf(t, c, n)]))
  PROVE  \E d \in Chains(t, n + 1) : d[n + 1] = p
<1> DEFINE d == [i \in 1 .. n + 1 |-> IF i <= n THEN c[i] ELSE p]
<1>1. c \in [1 .. n -> Announced(t)]
      /\ \A i \in 1 .. n : c[i] \in ToSet(NextTypes(t[RowOf(t, c, i - 1)]))
  BY DEF Chains
<1>2. p \in Announced(t)
  <2>1. n \in 0 .. n
    OBVIOUS
  <2>2. RowOf(t, c, n) \in 1 .. Len(t)
    BY <2>1, ChainRows
  <2> QED  BY <2>2, TableLemma
<1>3. /\ d \in [1 .. n + 1 -> Announced(t)] /\ d[n + 1] = p
      /\ \A i \in 1 .. n : d[i] = c[i]
  <2>1. ASSUME NEW i \in 1 .. n + 1 PROVE d[i] \in Announced(t)
    BY <1>1, <1>2
  <2> QED  BY <2>1
<1> HIDE DEF d
<1>4. ASSUME NEW i \in 0 .. n PROVE RowOf(t, d, i) = RowOf(t, c, i)
  <2>1. i # 0 => d[i] = c[i]
    BY <1>3
  <2> QED  BY <2>1 DEF RowOf, NameOf
<1>5. ASSUME NEW i \in 1 .. n + 1 PROVE d[i] \in ToSet(NextTypes(t[RowOf(t, d, i - 1)]))
  <2>1. i - 1 \in 0 .. n /\ RowOf(t, d, i - 1) = RowOf(t, c, i - 1)
    <3>1. i - 1 \in 0 .. n
      OBVIOUS
    <3> QED  BY <1>4, <3>1
  <2>2. CASE i = n + 1
    <3>1. i - 1 = n
      BY <2>2
    <3> QED  BY <1>3, <2>1, <2>2, <3>1
  <2>3. CASE i # n + 1
    <3>1. i \in 1 .. n
      BY <2>3
    <3> QED  BY <1>1, <1>3, <2>1, <3>1
  <2> QED  BY <2>2, <2>3
<1> QED  BY <1>3, <1>5 DEF Chains

LEMMA ChainStarts ==
  ASSUME NEW t, NEW n \in Nat, NEW d \in Chains(t, n + 1)
  PROVE  \E c \in Chains(t, n) : /\ RowOf(t, c, n) = RowOf(t, d, n)
                                 /\ d[n + 1] \in ToSet(NextTypes(t[RowOf(t, c, n)]))
<1> DEFINE c == [i \in 1 .. n |-> d[i]]
<1>1. d \in [1 .. n + 1 -> Announced(t)]
      /\ \A i \in 1 .. n + 1 : d[i] \in ToSet(NextTypes(t[RowOf(t, d, i - 1)]))
  BY DEF Chains
<1>2. c \in [1 .. n -> Announced(t)] /\ \A i \in 1 .. n : c[i] = d[i]
  BY <1>1
<1> HIDE DEF c
<1>3. ASSUME NEW i \in 0 .. n PROVE RowOf(t, c, i) = RowOf(t, d, i)
  <2>1. i # 0 => d[i] = c[i]
    BY <1>2
  <2> QED  BY <2>1 DEF RowOf, NameOf
<1>4. ASSUME NEW i \in 1 .. n PROVE c[i] \in ToSet(NextTypes(t[RowOf(t, c, i - 1)]))
  <2>1. i - 1 \in 0 .. n /\ i \in 1 .. n + 1
    OBVIOUS
  <2> QED  BY <1>1, <1>2, <1>3, <2>1
<1>5. n \in 0 .. n /\ n + 1 \in 1 .. n + 1 /\ (n + 1) - 1 = n
  OBVIOUS
<1>6. d[n + 1] \in ToSet(NextTypes(t[RowOf(t, d, n)]))
  BY <1>1, <1>5
<1> QED  BY <1>2, <1>3, <1>4, <1>5, <1>6 DEF Chains

(* A table without chains of n headers has no longer ones.                 *)
LEMMA ChainsEnd ==
  ASSUME NEW t, NEW n \in Nat, Chains(t, n) = {}, NEW m \in Nat, n <= m
  PROVE  Chains(t, m) = {}
<1> SUFFICES ASSUME Chains(t, m) # {} PROVE FALSE
  OBVIOUS
<1> DEFINE T == {k \in Nat : n <= k /\ Chains(t, k) # {}}
<1>1. PICK k \in T : \A j \in T : k <= j
  <2>1. T \subseteq Nat /\ m \in T
    OBVIOUS
  <2> HIDE DEF T
  <2> QED  BY <2>1, LeastNumber
<1>2. k \in Nat /\ k # n /\ n <= k /\ Chains(t, k) # {}
  OBVIOUS
<1>3. k - 1 \in Nat /\ (k - 1) + 1 = k /\ n <= k - 1
  BY <1>2
<1>4. Chains(t, k - 1) # {}
  BY <1>2, <1>3, ChainStarts
<1>5. k - 1 \in T
  BY <1>3, <1>4
<1> HIDE DEF T
<1>6. k <= k - 1
  BY <1>1, <1>5
<1> QED  BY <1>2, <1>6

-----------------------------------------------------------------------------
(* The walk goes through the chains.  R, W and N stand for the rules made, *)
(* and for what waits to be checked in the layer L and in the next: each   *)
(* stands for a chain, and each chain as far as the layer L is stood for,  *)
(* by a rule or, in the layer L, by what still waits.                      *)
MaskOf(c, n) == IF n = 0 THEN None ELSE c[n].mask
ValueOf(c, n) == IF n = 0 THEN None ELSE c[n].value

Announces(t, w, c, n) ==
  w.next = NameOf(t, c, n) /\ w.mask = MaskOf(c, n) /\ w.value = ValueOf(c, n)

RuleOf(t, r, c, n) ==
  /\ r.layerID = n /\ r.row = RowOf(t, c, n)
  /\ r.typeMask = BytesOf(MaskOf(c, n), MaskOf(c, n))
  /\ r.typeValue = BytesOf(MaskOf(c, n), ValueOf(c, n))
  /\ r.typeOffset = OffsetsOf(t[r.row])

Covered(t, L, R, W, N) ==
  /\ \A w \in W : \E c \in Chains(t, L) : Announces(t, w, c, L)
  /\ \A w \in N : \E c \in Chains(t, L + 1) : Announces(t, w, c, L + 1)
  /\ \A r \in R : \E n \in 0 .. L : \E c \in Chains(t, n) : RuleOf(t, r, c, n)
  /\ \A n \in 0 .. L : \A c \in Chains(t, n) :
       \/ \E r \in R : RuleOf(t, r, c, n)
       \/ n = L /\ \E w \in W : Announces(t, w, c, L)
  /\ \A r \in R : r.layerID = L => ToSet(NextTypes(t[r.row])) \subseteq N

(* A header that waited gets its rule, and what it announces waits.        *)
LEMMA HeaderChecked ==
  ASSUME NEW t \in Tables, Closed(t), NEW L \in Nat, NEW R, NEW W, NEW N,
         Covered(t, L, R, W, N),
         NEW w \in W, NEW rest, \A x \in rest : x \in W, \A x \in W : x = w \/ x \in rest,
         NEW r, r.layerID = L, r.row = Max(RowsNamed(t, w.next)),
         r.typeMask = BytesOf(w.mask, w.mask), r.typeValue = BytesOf(w.mask, w.value),
         r.typeOffset = OffsetsOf(t[r.row])
  PROVE  Covered(t, L, R \cup {r}, rest, N \cup ToSet(NextTypes(t[r.row])))
<1> DEFINE R2 == R \cup {r}
           N2 == N \cup ToSet(NextTypes(t[r.row]))
<1>1. PICK c \in Chains(t, L) : Announces(t, w, c, L)
  BY DEF Covered
<1>2. RuleOf(t, r, c, L)
  BY <1>1 DEF Announces, RuleOf, RowOf
<1>3. \A x \in rest : \E b \in Chains(t, L) : Announces(t, x, b, L)
  BY DEF Covered
<1>4. ASSUME NEW x \in N2 PROVE \E b \in Chains(t, L + 1) : Announces(t, x, b, L + 1)
  <2>1. CASE x \in N
    BY <2>1 DEF Covered
  <2>2. CASE x \in ToSet(NextTypes(t[r.row]))
    <3>1. x \in ToSet(NextTypes(t[RowOf(t, c, L)]))
      BY <1>2, <2>2 DEF RuleOf
    <3>2. PICK d \in Chains(t, L + 1) : d[L + 1] = x
      BY <3>1, ChainExtended
    <3>3. L + 1 # 0
      OBVIOUS
    <3> QED  BY <3>2, <3>3 DEF Announces, NameOf, MaskOf, ValueOf
  <2> QED  BY <2>1, <2>2
<1>5. ASSUME NEW x \in R2 PROVE \E n \in 0 .. L : \E b \in Chains(t, n) : RuleOf(t, x, b, n)
  <2>1. CASE x \in R
    BY <2>1 DEF Covered
  <2>2. CASE x = r
    <3>1. L \in 0 .. L
      OBVIOUS
    <3> QED  BY <1>2, <2>2, <3>1
  <2> QED  BY <2>1, <2>2
<1>6. ASSUME NEW n \in 0 .. L, NEW b \in Chains(t, n)
      PROVE  \/ \E x \in R2 : RuleOf(t, x, b, n)
             \/ n = L /\ \E x \in rest : Announces(t, x, b, L)
  <2>1. CASE \E x \in R : RuleOf(t, x, b, n)
    BY <2>1
  <2>2. CASE n = L /\ \E x \in W : Announces(t, x, b, L)
    <3>1. PICK x \in W : Announces(t, x, b, L)
      BY <2>2
    <3>2. CASE x \in rest
      BY <2>2, <3>1, <3>2
    <3>3. CASE x = w
      <4>1. RuleOf(t, r, b, n)
        BY <2>2, <3>1, <3>3 DEF Announces, RuleOf, RowOf
      <4> QED  BY <4>1
    <3> QED  BY <3>2, <3>3
  <2> QED  BY <2>1, <2>2 DEF Covered
<1>7. ASSUME NEW x \in R2, x.layerID = L PROVE ToSet(NextTypes(t[x.row])) \subseteq N2
  BY <1>7 DEF Covered
<1> QED  BY <1>3, <1>4, <1>5, <1>6, <1>7 DEF Covered

(* With nothing left to check in a layer, the walk comes to the next.      *)
LEMMA LayerChecked ==
  ASSUME NEW t \in Tables, NEW L \in Nat, NEW R, NEW N, Covered(t, L, R, {}, N)
  PROVE  Covered(t, L + 1, R, N, {})
<1>1. \A r \in R : \E n \in 0 .. L : \E b \in Chains(t, n) : RuleOf(t, r, b, n)
  BY DEF Covered
<1>2. \A n \in 0 .. L : n \in 0 .. L + 1 /\ n # L + 1
  OBVIOUS
<1>3. ASSUME NEW n \in 0 .. L + 1, NEW c \in Chains(t, n)
      PROVE  \/ \E r \in R : RuleOf(t, r, c, n)
             \/ n = L + 1 /\ \E w \in N : Announces(t, w, c, L + 1)
  <2>1. CASE n = L + 1
    <3>1. PICK b \in Chains(t, L) : /\ RowOf(t, b, L) = RowOf(t, c, L)
                                    /\ c[L + 1] \in ToSet(NextTypes(t[RowOf(t, b, L)]))
      BY <2>1, ChainStarts
    <3>2. L \in 0 .. L /\ L + 1 # 0
      OBVIOUS
    <3>3. PICK r \in R : RuleOf(t, r, b, L)
      BY <3>2 DEF Covered
    <3>4. c[L + 1] \in N
      BY <3>1, <3>3 DEF Covered, RuleOf
    <3>5. Announces(t, c[L + 1], c, L + 1)
      BY <3>2 DEF Announces, NameOf, MaskOf, ValueOf
    <3> QED  BY <2>1, <3>4, <3>5
  <2>2. CASE n # L + 1
    <3>1. n \in 0 .. L
      BY <2>2
    <3> QED  BY <3>1 DEF Covered
  <2> QED  BY <2>1, <2>2
<1>4. ASSUME NEW r \in R PROVE r.layerID # L + 1
  BY <1>1, <1>2 DEF RuleOf
<1>5. \A w \in N : \E c \in Chains(t, L + 1) : Announces(t, w, c, L + 1)
  BY DEF Covered
<1> QED  BY <1>1, <1>2, <1>3, <1>4, <1>5 DEF Covered

CoverInv ==
  /\ layer_info \in Tables /\ curIdx \in 1 .. Len(layer_info)
  /\ IsSeq(wait) /\ IsSeq(nextWait)
  /\ pc # "walk" => wait = <<>>
  /\ wait = <<>> => \A i \in 1 .. Len(rule_info) : rule_info[i].layerID < layerID
  /\ Closed(layer_info) =>
       Covered(layer_info, layerID, ToSet(rule_info), ToSet(wait), ToSet(nextWait))

(* One turn of the walk: a rule for a chain and for all that wait like it. *)
LEMMA CoverWalk ==
  ASSUME NumInv, CoverInv, Walk
  PROVE  CoverInv'
<1>1. PICK t \in Tables : t = layer_info
  BY DEF CoverInv
<1>2. PICK L \in Nat : L = layerID
  BY DEF NumInv
<1>3. PICK R : R = rule_info /\ IsSeq(R)
  BY DEF NumInv
<1>4. PICK W : W = wait /\ IsSeq(W) /\ W # <<>>
  BY DEF CoverInv, Walk
<1>5. PICK N : N = nextWait /\ IsSeq(N)
  BY DEF CoverInv
<1>6. PICK cur, next, r :
        /\ cur = FoundIdx(W[1].next) /\ curIdx' = cur
        /\ next = AfterPop(Tail(W), N \o NextTypes(t[cur]))
        /\ r = RuleFor(W[1], cur)
        /\ rule_info' = Append(R, r)
        /\ wait' = next.wait /\ nextWait' = next.nextWait /\ layerID' = next.layerID
        /\ layer_info' = t /\ pc' = "walk"
  BY <1>1, <1>2, <1>3, <1>4, <1>5 DEF Walk
<1>7. cur \in 1 .. Len(t)
  BY <1>1, <1>6, TableLemma DEF FoundIdx, CoverInv
<1> DEFINE rest == Tail(W)
           found == N \o NextTypes(t[cur])
<1>8. /\ IsSeq(rest) /\ W[1] \in ToSet(W)
      /\ \A x \in ToSet(rest) : x \in ToSet(W)
      /\ \A x \in ToSet(W) : x = W[1] \/ x \in ToSet(rest)
  BY <1>4, TailLemma
<1>9. IsSeq(found) /\ ToSet(found) = ToSet(N) \cup ToSet(NextTypes(t[cur]))
  <2>1. IsSeq(NextTypes(t[cur]))
    BY <1>7, TableLemma
  <2> QED  BY <1>5, <2>1, ConcatLemma
<1>10. /\ \A i \in 1 .. Len(R) : R[i].layerID \in Nat /\ R[i].layerID <= L
       /\ Len(R) \in Nat
  BY <1>2, <1>3, SeqLemma DEF NumInv
<1>11. /\ IsSeq(rule_info') /\ Len(rule_info') = Len(R) + 1 /\ rule_info'[Len(R) + 1] = r
       /\ \A i \in 1 .. Len(R) : rule_info'[i] = R[i]
  BY <1>3, <1>6, AppendLemma
<1>12. ToSet(rule_info') = ToSet(R) \cup {r}
  BY <1>3, <1>6, AppendSet
<1>13. /\ r.layerID = L /\ r.row = cur
       /\ r.typeMask = BytesOf(W[1].mask, W[1].mask)
       /\ r.typeValue = BytesOf(W[1].mask, W[1].value)
       /\ r.typeOffset = OffsetsOf(t[cur])
  BY <1>1, <1>2, <1>6 DEF RuleFor
<1>14. ASSUME Closed(t)
       PROVE  Covered(t, L, ToSet(rule_info'), ToSet(rest), ToSet(found))
  <2>1. Covered(t, L, ToSet(R), ToSet(W), ToSet(N))
    BY <1>1, <1>2, <1>3, <1>4, <1>5, <1>14 DEF CoverInv
  <2>2. PICK c \in Chains(t, L) : Announces(t, W[1], c, L)
    BY <1>8, <2>1 DEF Covered
  <2>3. RowsNamed(t, W[1].next) # {}
    <3>1. L \in 0 .. L
      BY <1>2
    <3> QED  BY <1>2, <1>14, <2>2, <3>1, ChainRows DEF Announces
  <2>4. cur = Max(RowsNamed(t, W[1].next))
    BY <1>1, <1>6, <2>3 DEF FoundIdx
  <2> HIDE DEF rest, found
  <2>5. Covered(t, L, ToSet(R) \cup {r}, ToSet(rest), ToSet(N) \cup ToSet(NextTypes(t[r.row])))
    <3>1. r.row = Max(RowsNamed(t, W[1].next))
      BY <1>13, <2>4
    <3> QED  BY <1>2, <1>8, <1>13, <1>14, <2>1, <3>1, HeaderChecked
  <2> QED  BY <1>9, <1>12, <1>13, <2>5
<1> HIDE DEF rest, found
<1>15. CASE rest # <<>>
  <2>1. next = [wait |-> rest, nextWait |-> found, layerID |-> L]
    BY <1>2, <1>6, <1>15 DEF AfterPop, rest, found
  <2>2. wait' = rest /\ nextWait' = found /\ layerID' = L
    BY <1>6, <2>1
  <2> QED  BY <1>6, <1>7, <1>8, <1>9, <1>14, <1>15, <2>2 DEF CoverInv
<1>16. CASE rest = <<>>
  <2>1. next = [wait |-> found, nextWait |-> <<>>, layerID |-> L + 1]
    BY <1>2, <1>6, <1>16 DEF AfterPop, rest, found
  <2>2. wait' = found /\ nextWait' = <<>> /\ layerID' = L + 1
    BY <1>6, <2>1
  <2>3. IsSeq(<<>>) /\ ToSet(<<>>) = {}
    BY DEF IsSeq, ToSet
  <2>4. ASSUME Closed(t)
        PROVE  Covered(t, L + 1, ToSet(rule_info'), ToSet(found), {})
    <3>1. Covered(t, L, ToSet(rule_info'), {}, ToSet(found))
      BY <1>14, <1>16, <2>3, <2>4
    <3> QED  BY <1>2, <3>1, LayerChecked
  <2>5. ASSUME NEW i \in 1 .. Len(rule_info') PROVE rule_info'[i].layerID < L + 1
    <3>1. i \in 1 .. Len(R) \/ i = Len(R) + 1
      BY <1>10, <1>11
    <3> QED  BY <1>2, <1>10, <1>11, <1>13, <3>1
  <2> QED  BY <1>6, <1>7, <1>9, <2>2, <2>3, <2>4, <2>5 DEF CoverInv
<1> QED  BY <1>15, <1>16

LEMMA WalkCovered == Spec => [](NumInv /\ CoverInv)
<1>1. Init => CoverInv
  <2> SUFFICES ASSUME Init PROVE CoverInv
    OBVIOUS
  <2>1. PICK t \in Tables : t = layer_info
    BY DEF Init
  <2>2. PICK w : w = [mask |-> None, value |-> None, next |-> t[1].name]
    OBVIOUS
  <2>3. /\ layer_info = t /\ layerID = 0 /\ rule_info = <<>> /\ wait = <<w>> /\ nextWait = <<>>
        /\ pc = "walk" /\ curIdx = 1
    BY <2>1, <2>2 DEF Init
  <2>4. IsSeq(<<>>) /\ ToSet(<<>>) = {} /\ IsSeq(<<w>>) /\ ToSet(<<w>>) = {w} /\ <<w>> # <<>>
    BY DEF IsSeq, ToSet
  <2>5. \A c \in Chains(t, 0) : Announces(t, w, c, 0)
    BY <2>2 DEF Announces, NameOf, MaskOf, ValueOf
  <2>6. Chains(t, 0) # {}
    <3> DEFINE c == [i \in 1 .. 0 |-> t]
    <3>1. 1 .. 0 = {}
      OBVIOUS
    <3>2. c \in [1 .. 0 -> Announced(t)]
      BY <3>1
    <3>3. c \in Chains(t, 0)
      BY <3>1, <3>2 DEF Chains
    <3> QED  BY <3>3
  <2>7. 0 .. 0 = {0}
    OBVIOUS
  <2>8. Covered(t, 0, {}, {w}, {})
    BY <2>5, <2>6, <2>7 DEF Covered
  <2> QED  BY <2>1, <2>3, <2>4, <2>8, TableLemma DEF CoverInv
<1>2. NumInv /\ NumInv' /\ CoverInv /\ [Next]_vars => CoverInv'
  <2> SUFFICES ASSUME NumInv, CoverInv, [Next]_vars PROVE CoverInv'
    OBVIOUS
  <2>1. CASE Walk
    BY <2>1, CoverWalk
  <2>2. ASSUME UNCHANGED <<layer_info, walkVars>>, pc' # "walk" => pc # "walk"
        PROVE  CoverInv'
    <3>1. /\ layer_info' = layer_info /\ wait' = wait /\ nextWait' = nextWait
          /\ curIdx' = curIdx /\ layerID' = layerID /\ rule_info' = rule_info
      BY <2>2 DEF walkVars
    <3>2. pc' # "walk" => wait' = <<>>
      BY <2>2, <3>1 DEF CoverInv
    <3> QED  BY <3>1, <3>2 DEF CoverInv
  <2>3. CASE WalkDone
    <3>1. wait = <<>> /\ UNCHANGED <<layer_info, walkVars>>
      BY <2>3 DEF WalkDone
    <3> QED  BY <3>1 DEF CoverInv, walkVars
  <2>4. CASE WriteLayer0
    BY <2>2, <2>4 DEF WriteLayer0
  <2>5. CASE WriteRule
    BY <2>2, <2>5 DEF WriteRule
  <2>6. CASE WriteDone
    BY <2>2, <2>6 DEF WriteDone
  <2>7. CASE UNCHANGED vars
    BY <2>2, <2>7 DEF vars
  <2> QED  BY <2>1, <2>3, <2>4, <2>5, <2>6, <2>7 DEF Next
<1> QED  BY <1>1, <1>2, Numbered, PTL DEF Spec

(* In a table without a cycle the walk has been through every chain.       *)
LEMMA EveryChainHasRule ==
  ASSUME NumInv, CoverInv, pc # "walk", NEW t \in Tables, t = layer_info,
         Closed(t), Acyclic(t), NEW n \in 0 .. Len(t), NEW c \in Chains(t, n)
  PROVE  \E r \in ToSet(rule_info) : RuleOf(t, r, c, n)
<1>1. PICK L \in Nat : L = layerID
  BY DEF NumInv
<1>2. /\ wait = <<>> /\ ToSet(wait) = {}
      /\ Covered(t, L, ToSet(rule_info), ToSet(wait), ToSet(nextWait))
  BY <1>1 DEF CoverInv, ToSet
<1>3. ASSUME NEW r \in ToSet(rule_info) PROVE r.layerID < L
  <2>1. PICK i \in 1 .. Len(rule_info) : r = rule_info[i]
    BY SeqLemma DEF NumInv
  <2> QED  BY <1>1, <1>2, <2>1 DEF CoverInv
<1>4. \A m \in 0 .. L : \A b \in Chains(t, m) : \E r \in ToSet(rule_info) : RuleOf(t, r, b, m)
  BY <1>2 DEF Covered
<1>5. Chains(t, L) = {}
  <2>1. L \in 0 .. L
    BY <1>1
  <2> QED  BY <1>1, <1>3, <1>4, <2>1 DEF RuleOf
<1>6. n \in Nat /\ ~(L <= n)
  <2>1. n \in Nat
    BY TableLemma
  <2> QED  BY <1>1, <1>5, <2>1, ChainsEnd
<1>7. n \in 0 .. L
  BY <1>1, <1>6
<1> QED  BY <1>4, <1>7

(* What a written register holds: byte j + 1 of the word, and zero behind  *)
(* its last byte.                                                          *)
LEMMA WordBytes ==
  ASSUME NEW mask, mask \subseteq Nat, mask # None, NEW word, word \subseteq Nat, NEW len,
         len = IF \E b \in mask : b >= TYPE_WIDTH THEN 2 ELSE 1, NEW j \in TypeIds
  PROVE  /\ Len(BytesOf(mask, word)) = len
         /\ OnTypeIds(BytesOf(mask, word))[j] = IF j < len THEN ByteOf(word, len, j + 1) ELSE Zero
<1> DEFINE low == LowBits(word)
           high == HighBits(word)
<1>1. TYPE_WIDTH \in Nat /\ j \in Nat
  BY WidthAssumption, NumAssumption DEF TypeIds
<1>2. CASE \E b \in mask : b >= TYPE_WIDTH
  <2>1. BytesOf(mask, word) = <<high, low>> /\ len = 2
    BY <1>2 DEF BytesOf
  <2>2. LowBits(high) = ByteOf(word, 2, 1)
    <3>1. TYPE_WIDTH * (2 - 1) = TYPE_WIDTH
      BY <1>1
    <3>2. ByteOf(word, 2, 1) = {b \in 0 .. TYPE_WIDTH - 1 : b + TYPE_WIDTH \in word}
      BY <3>1 DEF ByteOf
    <3>3. ASSUME NEW b \in LowBits(high) PROVE b \in ByteOf(word, 2, 1)
      <4>1. b \in high /\ b < TYPE_WIDTH
        BY DEF LowBits
      <4>2. PICK x \in word : x >= TYPE_WIDTH /\ b = x - TYPE_WIDTH
        BY <4>1 DEF HighBits
      <4>3. x \in Nat /\ b \in 0 .. TYPE_WIDTH - 1 /\ b + TYPE_WIDTH = x
        BY <1>1, <4>1, <4>2
      <4> QED  BY <3>2, <4>2, <4>3
    <3>4. ASSUME NEW b \in ByteOf(word, 2, 1) PROVE b \in LowBits(high)
      <4>1. b \in 0 .. TYPE_WIDTH - 1 /\ b + TYPE_WIDTH \in word
        BY <3>2
      <4>2. b + TYPE_WIDTH >= TYPE_WIDTH /\ b = (b + TYPE_WIDTH) - TYPE_WIDTH /\ b < TYPE_WIDTH
        BY <1>1, <4>1
      <4>3. b \in high
        BY <4>1, <4>2 DEF HighBits
      <4> QED  BY <4>2, <4>3 DEF LowBits
    <3> QED  BY <3>3, <3>4
  <2>3. LowBits(low) = ByteOf(word, 2, 2)
    <3>1. TYPE_WIDTH * (2 - 2) = 0
      BY <1>1
    <3>2. ByteOf(word, 2, 2) = {b \in 0 .. TYPE_WIDTH - 1 : b + 0 \in word}
      BY <3>1 DEF ByteOf
    <3>3. \A b \in Nat : b + 0 = b /\ (b < TYPE_WIDTH <=> b \in 0 .. TYPE_WIDTH - 1)
      BY <1>1
    <3>4. ByteOf(word, 2, 2) = {b \in 0 .. TYPE_WIDTH - 1 : b \in word}
      BY <3>2
    <3>5. LowBits(low) = {b \in word : b < TYPE_WIDTH}
      BY DEF LowBits
    <3> QED  BY <3>3, <3>4, <3>5
  <2>4. Len(<<high, low>>) = 2 /\ <<high, low>>[1] = high /\ <<high, low>>[2] = low
    OBVIOUS
  <2> HIDE DEF high, low
  <2>5. OnTypeIds(<<high, low>>)[j] = IF j < 2 THEN LowBits(<<high, low>>[j + 1]) ELSE Zero
    BY <2>4 DEF OnTypeIds
  <2>6. j = 0 \/ j = 1 \/ ~(j < 2)
    BY <1>1
  <2> QED  BY <2>1, <2>2, <2>3, <2>4, <2>5, <2>6
<1>3. CASE ~(\E b \in mask : b >= TYPE_WIDTH)
  <2>1. BytesOf(mask, word) = <<word>> /\ len = 1
    BY <1>3 DEF BytesOf
  <2>2. LowBits(word) = ByteOf(word, 1, 1)
    <3>1. TYPE_WIDTH * (1 - 1) = 0
      BY <1>1
    <3>2. ByteOf(word, 1, 1) = {b \in 0 .. TYPE_WIDTH - 1 : b + 0 \in word}
      BY <3>1 DEF ByteOf
    <3>3. \A b \in Nat : b + 0 = b /\ (b < TYPE_WIDTH <=> b \in 0 .. TYPE_WIDTH - 1)
      BY <1>1
    <3>4. ByteOf(word, 1, 1) = {b \in 0 .. TYPE_WIDTH - 1 : b \in word}
      BY <3>2
    <3> QED  BY <3>3, <3>4 DEF LowBits
  <2>3. OnTypeIds(<<word>>)[j] = IF j < 1 THEN LowBits(<<word>>[j + 1]) ELSE Zero
    BY DEF OnTypeIds
  <2>4. j = 0 \/ ~(j < 1)
    BY <1>1
  <2> QED  BY <2>1, <2>2, <2>3, <2>4
<1> QED  BY <1>2, <1>3

(* The bytes that the rule of a row takes from a header are those shown.   *)
LEMMA ShownBytes ==
  ASSUME NEW row, row.offset \in Nat, row.len \in Nat, row.offset + row.len <= TypeCandiNum,
         NEW w, w.typeOffset = OffsetsOnTypeIds(OffsetsOf(row)), NEW data, NEW j \in TypeIds
  PROVE  ExtractTypes(data, w)[j] = ShownByte(row, data, j + 1)
<1>1. j \in Nat /\ TypeCandiNum \in Nat
  BY WidthAssumption, NumAssumption DEF TypeIds, TypeCandiNum
<1> DEFINE s == OffsetsOf(row)
<1>2. /\ s = [i \in 1 .. row.len |-> row.offset + i - 1] /\ Len(s) = row.len
  <2>1. s = [i \in 1 .. row.len |-> row.offset + i - 1]
    BY DEF OffsetsOf
  <2>2. \A i \in 1 .. row.len : row.offset + i - 1 \in Int
    OBVIOUS
  <2>3. s \in [1 .. row.len -> Int]
    BY <2>1, <2>2
  <2>4. s \in Seq(Int) /\ DOMAIN s = 1 .. row.len
    BY <2>3
  <2> QED  BY <2>1, <2>4
<1> HIDE DEF s
<1>3. w.typeOffset[j] = IF j < row.len THEN s[j + 1] % TypeCandiNum ELSE 0
  BY <1>2 DEF OffsetsOnTypeIds, s
<1>4. CASE j < row.len
  <2>1. s[j + 1] = row.offset + (j + 1) - 1 /\ j + 1 <= row.len
    BY <1>1, <1>2, <1>4
  <2>2. row.offset + (j + 1) - 1 \in 0 .. TypeCandiNum - 1
    BY <1>1, <1>4
  <2>3. \A m \in Nat : \A x \in 0 .. m - 1 : x % m = x
    OBVIOUS
  <2>4. w.typeOffset[j] = row.offset + (j + 1) - 1
    BY <1>1, <1>3, <1>4, <2>1, <2>2, <2>3
  <2> QED  BY <2>1, <2>4 DEF ExtractTypes, ShownByte
<1>5. CASE ~(j < row.len)
  <2>1. ~(j + 1 <= row.len) /\ w.typeOffset[j] = 0
    BY <1>1, <1>3, <1>5
  <2> QED  BY <2>1 DEF ExtractTypes, ShownByte
<1> QED  BY <1>4, <1>5

HitBy(rule, type) == \A j \in TypeIds : rule.typeMask[j] \cap type[j] = rule.typeData[j]

(* The rule that a header's announcement made hits these bytes if and only *)
(* if they match the announcement.                                         *)
LEMMA HitIsMatch ==
  ASSUME NEW row, row.offset \in Nat, row.len \in Nat, row.offset + row.len <= TypeCandiNum,
         NEW w, w.typeOffset = OffsetsOnTypeIds(OffsetsOf(row)), NEW data,
         NEW other, other.mask \subseteq Nat, other.mask # None,
         other.len = IF \E b \in other.mask : b >= TYPE_WIDTH THEN 2 ELSE 1,
         NEW p, p.value \subseteq Nat,
         Len(BytesOf(other.mask, p.value)) <= TYPE_NUM,
         NEW v, v.typeData = OnTypeIds(BytesOf(other.mask, p.value)),
         v.typeMask = OnTypeIds(BytesOf(other.mask, other.mask))
  PROVE  HitBy(v, ExtractTypes(data, w)) <=> Matches(row, data, other, p)
<1> DEFINE m == other.mask
           Type1(i) == ShownByte(row, data, i)
           Byte(word, i) == ByteOf(word, other.len, i)
<1>1. ASSUME NEW j \in TypeIds
      PROVE  /\ v.typeMask[j] = IF j < other.len THEN Byte(m, j + 1) ELSE Zero
             /\ v.typeData[j] = IF j < other.len THEN Byte(p.value, j + 1) ELSE Zero
             /\ ExtractTypes(data, w)[j] = Type1(j + 1)
             /\ other.len <= TYPE_NUM /\ j \in Nat
  <2>1. v.typeMask[j] = IF j < other.len THEN Byte(m, j + 1) ELSE Zero
    <3>1. OnTypeIds(BytesOf(m, m))[j] = IF j < other.len THEN Byte(m, j + 1) ELSE Zero
      BY WordBytes
    <3> QED  BY <3>1
  <2>2. v.typeData[j] = IF j < other.len THEN Byte(p.value, j + 1) ELSE Zero
    <3>1. OnTypeIds(BytesOf(m, p.value))[j]
            = IF j < other.len THEN Byte(p.value, j + 1) ELSE Zero
      BY WordBytes
    <3> QED  BY <3>1
  <2>3. ExtractTypes(data, w)[j] = Type1(j + 1)
    BY ShownBytes
  <2>4. other.len <= TYPE_NUM
    BY WordBytes
  <2> QED  BY <2>1, <2>2, <2>3, <2>4, NumAssumption DEF TypeIds
<1>2. Matches(row, data, other, p) <=>
        \A i \in 1 .. other.len : Type1(i) \cap Byte(m, i) = Byte(p.value, i)
  BY DEF Matches
<1>3. 0 \in TypeIds /\ TYPE_NUM \in Nat /\ TypeIds = 0 .. TYPE_NUM - 1
      /\ other.len \in Nat
  BY NumAssumption DEF TypeIds
<1> HIDE DEF m, Type1, Byte
<1>4. ASSUME \A i \in 1 .. other.len : Type1(i) \cap Byte(m, i) = Byte(p.value, i),
             NEW j \in TypeIds
      PROVE  v.typeMask[j] \cap ExtractTypes(data, w)[j] = v.typeData[j]
  <2>1. CASE j < other.len
    <3>1. j + 1 \in 1 .. other.len
      BY <1>1, <1>3, <2>1
    <3> QED  BY <1>1, <1>4, <2>1, <3>1
  <2>2. CASE ~(j < other.len)
    BY <1>1, <2>2 DEF Zero
  <2> QED  BY <2>1, <2>2
<1>5. ASSUME \A j \in TypeIds : v.typeMask[j] \cap ExtractTypes(data, w)[j] = v.typeData[j],
             NEW i \in 1 .. other.len
      PROVE  Type1(i) \cap Byte(m, i) = Byte(p.value, i)
  <2>1. other.len <= TYPE_NUM
    BY <1>1, <1>3
  <2>2. i - 1 \in TypeIds /\ i - 1 < other.len /\ (i - 1) + 1 = i
    BY <1>3, <2>1
  <2> QED  BY <1>1, <1>5, <2>2
<1> QED  BY <1>2, <1>4, <1>5 DEF HitBy

-----------------------------------------------------------------------------
(* No two rules are forced into one register.                              *)
LEMMA OneRulePerRegister ==
  ASSUME NumInv, NEW i \in 1 .. Len(written), NEW k \in 1 .. Len(written), i < k,
         written[i].layer = written[k].layer, written[i].layer # 0
  PROVE  written[i].index # written[k].index
<1>1. /\ written[i].index = Cardinality(Before(i)) /\ written[k].index = Cardinality(Before(k))
  BY DEF NumInv, WrittenAs
<1>2. i \in Nat /\ k \in Nat /\ IsFiniteSet(1 .. k - 1)
  <2>1. Len(written) \in Nat
    BY SeqLemma DEF NumInv
  <2>2. i \in Nat /\ k \in Nat /\ k - 1 \in Int
    BY <2>1
  <2> QED  BY <2>2, FS_Interval
<1>3. Before(i) \cup {i} \subseteq Before(k) /\ i \notin Before(i)
  BY <1>2 DEF Before
<1>4. IsFiniteSet(Before(k)) /\ IsFiniteSet(Before(i))
  <2>1. Before(k) \subseteq 1 .. k - 1
    BY DEF Before
  <2>2. IsFiniteSet(Before(k))
    BY <1>2, <2>1, FS_Subset
  <2> QED  BY <1>3, <2>2, FS_Subset
<1>5. Cardinality(Before(i) \cup {i}) = Cardinality(Before(i)) + 1
  BY <1>3, <1>4, FS_AddElement
<1>6. Cardinality(Before(i) \cup {i}) <= Cardinality(Before(k))
  BY <1>3, <1>4, FS_Subset
<1>7. Cardinality(Before(i)) \in Nat /\ Cardinality(Before(k)) \in Nat
  BY <1>4, FS_CardinalityType
<1> QED  BY <1>1, <1>5, <1>6, <1>7

(* A register holds a rule of its layer, and the register of a rule that   *)
(* exists holds that rule.                                                 *)
LEMMA RegistersLemma ==
  ASSUME NumInv, NEW n \in Nat, n # 0
  PROVE  /\ \A i \in RuleIds : Registers(n)[i].valid =>
              \E k \in 1 .. Len(written) : written[k].layer = n /\ Registers(n)[i] = written[k]
         /\ \A k \in 1 .. Len(written) :
              written[k].layer = n /\ written[k].index \in RuleIds =>
                Registers(n)[written[k].index] = written[k]
<1> DEFINE forced(i) == {k \in DOMAIN written : written[k].layer = n /\ written[k].index = i}
<1>1. /\ Len(written) \in Nat /\ DOMAIN written = 1 .. Len(written)
  BY SeqLemma DEF NumInv
<1>2. \A i \in RuleIds :
        Registers(n)[i] = IF forced(i) = {} THEN NoRule ELSE written[Max(forced(i))]
  BY DEF Registers
<1>3. ASSUME NEW i, forced(i) # {}
      PROVE  Max(forced(i)) \in 1 .. Len(written) /\ written[Max(forced(i))].layer = n
             /\ written[Max(forced(i))].index = i
  <2>1. forced(i) \subseteq 1 .. Len(written)
    BY <1>1
  <2>2. Max(forced(i)) \in forced(i)
    <3> HIDE DEF forced
    <3> QED  BY <1>1, <1>3, <2>1, GreatestNumber
  <2> QED  BY <2>1, <2>2
<1>4. ASSUME NEW i \in RuleIds, Registers(n)[i].valid
      PROVE  \E k \in 1 .. Len(written) : written[k].layer = n /\ Registers(n)[i] = written[k]
  <2>1. forced(i) # {}
    <3>1. ~NoRule.valid
      BY DEF NoRule
    <3> HIDE DEF forced
    <3> QED  BY <1>2, <1>4, <3>1
  <2> HIDE DEF forced
  <2> QED  BY <1>2, <1>3, <2>1
<1>5. ASSUME NEW k \in 1 .. Len(written), written[k].layer = n, written[k].index \in RuleIds
      PROVE  Registers(n)[written[k].index] = written[k]
  <2> DEFINE i == written[k].index
             m == Max(forced(i))
  <2>1. k \in forced(i)
    BY <1>1, <1>5
  <2>2. forced(i) # {} /\ i \in RuleIds
    BY <1>5, <2>1
  <2>3. /\ m \in 1 .. Len(written) /\ written[m].layer = n /\ written[m].index = i
        /\ Registers(n)[i] = written[m]
    <3> HIDE DEF forced, i
    <3> QED  BY <1>2, <1>3, <2>2
  <2> HIDE DEF m
  <2>4. ~(m < k) /\ ~(k < m)
    BY <1>5, <2>3, OneRulePerRegister
  <2>5. m = k
    BY <1>1, <2>3, <2>4
  <2> QED  BY <2>3, <2>5
<1> QED  BY <1>4, <1>5

(* A rule stands for a chain of the table, in its own layer.               *)
LEMMA WrittenForChain ==
  ASSUME NumInv, CoverInv, pc = "done", NEW t \in Tables, t = layer_info, Closed(t),
         NEW n \in Nat, NEW k \in 1 .. Len(written), written[k].layer = n
  PROVE  \E c \in Chains(t, n) : RuleOf(t, rule_info[k], c, n)
<1>1. k \in 1 .. Len(rule_info) /\ IsSeq(rule_info)
  BY DEF NumInv
<1>2. rule_info[k] \in ToSet(rule_info) /\ rule_info[k].layerID = n
  BY <1>1, SeqLemma DEF NumInv, WrittenAs
<1>3. Covered(t, layerID, ToSet(rule_info), ToSet(wait), ToSet(nextWait))
  BY DEF CoverInv
<1>4. PICK m \in 0 .. layerID : \E c \in Chains(t, m) : RuleOf(t, rule_info[k], c, m)
  BY <1>2, <1>3 DEF Covered
<1> QED  BY <1>2, <1>4 DEF RuleOf

(* The header a chain ends with, and the row that announces it.            *)
LEMMA LastHeader ==
  ASSUME NEW t \in Tables, Closed(t), Masked(t), NEW n \in Nat, n # 0, NEW c \in Chains(t, n),
         NEW row, row = t[RowOf(t, c, n - 1)]
  PROVE  /\ c[n].mask = row.mask /\ row.mask \subseteq Nat /\ row.mask # None
         /\ c[n].value \subseteq Nat /\ row.offset \in Nat /\ row.len \in Nat
         /\ row.len = IF \E b \in row.mask : b >= TYPE_WIDTH THEN 2 ELSE 1
         /\ row.offset + row.len <= TypeCandiNum
<1>1. n \in 1 .. n /\ n - 1 \in 0 .. n
  OBVIOUS
<1>2. PICK r : r = RowOf(t, c, n - 1) /\ r \in DOMAIN t /\ row = t[r]
  <2>1. RowOf(t, c, n - 1) \in 1 .. Len(t)
    BY <1>1, ChainRows
  <2> QED  BY <2>1, TableLemma
<1>3. c[n] \in ToSet(NextTypes(t[r]))
  BY <1>1, <1>2 DEF Chains
<1>4. c[n].mask = row.mask /\ c[n].value \subseteq Nat /\ row.proto # <<>>
  BY <1>2, <1>3, NextTypesLemma
<1>5. /\ row.offset \in Nat /\ row.len \in Nat /\ row.mask \subseteq Nat /\ row.mask # None
  BY <1>2, GenRuleAssumption
<1> QED  BY <1>2, <1>4, <1>5 DEF Masked

(* What the bytes of a header hit: a written rule hits them if and only if *)
(* they match what the rule's own chain announces.                         *)
LEMMA WrittenHits ==
  ASSUME NumInv, CoverInv, pc = "done", RegistersExist,
         NEW t \in Tables, t = layer_info, Closed(t), Masked(t),
         NEW n \in Nat, n # 0, NEW c \in Chains(t, n), NEW data,
         NEW l \in 1 .. Len(written), written[l].layer = n - 1,
         written[l].row = RowOf(t, c, n - 1),
         NEW k \in 1 .. Len(written), written[k].layer = n,
         NEW e \in Chains(t, n), RuleOf(t, rule_info[k], e, n)
  PROVE  HitBy(written[k], ExtractTypes(data, written[l]))
           <=> Matches(t[RowOf(t, c, n - 1)], data, t[RowOf(t, e, n - 1)], e[n])
<1> DEFINE row == t[RowOf(t, c, n - 1)]
           other == t[RowOf(t, e, n - 1)]
<1>1. row.offset \in Nat /\ row.len \in Nat /\ row.offset + row.len <= TypeCandiNum
  BY LastHeader
<1>2. /\ e[n].mask = other.mask /\ other.mask \subseteq Nat /\ other.mask # None
      /\ other.len = IF \E b \in other.mask : b >= TYPE_WIDTH THEN 2 ELSE 1
      /\ e[n].value \subseteq Nat
  BY LastHeader
<1>3. written[l].typeOffset = OffsetsOnTypeIds(OffsetsOf(row))
  <2>1. n - 1 \in Nat
    OBVIOUS
  <2>2. PICK b \in Chains(t, n - 1) : RuleOf(t, rule_info[l], b, n - 1)
    BY <2>1, WrittenForChain
  <2>3. /\ written[l].row = rule_info[l].row
        /\ written[l].typeOffset = OffsetsOnTypeIds(rule_info[l].typeOffset)
    BY DEF NumInv, WrittenAs
  <2> QED  BY <2>2, <2>3 DEF RuleOf
<1>4. /\ rule_info[k].typeMask = BytesOf(other.mask, other.mask)
      /\ rule_info[k].typeValue = BytesOf(other.mask, e[n].value)
  BY <1>2 DEF RuleOf, MaskOf, ValueOf
<1>5. /\ written[k].typeData = OnTypeIds(BytesOf(other.mask, e[n].value))
      /\ written[k].typeMask = OnTypeIds(BytesOf(other.mask, other.mask))
  BY <1>4 DEF NumInv, WrittenAs
<1>6. Len(BytesOf(other.mask, e[n].value)) <= TYPE_NUM
  <2>1. k \in DOMAIN written
    BY SeqLemma DEF NumInv
  <2> QED  BY <1>4, <2>1 DEF RegistersExist
<1>7. PICK v, x, p : v = written[k] /\ x = written[l] /\ p = e[n]
  OBVIOUS
<1> HIDE DEF row, other
<1>8. /\ x.typeOffset = OffsetsOnTypeIds(OffsetsOf(row)) /\ p.value \subseteq Nat
      /\ Len(BytesOf(other.mask, p.value)) <= TYPE_NUM
      /\ v.typeData = OnTypeIds(BytesOf(other.mask, p.value))
      /\ v.typeMask = OnTypeIds(BytesOf(other.mask, other.mask))
  BY <1>2, <1>3, <1>5, <1>6, <1>7
<1>9. HitBy(v, ExtractTypes(data, x)) <=> Matches(row, data, other, p)
  BY <1>1, <1>2, <1>8, HitIsMatch
<1> QED  BY <1>7, <1>9 DEF row, other

(* What Lookup_Type finds for a header: a rule, and of the right row.      *)
LEMMA HitsLemma ==
  ASSUME NumInv, CoverInv, pc = "done", RegistersExist,
         NEW t \in Tables, t = layer_info, Sound(t), Masked(t), Unambiguous(t),
         NEW n \in 1 .. Len(t) - 1, NEW c \in Chains(t, n), NEW data \in Data,
         Matches(t[RowOf(t, c, n - 1)], data, t[RowOf(t, c, n - 1)], c[n]),
         NEW w \in ToSet(written), w.layer = n - 1, w.row = RowOf(t, c, n - 1)
  PROVE  LET type == ExtractTypes(data, w)
             found == FirstHit(Registers(n), type)
         IN  HitRules(Registers(n), type) # {} /\ Registers(n)[found].row = RowOf(t, c, n)
<1> DEFINE type == ExtractTypes(data, w)
           H == HitRules(Registers(n), type)
           Hit(v) == HitBy(v, type)
<1>1. n \in 0 .. Len(t) /\ n # 0 /\ n \in Nat /\ Closed(t) /\ Acyclic(t)
  BY TableLemma DEF Sound
<1>2. IsSeq(written) /\ IsSeq(rule_info) /\ Len(written) = Len(rule_info)
      /\ DOMAIN written = 1 .. Len(written)
  BY SeqLemma DEF NumInv
<1>3. PICK l \in 1 .. Len(written) : w = written[l]
  BY <1>2, SeqLemma
<1>4. ASSUME NEW k \in 1 .. Len(written), written[k].layer = n,
             NEW e \in Chains(t, n), RuleOf(t, rule_info[k], e, n)
      PROVE  Hit(written[k]) <=> Matches(t[RowOf(t, c, n - 1)], data, t[RowOf(t, e, n - 1)], e[n])
  <2>1. written[l].layer = n - 1 /\ written[l].row = RowOf(t, c, n - 1)
    BY <1>3
  <2> HIDE DEF Hit
  <2>2. HitBy(written[k], ExtractTypes(data, written[l]))
          <=> Matches(t[RowOf(t, c, n - 1)], data, t[RowOf(t, e, n - 1)], e[n])
    BY <1>1, <1>4, <2>1, WrittenHits
  <2> QED  BY <1>3, <2>2 DEF Hit
<1>5. \A i : i \in H <=> i \in RuleIds /\ Registers(n)[i].valid /\ Hit(Registers(n)[i])
  BY DEF HitRules, HitBy
<1> HIDE DEF H, Hit, type
<1>6. H # {}
  <2>1. PICK r \in ToSet(rule_info) : RuleOf(t, r, c, n)
    BY <1>1, EveryChainHasRule
  <2>2. PICK k \in 1 .. Len(written) : r = rule_info[k]
    BY <1>2, SeqLemma
  <2>3. written[k].layer = n /\ written[k].valid /\ written[k].index \in Nat
    <3>1. WrittenAs(k) /\ rule_info[k].layerID = n
      BY <2>1, <2>2 DEF NumInv, RuleOf
    <3>2. written[k].valid /\ written[k].index = Cardinality(Before(k))
      BY <1>1, <3>1 DEF WrittenAs
    <3>3. IsFiniteSet(Before(k))
      <4>1. k \in Nat /\ k - 1 \in Int
        OBVIOUS
      <4>2. IsFiniteSet(1 .. k - 1)
        BY <4>1, FS_Interval
      <4> QED  BY <4>2, FS_Subset DEF Before
    <3> QED  BY <3>1, <3>2, <3>3, FS_CardinalityType DEF WrittenAs
  <2>4. written[k].index \in RuleIds
    <3>1. written[k].index < RULE_NUM
      BY <1>2 DEF RegistersExist
    <3> QED  BY <2>3, <3>1, NumAssumption DEF RuleIds
  <2>5. Registers(n)[written[k].index] = written[k]
    BY <1>1, <2>3, <2>4, RegistersLemma
  <2>6. Hit(written[k])
    BY <1>4, <2>1, <2>2, <2>3
  <2> QED  BY <1>5, <2>3, <2>4, <2>5, <2>6
<1>7. ASSUME NEW i \in H PROVE Registers(n)[i].row = RowOf(t, c, n)
  <2>1. PICK k \in 1 .. Len(written) : written[k].layer = n /\ Registers(n)[i] = written[k]
    BY <1>1, <1>5, RegistersLemma
  <2>2. PICK e \in Chains(t, n) : RuleOf(t, rule_info[k], e, n)
    BY <1>1, <2>1, WrittenForChain
  <2>3. Matches(t[RowOf(t, c, n - 1)], data, t[RowOf(t, e, n - 1)], e[n])
    BY <1>4, <1>5, <2>1, <2>2
  <2>4. RowOf(t, c, n) = RowOf(t, e, n)
    BY <2>3 DEF Unambiguous
  <2>5. written[k].row = rule_info[k].row
    BY DEF NumInv, WrittenAs
  <2> QED  BY <2>1, <2>2, <2>4, <2>5 DEF RuleOf
<1>8. FirstHit(Registers(n), type) \in H
  <2>1. H \subseteq Nat
    BY <1>5, NumAssumption DEF RuleIds
  <2>2. \E i \in H : \A k \in H : i <= k
    BY <1>6, <2>1, LeastNumber
  <2>3. FirstHit(Registers(n), type) = CHOOSE i \in H : \A k \in H : i <= k
    BY DEF FirstHit, H
  <2> QED  BY <2>2, <2>3
<1> QED  BY <1>6, <1>7, <1>8 DEF H, type

(* A parser whose registers hold the rules follows every chain of headers  *)
(* the table describes, by the masked bytes of these headers: for every    *)
(* table without a cycle in which each protocol has a row, whose masks     *)
(* tell the length of their fields, in which no header looks like another  *)
(* of its depth, and whose rules have a register each.                     *)
THEOREM EveryChain == Spec => []ChainsParsed
<1>1. NumInv /\ CoverInv => ChainsParsed
  <2> SUFFICES ASSUME NumInv, CoverInv, pc = "done", RegistersExist, Sound(layer_info),
                      Masked(layer_info), Unambiguous(layer_info)
               PROVE  ChainsParsed
    BY DEF ChainsParsed
  <2>1. PICK t \in Tables : t = layer_info
    BY DEF CoverInv
  <2> QED  BY <2>1, HitsLemma DEF ChainsParsed
<1> QED  BY <1>1, WalkCovered, PTL

-----------------------------------------------------------------------------
(* The parser in C.                                                        *)

(* The loop adds up to a number, whichever rules hit.                      *)
LEMMA SumIsNumber ==
  ASSUME NEW S, IsFiniteSet(S), NEW table, \A i \in S : table[i].metaShift \in Nat,
         meta_shift \in Nat
  PROVE  NextMetaShift(S, table) \in Nat
<1> DEFINE It(g) == g = [s \in SUBSET S |->
                     IF s = {} THEN 0
                     ELSE LET y == CHOOSE y \in s : TRUE IN table[y].metaShift + g[s \ {y}]]
           iter == CHOOSE g : It(g)
           pick(s) == CHOOSE y \in s : TRUE
           Body(g, s) == IF s = {} THEN 0 ELSE table[pick(s)].metaShift + g[s \ {pick(s)}]
           Small(n) == {s \in SUBSET S : Cardinality(s) <= n}
           Good(n, g) == g \in [Small(n) -> Nat] /\ \A s \in Small(n) : g[s] = Body(g, s)
           Has(n) == \E g : Good(n, g)
<1>1. ASSUME NEW s \in SUBSET S
      PROVE  /\ Cardinality(s) \in Nat /\ Cardinality(s) <= Cardinality(S)
             /\ s # {} => /\ table[pick(s)].metaShift \in Nat
                          /\ s \ {pick(s)} \in SUBSET S
                          /\ Cardinality(s \ {pick(s)}) = Cardinality(s) - 1
                          /\ Cardinality(s \ {pick(s)}) \in Nat
  <2>1. IsFiniteSet(s) /\ Cardinality(s) <= Cardinality(S)
    BY FS_Subset
  <2>2. s # {} => pick(s) \in s
    OBVIOUS
  <2>3. s # {} => IsFiniteSet(s \ {pick(s)})
    BY <2>1, FS_Subset
  <2> HIDE DEF pick
  <2> QED  BY <2>1, <2>2, <2>3, FS_CardinalityType, FS_RemoveElement
<1> HIDE DEF pick
<1>2. \A s \in SUBSET S : Cardinality(s) <= 0 => s = {}
  <2> SUFFICES ASSUME NEW s \in SUBSET S, Cardinality(s) <= 0, s # {} PROVE FALSE
    OBVIOUS
  <2>1. /\ Cardinality(s) \in Nat /\ Cardinality(s \ {pick(s)}) \in Nat
        /\ Cardinality(s \ {pick(s)}) = Cardinality(s) - 1
    BY <1>1
  <2> QED  BY <2>1
<1>3. Has(0)
  <2> DEFINE g == [s \in Small(0) |-> 0]
  <2>1. Good(0, g)
    BY <1>2
  <2> QED  BY <2>1
<1>4. ASSUME NEW n \in Nat, Has(n) PROVE Has(n + 1)
  <2>1. PICK g : Good(n, g)
    BY <1>4
  <2> DEFINE h == [s \in Small(n + 1) |-> Body(g, s)]
  <2>2. ASSUME NEW s \in Small(n + 1), s # {}
        PROVE  /\ s \ {pick(s)} \in Small(n) /\ s \ {pick(s)} \in Small(n + 1)
               /\ table[pick(s)].metaShift \in Nat
    BY <1>1, <2>2
  <2>3. \A s \in Small(n) : s \in Small(n + 1) /\ h[s] = g[s]
    <3>1. ASSUME NEW s \in Small(n) PROVE s \in Small(n + 1)
      <4>1. Cardinality(s) \in Nat /\ Cardinality(s) <= n
        BY <1>1
      <4>2. Cardinality(s) <= n + 1
        BY <4>1
      <4> QED  BY <4>2
    <3> QED  BY <2>1, <3>1
  <2>4. h \in [Small(n + 1) -> Nat]
    <3> SUFFICES ASSUME NEW s \in Small(n + 1) PROVE Body(g, s) \in Nat
      OBVIOUS
    <3>1. CASE s = {}
      BY <3>1
    <3>2. CASE s # {}
      <4>1. g[s \ {pick(s)}] \in Nat /\ table[pick(s)].metaShift \in Nat
        BY <2>1, <2>2, <3>2
      <4> QED  BY <3>2, <4>1
    <3> QED  BY <3>1, <3>2
  <2>5. \A s \in Small(n + 1) : h[s] = Body(h, s)
    <3> SUFFICES ASSUME NEW s \in Small(n + 1) PROVE Body(g, s) = Body(h, s)
      OBVIOUS
    <3> HIDE DEF h, Small
    <3> QED  BY <2>2, <2>3
  <2> HIDE DEF h
  <2> QED  BY <2>4, <2>5
<1> HIDE DEF Has
<1>5. \A n \in Nat : Has(n)
  <2> DEFINE T == {n \in Nat : ~Has(n)}
  <2> SUFFICES ASSUME T # {} PROVE FALSE
    OBVIOUS
  <2>1. PICK x \in T : \A y \in T : x <= y
    BY LeastNumber
  <2>2. x # 0 /\ x - 1 \in Nat /\ (x - 1) + 1 = x /\ ~(x <= x - 1)
    BY <1>3
  <2>3. Has(x - 1)
    BY <2>1, <2>2
  <2> QED  BY <1>4, <2>2, <2>3
<1>6. \E g : It(g)
  <2>1. PICK h : Good(Cardinality(S), h)
    BY <1>1, <1>5 DEF Has
  <2>2. Small(Cardinality(S)) = SUBSET S
    BY <1>1
  <2>3. h = [s \in SUBSET S |-> Body(h, s)]
    <3> HIDE DEF Body
    <3> QED  BY <2>1, <2>2
  <2>4. It(h)
    BY <2>3 DEF pick
  <2> QED  BY <2>4
<1>7. It(iter)
  <2> HIDE DEF It
  <2> QED  BY <1>6
<1>8. \A s \in SUBSET S : iter[s] = Body(iter, s)
  <2> HIDE DEF iter
  <2> QED  BY <1>7 DEF pick
<1>9. NextMetaShift(S, table) = iter[S] + meta_shift
  BY DEF NextMetaShift, MapThenSumSet, MapThenFoldSet
<1> HIDE DEF iter
<1>10. iter[S] \in Nat
  <2> DEFINE T == {n \in Nat : \E s \in SUBSET S : Cardinality(s) = n /\ iter[s] \notin Nat}
  <2>1. T = {} => iter[S] \in Nat
    BY <1>1
  <2> SUFFICES ASSUME T # {} PROVE FALSE
    BY <2>1
  <2>2. PICK x \in T : \A y \in T : x <= y
    <3> HIDE DEF T
    <3>1. T \subseteq Nat
      BY DEF T
    <3> QED  BY <3>1, LeastNumber
  <2>3. PICK s \in SUBSET S : Cardinality(s) = x /\ iter[s] \notin Nat
    OBVIOUS
  <2>4. s # {}
    BY <1>8, <2>3
  <2>5. /\ table[pick(s)].metaShift \in Nat /\ s \ {pick(s)} \in SUBSET S
        /\ Cardinality(s \ {pick(s)}) = x - 1 /\ x - 1 \in Nat /\ ~(x <= x - 1)
    <3>1. x \in Nat
      OBVIOUS
    <3>2. /\ table[pick(s)].metaShift \in Nat /\ s \ {pick(s)} \in SUBSET S
          /\ Cardinality(s \ {pick(s)}) = x - 1 /\ Cardinality(s \ {pick(s)}) \in Nat
      BY <1>1, <2>3, <2>4
    <3> HIDE DEF T
    <3> QED  BY <3>1, <3>2
  <2>6. iter[s \ {pick(s)}] \in Nat
    BY <2>2, <2>5
  <2>7. iter[s] = table[pick(s)].metaShift + iter[s \ {pick(s)}]
    BY <1>8, <2>4
  <2> QED  BY <2>3, <2>5, <2>6, <2>7
<1> QED  BY <1>9, <1>10

(* The loop adds the meta shift of the one rule that hits.                 *)
LEMMA SumOfOne ==
  ASSUME NEW table, NEW i, table[i].metaShift \in Nat
  PROVE  NextMetaShift({i}, table) = table[i].metaShift + meta_shift
<1> DEFINE m == table[i].metaShift
           It(g) == g = [s \in SUBSET {i} |->
                     IF s = {} THEN 0
                     ELSE LET y == CHOOSE y \in s : TRUE IN table[y].metaShift + g[s \ {y}]]
           iter == CHOOSE g : It(g)
           h == [s \in SUBSET {i} |-> IF s = {} THEN 0 ELSE m]
<1>1. NextMetaShift({i}, table) = iter[{i}] + meta_shift
  BY DEF NextMetaShift, MapThenSumSet, MapThenFoldSet
<1>2. \A s \in SUBSET {i} : s # {} => (CHOOSE y \in s : TRUE) = i
  OBVIOUS
<1>3. It(h)
  <2>1. \A s \in SUBSET {i} : s # {} => h[s \ {i}] = 0
    OBVIOUS
  <2>2. m + 0 = m
    OBVIOUS
  <2> QED  BY <1>2, <2>1, <2>2
<1>4. It(iter)
  <2> HIDE DEF It
  <2> QED  BY <1>3
<1>5. iter[{i}] = m + iter[{}] /\ iter[{}] = 0
  <2> HIDE DEF iter
  <2>1. \A s \in SUBSET {i} :
          iter[s] = IF s = {} THEN 0
                    ELSE table[CHOOSE y \in s : TRUE].metaShift
                           + iter[s \ {CHOOSE y \in s : TRUE}]
    BY <1>4, Zenon
  <2> QED  BY <1>2, <2>1
<1>6. iter[{i}] = m
  BY <1>5
<1> QED  BY <1>1, <1>6

LEMMA LastCall ==
  ASSUME NEW S, NEW s \in Seq(S), NEW e
  PROVE  /\ Append(s, e) \in Seq(S \cup {e})
         /\ Len(s) \in Nat /\ Len(Append(s, e)) = Len(s) + 1
         /\ \A n \in 1 .. Len(s) : Append(s, e)[n] = s[n]
         /\ Append(s, e)[Len(s) + 1] = e
<1>1. s \in Seq(S \cup {e})
  OBVIOUS
<1> QED  BY <1>1

(* The rules stay what they were, the meta shift stays a number and the    *)
(* calls are a list.                                                       *)
CallsInv ==
  /\ parse_rules \in Programs /\ meta_shift \in Nat
  /\ \E S : calls \in Seq(S)

(* Every call appends what it was given to the calls before it.            *)
LEMMA OneCall ==
  ASSUME CallsInv, NextC
  PROVE  LET N == Len(calls) + 1
         IN  /\ CallsInv'
             /\ Len(calls) \in Nat /\ Len(calls') = N /\ N \in Nat /\ N - 1 = Len(calls)
             /\ \A n \in Called : calls'[n] = calls[n]
             /\ calls'[N] = [type |-> TypeData, keys |-> KeyFieldData,
                             from |-> pHead, by |-> head_shift, at |-> meta_shift]
             /\ Called' = Called \cup {N} /\ N \notin Called
             /\ \A n : TableOf(n)' = TableOf(n)
<1> DEFINE e == [type |-> TypeData, keys |-> KeyFieldData,
                 from |-> pHead, by |-> head_shift, at |-> meta_shift]
<1>1. PICK S : calls \in Seq(S)
  BY DEF CallsInv
<1>2. calls' = Append(calls, e) /\ parse_rules' = parse_rules
  BY DEF NextC, ParserLayer
<1> HIDE DEF e
<1>3. /\ calls' \in Seq(S \cup {e}) /\ Len(calls) \in Nat /\ Len(calls') = Len(calls) + 1
      /\ \A n \in 1 .. Len(calls) : calls'[n] = calls[n]
      /\ calls'[Len(calls) + 1] = e
  BY <1>1, <1>2, LastCall
<1>4. CallsInv'
  <2> DEFINE table == parse_rules[Len(calls)]
             hits == Hits(table, TypeData)
  <2>1. Len(calls) \in 0 .. NUM_LAYER - 1
    BY <1>3, CAssumption DEF NextC
  <2>2. table \in [RuleIds -> CRule]
    BY <2>1, CAssumption DEF CallsInv
  <2>3. hits \subseteq RuleIds /\ \A i \in hits : table[i].metaShift \in Nat
    BY <2>2 DEF Hits, CRule
  <2>4. IsFiniteSet(hits)
    <3>1. IsFiniteSet(RuleIds)
      BY NumAssumption, FS_Interval DEF RuleIds
    <3> QED  BY <2>3, <3>1, FS_Subset
  <2>5. meta_shift' = NextMetaShift(hits, table)
    BY DEF NextC, ParserLayer
  <2> HIDE DEF hits, table
  <2>6. meta_shift' \in Nat
    BY <2>3, <2>4, <2>5, SumIsNumber DEF CallsInv
  <2> QED  BY <1>2, <1>3, <2>6 DEF CallsInv
<1>5. Called' = Called \cup {Len(calls) + 1} /\ Len(calls) + 1 \notin Called
  BY <1>3 DEF Called
<1>6. \A n : TableOf(n)' = TableOf(n)
  BY <1>2 DEF TableOf
<1> QED  BY <1>3, <1>4, <1>5, <1>6 DEF e, Called

LEMMA CallsCorrect == SpecC => []CallsInv
<1>1. InitC => CallsInv
  <2> SUFFICES ASSUME InitC PROVE CallsInv
    OBVIOUS
  <2>1. calls \in Seq({})
    BY DEF InitC
  <2>2. meta_shift \in Nat
    BY CAssumption DEF InitC
  <2> QED  BY <2>1, <2>2 DEF InitC, CallsInv
<1>2. CallsInv /\ [NextC]_varsC => CallsInv'
  <2>1. CallsInv /\ UNCHANGED varsC => CallsInv'
    BY DEF CallsInv, varsC
  <2>2. CallsInv /\ NextC => CallsInv'
    BY OneCall
  <2> QED  BY <2>1, <2>2
<1> QED  BY <1>1, <1>2, PTL DEF SpecC

-----------------------------------------------------------------------------
LEMMA Greatest ==
  ASSUME NEW S, NEW N \in S, \A n \in S : n \in Nat /\ n <= N
  PROVE  Max(S) = N
<1>1. \A x \in S : (\A y \in S : x >= y) => x = N
  OBVIOUS
<1>2. \A y \in S : N >= y
  OBVIOUS
<1> QED  BY <1>1, <1>2 DEF Max

(* Whatever the rules are and however the fields of several calls overlap, *)
(* each unit of the metadata holds the field of the last call that wrote   *)
(* it, and is zero if none did.                                            *)
THEOREM LastWriter == SpecC => []LastWriterWins
<1>1. InitC => LastWriterWins
  <2> SUFFICES ASSUME InitC PROVE LastWriterWins
    OBVIOUS
  <2>1. Called = {} /\ meta = [u \in 0 .. MetaLen - 1 |-> Zero]
    BY DEF InitC, Called
  <2> QED  BY <2>1 DEF LastWriterWins
<1>2. CallsInv /\ LastWriterWins /\ [NextC]_varsC => LastWriterWins'
  <2>1. CASE UNCHANGED varsC
    BY <2>1 DEF varsC, LastWriterWins, Called
  <2>2. ASSUME CallsInv, LastWriterWins, NextC PROVE LastWriterWins'
    <3> DEFINE N == Len(calls) + 1
               writers(u) == {n \in Called : u - calls[n].at \in KeyIds}
               after(u) == {n \in Called' : u - calls'[n].at \in KeyIds}
    <3>1. /\ N \in Nat /\ Called' = Called \cup {N}
          /\ \A n \in Called : calls'[n] = calls[n] /\ n \in Nat /\ n <= N
          /\ calls'[N].at = meta_shift /\ calls'[N].keys = KeyFieldData
      BY <2>2, OneCall DEF Called
    <3>2. meta' = [u \in 0 .. MetaLen - 1 |->
                     IF u - meta_shift \in KeyIds THEN KeyFieldData[u - meta_shift] ELSE meta[u]]
      BY <2>2 DEF NextC, ParserLayer, FieldPlace
    <3> HIDE DEF N
    <3>3. ASSUME NEW u \in 0 .. MetaLen - 1
          PROVE  meta'[u] = IF after(u) = {} THEN Zero
                            ELSE LET n == Max(after(u)) IN calls'[n].keys[u - calls'[n].at]
      <4>1. CASE u - meta_shift \in KeyIds
        <5>1. N \in after(u) /\ \A n \in after(u) : n \in Nat /\ n <= N
          BY <3>1, <4>1
        <5>2. Max(after(u)) = N /\ after(u) # {}
          BY <5>1, Greatest
        <5>3. meta'[u] = KeyFieldData[u - meta_shift]
          BY <3>2, <4>1
        <5> HIDE DEF after
        <5> QED  BY <3>1, <5>2, <5>3
      <4>2. CASE u - meta_shift \notin KeyIds
        <5>1. after(u) = writers(u)
          BY <3>1, <4>2
        <5>2. meta'[u] = meta[u]
          BY <3>2, <4>2
        <5>3. meta[u] = IF writers(u) = {} THEN Zero
                        ELSE LET n == Max(writers(u)) IN calls[n].keys[u - calls[n].at]
          BY <2>2 DEF LastWriterWins
        <5>4. writers(u) # {} => Max(writers(u)) \in Called
          <6>1. writers(u) \subseteq 1 .. Len(calls) /\ Len(calls) \in Nat
            BY <2>2, OneCall DEF Called
          <6> QED  BY <6>1, GreatestNumber DEF Called
        <5> HIDE DEF after, writers
        <5> QED  BY <3>1, <5>1, <5>2, <5>3, <5>4
      <4> QED  BY <4>1, <4>2
    <3> QED  BY <3>3 DEF LastWriterWins
  <2> QED  BY <2>1, <2>2
<1> QED  BY <1>1, <1>2, CallsCorrect, PTL DEF SpecC

-----------------------------------------------------------------------------
(* What the last call has left to the next one in the variables of its     *)
(* caller.                                                                 *)
LeftBehind ==
  Len(calls) # 0 =>
    LET n == Len(calls)
        hits == Hits(TableOf(n), calls[n].type)
    IN  /\ pHead = calls[n].from + calls[n].by
        /\ hits = {} => head_shift = calls[n].by /\ meta_shift = calls[n].at
        /\ \A i \in RuleIds : hits = {i} =>
             /\ head_shift = TableOf(n)[i].headShift
             /\ meta_shift = TableOf(n)[i].metaShift + calls[n].at

(* The loop adds nothing if no rule hits.                                  *)
LEMMA SumOfNone ==
  ASSUME NEW table, meta_shift \in Nat
  PROVE  NextMetaShift({}, table) = meta_shift
<1> DEFINE It(g) == g = [s \in SUBSET {} |->
                     IF s = {} THEN 0
                     ELSE LET y == CHOOSE y \in s : TRUE IN table[y].metaShift + g[s \ {y}]]
           iter == CHOOSE g : It(g)
           h == [s \in SUBSET {} |-> 0]
<1>1. NextMetaShift({}, table) = iter[{}] + meta_shift
  BY DEF NextMetaShift, MapThenSumSet, MapThenFoldSet
<1>2. It(h)
  <2>1. \A s \in SUBSET {} : s = {}
    OBVIOUS
  <2> QED  BY <2>1
<1>3. It(iter)
  <2> HIDE DEF It
  <2> QED  BY <1>2
<1>4. iter[{}] = 0
  <2> HIDE DEF iter
  <2> QED  BY <1>3, Zenon
<1> HIDE DEF iter
<1> QED  BY <1>1, <1>4

LEMMA CallLeaves ==
  ASSUME CallsInv, NextC
  PROVE  LeftBehind'
<1> DEFINE N == Len(calls) + 1
           hits == Hits(TableOf(N), TypeData)
<1>1. /\ Len(calls') = N /\ N \in Nat /\ N - 1 = Len(calls) /\ Len(calls) < NUM_LAYER
      /\ calls'[N].type = TypeData /\ calls'[N].from = pHead /\ calls'[N].by = head_shift
      /\ calls'[N].at = meta_shift /\ parse_rules' = parse_rules
  BY OneCall DEF NextC, ParserLayer
<1>2. TableOf(N) = parse_rules[Len(calls)]
  BY <1>1 DEF TableOf
<1>3. /\ pHead' = pHead + head_shift
      /\ head_shift' = NextHeadShift(hits, TableOf(N))
      /\ meta_shift' = NextMetaShift(hits, TableOf(N))
  BY <1>2 DEF NextC, ParserLayer, ShiftedHead
<1>4. ASSUME NEW i \in RuleIds, hits = {i}
      PROVE  /\ head_shift' = TableOf(N)[i].headShift
             /\ meta_shift' = TableOf(N)[i].metaShift + meta_shift
  <2>1. i \in Nat
    BY NumAssumption DEF RuleIds
  <2>2. Max(hits) = i
    <3>1. Max({i}) = i
      BY <2>1, Greatest
    <3> QED  BY <1>4, <3>1
  <2>3. TableOf(N)[i].metaShift \in Nat
    <3>1. Len(calls) \in 0 .. NUM_LAYER - 1
      BY <1>1, OneCall, CAssumption
    <3>2. parse_rules[Len(calls)] \in [RuleIds -> CRule]
      BY <3>1, CAssumption DEF CallsInv
    <3> QED  BY <1>2, <3>2 DEF CRule
  <2>4. NextMetaShift(hits, TableOf(N)) = TableOf(N)[i].metaShift + meta_shift
    BY <1>4, <2>3, SumOfOne
  <2> HIDE DEF hits
  <2> QED  BY <1>3, <1>4, <2>2, <2>4 DEF NextHeadShift
<1>5. pHead' = calls'[N].from + calls'[N].by
  BY <1>1, <1>3
<1>8. ASSUME hits = {} PROVE head_shift' = calls'[N].by /\ meta_shift' = calls'[N].at
  <2>1. NextMetaShift({}, TableOf(N)) = meta_shift
    BY SumOfNone DEF CallsInv
  <2> HIDE DEF N, hits
  <2> QED  BY <1>1, <1>3, <1>8, <2>1 DEF NextHeadShift
<1>6. Len(calls') = N /\ N # 0 /\ parse_rules'[Len(calls') - 1] = TableOf(N)
  BY <1>1, <1>2
<1>7. Hits(parse_rules'[Len(calls') - 1], calls'[Len(calls')].type) = hits
  BY <1>1, <1>6
<1> HIDE DEF N, hits
<1> QED  BY <1>1, <1>4, <1>5, <1>6, <1>7, <1>8 DEF LeftBehind, TableOf

(* Where one rule hits in a call, or none, whatever the other calls do and *)
(* however many there are, the next call parses and places by that rule,   *)
(* or by what this call was given.                                         *)
THEOREM HandedOn == SpecC => []ShiftsHandedOn
<1> DEFINE Inv == CallsInv /\ LeftBehind /\ ShiftsHandedOn
<1>1. InitC => LeftBehind /\ ShiftsHandedOn
  <2> SUFFICES ASSUME InitC PROVE LeftBehind /\ ShiftsHandedOn
    OBVIOUS
  <2>1. Len(calls) = 0 /\ Called = {}
    BY DEF InitC, Called
  <2> QED  BY <2>1 DEF LeftBehind, ShiftsHandedOn
<1>2. CallsInv /\ LeftBehind /\ ShiftsHandedOn /\ [NextC]_varsC
        => (LeftBehind /\ ShiftsHandedOn)'
  <2>1. ASSUME LeftBehind, ShiftsHandedOn, UNCHANGED varsC
        PROVE  (LeftBehind /\ ShiftsHandedOn)'
    BY <2>1 DEF varsC, LeftBehind, ShiftsHandedOn, Called, TableOf
  <2>2. ASSUME CallsInv, LeftBehind, ShiftsHandedOn, NextC
        PROVE  ShiftsHandedOn'
    <3> DEFINE N == Len(calls) + 1
    <3>1. /\ Len(calls) \in Nat /\ N \in Nat /\ N - 1 = Len(calls)
          /\ Called' = Called \cup {N} /\ Called = 1 .. Len(calls)
          /\ \A n \in Called : calls'[n] = calls[n]
          /\ calls'[N].from = pHead /\ calls'[N].by = head_shift /\ calls'[N].at = meta_shift
          /\ \A n : TableOf(n)' = TableOf(n)
      BY <2>2, OneCall DEF Called
    <3> DEFINE Hit(n) == Hits(TableOf(n), calls'[n].type)
               On(n) == /\ calls'[n + 1].from = calls'[n].from + calls'[n].by
                        /\ Hit(n) = {} => /\ calls'[n + 1].by = calls'[n].by
                                          /\ calls'[n + 1].at = calls'[n].at
                        /\ \A i \in RuleIds :
                             Hit(n) = {i} /\ HitRules(TableOf(n), calls'[n].type) = {i} =>
                               /\ calls'[n + 1].by = TableOf(n)[i].headShift
                               /\ calls'[n + 1].at = TableOf(n)[i].metaShift + calls'[n].at
    <3> SUFFICES ASSUME NEW n \in Called', n + 1 \in Called'
                 PROVE  On(n)
      BY <3>1 DEF ShiftsHandedOn
    <3>2. n \in 1 .. Len(calls) /\ calls'[n] = calls[n] /\ n \in Called
      BY <3>1
    <3>3. CASE n + 1 \in Called
      BY <2>2, <3>1, <3>2, <3>3 DEF ShiftsHandedOn
    <3>4. CASE n + 1 = N
      <4>1. n = Len(calls) /\ Len(calls) # 0
        <5>1. Len(calls) \in Nat /\ n + 1 = Len(calls) + 1
          BY <3>1, <3>4
        <5> QED  BY <3>2, <5>1
      <4> QED  BY <2>2, <3>1, <3>2, <3>4, <4>1 DEF LeftBehind
    <3>5. n + 1 \in Called \cup {N}
      BY <3>1
    <3> QED  BY <3>3, <3>4, <3>5
  <2> QED  BY <2>1, <2>2, CallLeaves
<1>3. Inv => ShiftsHandedOn
  OBVIOUS
<1> QED  BY <1>1, <1>2, CallsCorrect, PTL DEF SpecC

-----------------------------------------------------------------------------
LEMMA GreatestRule ==
  ASSUME NEW n \in Nat, NEW S, S \subseteq 0 .. n - 1, S # {}
  PROVE  Max(S) \in S
<1> DEFINE T == {n - x : x \in S}
<1>1. T \subseteq Nat /\ T # {}
  <2>1. ASSUME NEW x \in S PROVE n - x \in Nat
    <3>1. x \in Nat /\ x <= n
      OBVIOUS
    <3> QED  BY <3>1
  <2> QED  BY <2>1
<1>2. PICK d \in T : \A e \in T : d <= e
  <2> HIDE DEF T
  <2> QED  BY <1>1, LeastNumber
<1>3. PICK x \in S : d = n - x
  OBVIOUS
<1>4. ASSUME NEW y \in S PROVE x >= y
  <2>1. n - y \in T /\ x \in Nat /\ y \in Nat
    OBVIOUS
  <2>2. n - x <= n - y
    BY <1>2, <1>3, <2>1
  <2> QED  BY <2>1, <2>2
<1> QED  BY <1>4 DEF Max

(* How far the calls so far may have moved.                                *)
RoomInv(H, M) ==
  /\ head \in Heads /\ meta \in [0 .. MetaLen - 1 -> Unit]
  /\ pHead \in Nat /\ pHead <= Len(calls) * H
  /\ head_shift \in Nat /\ head_shift <= H
  /\ meta_shift \in Nat
  /\ \E c \in Callers : /\ caller = [typeOffset |-> c.typeOffset, keyOffset |-> c.keyOffset]
                        /\ meta_shift <= c.metaShift + Len(calls) * M

LEMMA Times ==
  ASSUME NEW n \in Nat, NEW H \in Nat
  PROVE  /\ n * H \in Nat /\ (n + 1) * H = n * H + H
         /\ \A m \in Nat : n <= m => n * H <= m * H
<1>1. n * H \in Nat /\ (n + 1) * H = n * H + H
  OBVIOUS
<1>2. ASSUME NEW m \in Nat, n <= m PROVE n * H <= m * H
  <2>1. m * H = n * H + (m - n) * H /\ (m - n) * H \in Nat /\ m * H \in Nat
    BY <1>2
  <2> QED  BY <1>1, <2>1
<1> QED  BY <1>1, <1>2

LEMMA Within ==
  ASSUME NEW x \in Nat, NEW a \in Nat, NEW y \in Nat, NEW n \in Nat, x <= a, a + y < n
  PROVE  x + y \in 0 .. n - 1
OBVIOUS

LEMMA RoomLeft ==
  ASSUME NEW H \in Nat, NEW M \in Nat, Roomy(H, M), CallsInv, RoomInv(H, M),
         Len(calls) < NUM_LAYER
  PROVE  /\ \A i \in TypeIds : pHead + caller.typeOffset[i] \in 0 .. HeadLen - 1
         /\ \A j \in KeyIds : /\ pHead + caller.keyOffset[j] \in 0 .. HeadLen - 1
                              /\ meta_shift + j \in 0 .. MetaLen - 1
<1>1. PICK c \in Callers : /\ caller = [typeOffset |-> c.typeOffset, keyOffset |-> c.keyOffset]
                           /\ meta_shift <= c.metaShift + Len(calls) * M
  BY DEF RoomInv
<1>2. /\ c.typeOffset \in [TypeIds -> Nat] /\ c.keyOffset \in [KeyIds -> Nat]
      /\ c.headShift \in Nat /\ c.metaShift \in Nat
  BY CAssumption
<1>3. /\ caller.typeOffset = c.typeOffset /\ caller.keyOffset = c.keyOffset
  BY <1>1
<1>4. /\ \A i \in TypeIds : (NUM_LAYER - 1) * H + c.typeOffset[i] < HeadLen
      /\ \A j \in KeyIds : /\ (NUM_LAYER - 1) * H + c.keyOffset[j] < HeadLen
                           /\ c.metaShift + (NUM_LAYER - 1) * M + j < MetaLen
  BY DEF Roomy
<1> DEFINE n == Len(calls)
           a == (NUM_LAYER - 1) * H
           b == (NUM_LAYER - 1) * M
<1>5. n \in Nat /\ NUM_LAYER - 1 \in Nat /\ n <= NUM_LAYER - 1
  BY CAssumption DEF CallsInv
<1> HIDE DEF n
<1>6. n * H <= a /\ n * M <= b /\ n * H \in Nat /\ n * M \in Nat /\ a \in Nat /\ b \in Nat
  BY <1>5, Times
<1>7. pHead \in Nat /\ meta_shift \in Nat /\ pHead <= n * H /\ meta_shift <= c.metaShift + n * M
  BY <1>1 DEF RoomInv, n
<1> HIDE DEF a, b
<1>8. pHead <= a /\ meta_shift <= c.metaShift + b
  BY <1>2, <1>6, <1>7
<1>9. HeadLen \in Nat /\ MetaLen \in Nat /\ \A j \in KeyIds : j \in Nat
  BY CAssumption, NumAssumption DEF KeyIds
<1>10. ASSUME NEW i \in TypeIds PROVE pHead + c.typeOffset[i] \in 0 .. HeadLen - 1
  <2>1. a + c.typeOffset[i] < HeadLen /\ c.typeOffset[i] \in Nat
    BY <1>2, <1>4 DEF a
  <2> QED  BY <1>6, <1>7, <1>8, <1>9, <2>1, Within
<1>11. ASSUME NEW j \in KeyIds
       PROVE  pHead + c.keyOffset[j] \in 0 .. HeadLen - 1 /\ meta_shift + j \in 0 .. MetaLen - 1
  <2>1. a + c.keyOffset[j] < HeadLen /\ c.keyOffset[j] \in Nat /\ c.metaShift + b + j < MetaLen
    BY <1>2, <1>4 DEF a, b
  <2>2. pHead + c.keyOffset[j] \in 0 .. HeadLen - 1
    BY <1>6, <1>7, <1>8, <1>9, <2>1, Within
  <2>3. meta_shift + j \in 0 .. MetaLen - 1
    <3>1. j \in Nat /\ c.metaShift + b \in Nat
      BY <1>2, <1>6, <1>9
    <3> QED  BY <1>7, <1>8, <1>9, <2>1, <3>1, Within
  <2> QED  BY <2>2, <2>3
<1> QED  BY <1>3, <1>10, <1>11

LEMMA RoomStep ==
  ASSUME NEW H \in Nat, NEW M \in Nat, Roomy(H, M), CallsInv, RoomInv(H, M), NextC
  PROVE  RoomInv(H, M)'
<1> DEFINE n == Len(calls)
           table == parse_rules[n]
           hits == Hits(table, TypeData)
<1>1. /\ n \in Nat /\ Len(calls') = n + 1 /\ n < NUM_LAYER
      /\ head' = head /\ caller' = caller /\ pHead' = pHead + head_shift
      /\ head_shift' = NextHeadShift(hits, table) /\ meta_shift' = NextMetaShift(hits, table)
      /\ meta' = [u \in 0 .. MetaLen - 1 |->
                    IF u - meta_shift \in KeyIds THEN KeyFieldData[u - meta_shift] ELSE meta[u]]
  BY OneCall DEF NextC, ParserLayer, ShiftedHead, FieldPlace
<1>2. n \in 0 .. NUM_LAYER - 1 /\ parse_rules \in Programs
  BY <1>1, CAssumption DEF CallsInv
<1>3. table \in [RuleIds -> CRule]
  BY <1>2, CAssumption
<1>4. hits \in SUBSET RuleIds
  BY DEF Hits
<1>5. (\A i \in RuleIds : table[i].headShift <= H) /\ MetaSum(table, hits) \in 0 .. M
  BY <1>2, <1>4 DEF Roomy
<1>6. NextMetaShift(hits, table) = MetaSum(table, hits) + meta_shift
  BY DEF NextMetaShift, MetaSum, MapThenSumSet, MapThenFoldSet
<1> HIDE DEF n, table, hits
<1>7. head_shift' \in Nat /\ head_shift' <= H
  <2>1. CASE hits = {}
    BY <1>1, <2>1 DEF NextHeadShift, RoomInv
  <2>2. CASE hits # {}
    <3>1. Max(hits) \in RuleIds
      <4>1. RULE_NUM \in Nat /\ hits \subseteq 0 .. RULE_NUM - 1 /\ RuleIds = 0 .. RULE_NUM - 1
        BY <1>4, NumAssumption DEF RuleIds
      <4>2. Max(hits) \in hits
        BY <2>2, <4>1, GreatestRule
      <4> QED  BY <1>4, <4>2
    <3>2. table[Max(hits)].headShift \in Nat /\ table[Max(hits)].headShift <= H
      <4>1. table[Max(hits)] \in CRule
        BY <1>3, <3>1
      <4> QED  BY <1>5, <3>1, <4>1 DEF CRule
    <3> QED  BY <1>1, <2>2, <3>2 DEF NextHeadShift
  <2> QED  BY <2>1, <2>2
<1>8. pHead' \in Nat /\ pHead' <= Len(calls') * H
  <2>1. (n + 1) * H = n * H + H /\ n * H \in Nat
    BY <1>1, Times
  <2>2. pHead \in Nat /\ pHead <= n * H /\ head_shift \in Nat /\ head_shift <= H
    BY DEF RoomInv, n
  <2> QED  BY <1>1, <2>1, <2>2
<1>9. PICK c \in Callers : /\ caller = [typeOffset |-> c.typeOffset, keyOffset |-> c.keyOffset]
                           /\ meta_shift <= c.metaShift + n * M
  BY DEF RoomInv, n
<1>10. meta_shift' \in Nat /\ meta_shift' <= c.metaShift + Len(calls') * M
  <2>1. (n + 1) * M = n * M + M /\ n * M \in Nat
    BY <1>1, Times
  <2>2. meta_shift \in Nat /\ c.metaShift \in Nat
    BY CAssumption DEF RoomInv
  <2> DEFINE s == MetaSum(table, hits)
  <2>3. s \in Nat /\ s <= M /\ meta_shift' = s + meta_shift
    BY <1>1, <1>5, <1>6
  <2> HIDE DEF s
  <2> QED  BY <1>1, <1>9, <2>1, <2>2, <2>3
<1>11. meta' \in [0 .. MetaLen - 1 -> Unit]
  <2>1. ASSUME NEW j \in KeyIds PROVE KeyFieldData[j] \in Unit
    <3>1. pHead + caller.keyOffset[j] \in 0 .. HeadLen - 1
      BY <1>1, RoomLeft DEF n
    <3>2. head \in [0 .. HeadLen - 1 -> Unit]
      BY CAssumption DEF RoomInv
    <3> QED  BY <3>1, <3>2 DEF KeyFieldData
  <2>2. meta \in [0 .. MetaLen - 1 -> Unit]
    BY DEF RoomInv
  <2> QED  BY <1>1, <2>1, <2>2
<1> QED  BY <1>1, <1>7, <1>8, <1>9, <1>10, <1>11 DEF RoomInv

(* The calls of parser_layer stay inside head and meta, however many rules *)
(* hit in each, in a program whose rules leave room (the run's do, with    *)
(* H = 3 and M = 5).                                                       *)
THEOREM Inside ==
  ASSUME NEW H \in Nat, NEW M \in Nat, Roomy(H, M)
  PROVE  SpecC => []TypeOK
<1>1. InitC => RoomInv(H, M)
  <2> SUFFICES ASSUME InitC PROVE RoomInv(H, M)
    OBVIOUS
  <2>1. PICK c \in Callers : /\ caller = [typeOffset |-> c.typeOffset, keyOffset |-> c.keyOffset]
                             /\ head_shift = c.headShift /\ meta_shift = c.metaShift
    BY DEF InitC
  <2>2. c.headShift \in Nat /\ c.metaShift \in Nat /\ c.headShift <= H
    BY CAssumption DEF Roomy
  <2>3. Len(calls) * H = 0 /\ Len(calls) * M = 0
    BY DEF InitC
  <2>4. meta \in [0 .. MetaLen - 1 -> Unit]
    BY DEF InitC, Unit, Word, Zero
  <2>5. pHead = 0 /\ head \in Heads
    BY DEF InitC
  <2> QED  BY <2>1, <2>2, <2>3, <2>4, <2>5 DEF RoomInv
<1>2. CallsInv /\ RoomInv(H, M) /\ [NextC]_varsC => RoomInv(H, M)'
  <2>1. RoomInv(H, M) /\ UNCHANGED varsC => RoomInv(H, M)'
    BY DEF RoomInv, varsC
  <2> QED  BY <2>1, RoomStep
<1>3. CallsInv /\ RoomInv(H, M) => TypeOK
  BY RoomLeft DEF TypeOK, RoomInv
<1> QED  BY <1>1, <1>2, <1>3, CallsCorrect, PTL DEF SpecC
==============================================================================
