-------------------------- MODULE StreamParserProofs --------------------------
(* Theorems about StreamParser_Top, for every width, number of layers and  *)
(* rules, and packets that fit the FIFO of Gen_PHV_and_Conf_Parser.        *)
EXTENDS StreamParser, SequenceTheorems, TLAPS

PhvP == INSTANCE GenPHVProofs
TopP == INSTANCE ParserTopProofs WITH
          DataInputs <- {}, ConfInputs <- {}, MaxSlices <- 1, MaxWords <- 0,
          flight <- <<>>, words <- 0

-----------------------------------------------------------------------------
(* The parts, as their own proofs name them.                               *)
LEMMA GenHolds == PhvP!GenAssumption
BY PartsAssumption DEF Phv!GenAssumption, PhvP!GenAssumption

LEMMA TopHolds == TopP!TopAssumption
<1>1. Top!TopAssumption
  BY PartsAssumption
<1>2. TopP!TopAssumption
  BY <1>1 DEF Top!TopAssumption, TopP!TopAssumption, Top!LookupRst, TopP!LookupRst,
    Top!TypeRule, TopP!TypeRule, Top!RuleIds, TopP!RuleIds, Top!TypeIds, TopP!TypeIds,
    Top!KeyIds, TopP!KeyIds, Top!UnitIds, TopP!UnitIds, Top!TypeOffsets, TopP!TypeOffsets,
    Top!TypeCandiNum, TopP!TypeCandiNum, Top!Type, TopP!Type, Top!Word, TopP!Word,
    Top!Data, TopP!Data, Top!Unit, TopP!Unit, Top!ConfWord, TopP!ConfWord, Top!ExtrIds, TopP!ExtrIds
<1> QED  BY <1>2

LEMMA LayerNumber == NUM_LAYER \in Nat \ {0}
BY PartsAssumption DEF Top!TopAssumption

LEMMA SameConstants ==
  /\ Phv!NoSlice = PhvP!NoSlice /\ Phv!NoWord = PhvP!NoWord /\ Phv!Slots = PhvP!Slots
  /\ Phv!AllOnes = PhvP!AllOnes
  /\ \A t : Phv!WordOf(t) = PhvP!WordOf(t)
  /\ \A p : Phv!NumSlices(p) = PhvP!NumSlices(p)
BY DEF Phv!NoSlice, PhvP!NoSlice, Phv!NoWord, PhvP!NoWord, Phv!Slots, PhvP!Slots,
       Phv!AllOnes, PhvP!AllOnes, Phv!WordOf, PhvP!WordOf, Phv!NumSlices, PhvP!NumSlices

LEMMA SameSliceClock == Phv!SliceClock => PhvP!SliceClock
BY SameConstants DEF Phv!SliceClock, PhvP!SliceClock, Phv!FifoClock, PhvP!FifoClock,
  Phv!QueueAfter, PhvP!QueueAfter, Phv!Front, PhvP!Front, Phv!NextCntHead, PhvP!NextCntHead,
  Phv!IncCnt, PhvP!IncCnt, Phv!DecCnt, PhvP!DecCnt, Phv!NextRden, PhvP!NextRden

LEMMA SameSent == \A more : Phv!Sent(more) => PhvP!Sent(more)
BY DEF Phv!Sent, PhvP!Sent

LEMMA SamePause == Phv!Pause => PhvP!Pause
BY SameConstants, SameSliceClock, SameSent DEF Phv!Pause, PhvP!Pause

LEMMA SameHeadWord ==
  ASSUME NEW t \in Tokens, NEW isConf \in BOOLEAN, Phv!HeadWord(t, isConf)
  PROVE  PhvP!HeadWord(t, isConf)
BY SameConstants, SameSliceClock, SameSent DEF Phv!HeadWord, PhvP!HeadWord

LEMMA SameBodyWord ==
  ASSUME NEW t \in Tokens, NEW tail \in BOOLEAN, Phv!BodyWord(t, tail)
  PROVE  PhvP!BodyWord(t, tail)
BY SameConstants, SameSliceClock, SameSent
   DEF Phv!BodyWord, PhvP!BodyWord, Phv!NextSlot, PhvP!NextSlot, Phv!SliceReady, PhvP!SliceReady

LEMMA SameReset == Phv!Reset => PhvP!Reset
BY SameConstants DEF Phv!Reset, PhvP!Reset

(* StreamParser_Top drives Gen_PHV_and_Conf_Parser as its own              *)
(* specification says, so what is proved of that holds here.               *)
THEOREM Implements == Spec => PhvP!Spec
<1>1. Init => PhvP!Init
  BY SameConstants DEF Init, Phv!Init, PhvP!Init
<1>2. [Next]_vars => [PhvP!Next]_(PhvP!vars)
  <2> SUFFICES ASSUME [Next]_vars PROVE PhvP!Next \/ UNCHANGED PhvP!vars
    OBVIOUS
  <2>1. CASE Pause
    BY <2>1, SamePause DEF Pause, PhvP!Next, PhvP!Clock
  <2>2. ASSUME NEW t \in Tokens, NEW isConf \in BOOLEAN, HeadWord(t, isConf)
        PROVE  PhvP!Next
    BY <2>2, SameHeadWord DEF HeadWord, PhvP!Next, PhvP!Clock
  <2>3. ASSUME NEW t \in Tokens, NEW tail \in BOOLEAN, BodyWord(t, tail)
        PROVE  PhvP!Next
    BY <2>3, SameBodyWord DEF BodyWord, PhvP!Next, PhvP!Clock
  <2>4. CASE ResetClock
    BY <2>4, SameReset DEF ResetClock, PhvP!Next
  <2>5. CASE ResetEnds \/ UNCHANGED vars
    BY <2>5 DEF ResetEnds, vars, phvVars, PhvP!vars, PhvP!wordVars, PhvP!sliceVars, PhvP!history
  <2> QED  BY <2>1, <2>2, <2>3, <2>4, <2>5 DEF Next
<1> QED  BY <1>1, <1>2, PTL DEF Spec, PhvP!Spec

-----------------------------------------------------------------------------
(* The operators of Parser_Top, as its own proofs name them.               *)
Tables == [RuleIds -> TypeRule]

LEMMA SameSets ==
  /\ TopP!UnitIds = UnitIds /\ TopP!TypeIds = TypeIds /\ TopP!KeyIds = KeyIds
  /\ TopP!RuleIds = RuleIds /\ TopP!Layers = Layers
  /\ TopP!Zero = Zero /\ TopP!Unit = Unit /\ TopP!Data = Data /\ TopP!Slice = Slice
  /\ TopP!LookupRst = LookupRst /\ TopP!TypeRule = TypeRule /\ TopP!Tables = Tables
  /\ TopP!ConfWord = ConfWord /\ TopP!NoWord = Top!NoWord
  /\ TopP!ZeroData = ZeroData /\ TopP!ZeroSlice = ZeroSlice /\ TopP!EmptyMeta = Top!EmptyMeta
<1>1. /\ TopP!UnitIds = UnitIds /\ TopP!TypeIds = TypeIds /\ TopP!KeyIds = KeyIds
      /\ TopP!RuleIds = RuleIds /\ TopP!Layers = Layers /\ TopP!TypeOffsets = TypeOffsets
      /\ TopP!Zero = Zero /\ TopP!Unit = Unit /\ TopP!Type = Type /\ TopP!ExtrIds = ExtrIds
      /\ TopP!NoWord = Top!NoWord
  BY DEF TopP!UnitIds, UnitIds, TopP!TypeIds, TypeIds, TopP!KeyIds, KeyIds, TopP!RuleIds, RuleIds,
     TopP!Layers, Layers, TopP!TypeOffsets, TypeOffsets, TopP!TypeCandiNum, TypeCandiNum,
     TopP!Zero, Zero, TopP!Unit, Unit, TopP!Type, Type, TopP!Word, Word, TopP!ExtrIds, ExtrIds,
     TopP!NoWord, Top!NoWord
<1>2. TopP!Data = Data /\ TopP!ZeroData = ZeroData
  BY <1>1 DEF TopP!Data, Data, TopP!ZeroData, ZeroData
<1>3. TopP!Slice = Slice /\ TopP!ZeroSlice = ZeroSlice
  BY <1>1, <1>2 DEF TopP!Slice, Slice, TopP!ZeroSlice, ZeroSlice
<1>4. TopP!EmptyMeta = Top!EmptyMeta
  BY DEF TopP!EmptyMeta, Top!EmptyMeta, TopP!ZeroSlice, Top!ZeroSlice, TopP!ZeroData, Top!ZeroData,
     TopP!Zero, Top!Zero, TopP!UnitIds, Top!UnitIds
<1>5. TopP!LookupRst = LookupRst /\ TopP!TypeRule = TypeRule
  BY <1>1 DEF TopP!LookupRst, LookupRst, TopP!TypeRule, TypeRule
<1>6. TopP!Tables = Tables
  BY <1>1, <1>5 DEF TopP!Tables, Tables
<1>7. TopP!ConfWord = ConfWord
  BY <1>1 DEF TopP!ConfWord, ConfWord
<1> QED  BY <1>1, <1>2, <1>3, <1>4, <1>5, <1>6, <1>7

LEMMA SameRules ==
  /\ \A s, w : TopP!Staged(s, w) = Staged(s, w)
  /\ \A w : TopP!Committing(w) = Committing(w)
  /\ \A t, e, s : TopP!Written(t, e, s) = Written(t, e, s)
  /\ \A t : TopP!Invalidated(t) = Invalidated(t)
  /\ \A t, f : TopP!LookupType(t, f) = LookupType(t, f)
  /\ \A d, r : TopP!ExtractTypes(d, r) = ExtractTypes(d, r)
  /\ \A k, w : TopP!WordFor(k, w) = Top!WordFor(k, w)
  /\ \A r, w : TopP!Info0Conf(r, w) = Top!Info0Conf(r, w)
<1>1. /\ \A s, w : TopP!Staged(s, w) = Staged(s, w)
      /\ \A w : TopP!Committing(w) = Committing(w)
      /\ \A t, e, s : TopP!Written(t, e, s) = Written(t, e, s)
      /\ \A t : TopP!Invalidated(t) = Invalidated(t)
  BY DEF TopP!Staged, Staged, TopP!Committing, Committing, TopP!Written, Written,
     TopP!Invalidated, Invalidated, TopP!TypeIds, TypeIds, TopP!KeyIds, KeyIds, TopP!RuleIds, RuleIds,
     TopP!TypeOffsetIdMod, TypeOffsetIdMod, TopP!TypeCandiNum, TypeCandiNum
<1>2. \A t, f : TopP!LookupType(t, f) = LookupType(t, f)
  BY DEF TopP!LookupType, LookupType, TopP!HitRules, HitRules, TopP!FirstHit, FirstHit,
     TopP!RstOf, RstOf, TopP!ZeroRst, ZeroRst, TopP!RuleIds, RuleIds, TopP!TypeIds, TypeIds,
     TopP!KeyIds, KeyIds
<1>3. \A d, r : TopP!ExtractTypes(d, r) = ExtractTypes(d, r)
  BY DEF TopP!ExtractTypes, ExtractTypes, TopP!TypeField, TypeField, TopP!TypeIds, TypeIds
<1>4. \A k, w : TopP!WordFor(k, w) = Top!WordFor(k, w)
  BY DEF TopP!WordFor, Top!WordFor, TopP!LayerIdMod, Top!LayerIdMod, TopP!NoWord, Top!NoWord
<1>5. \A r, w : TopP!Info0Conf(r, w) = Top!Info0Conf(r, w)
  BY DEF TopP!Info0Conf, Top!Info0Conf, TopP!TypeIds, Top!TypeIds, TopP!KeyIds, Top!KeyIds,
     TopP!TypeCandiNum, Top!TypeCandiNum
<1> QED  BY <1>1, <1>2, <1>3, <1>4, <1>5

LEMMA SameRow ==
  /\ \A q, n : TopP!Flat(q, n) = Flat(q, n)
  /\ \A q, n : TopP!Window(q, n) = Window(q, n)
  /\ \A q, n : TopP!HeadPos(q, n) = HeadPos(q, n) /\ TopP!MetaPos(q, n) = MetaPos(q, n)
<1>1. \A q, n : TopP!Flat(q, n) = Flat(q, n)
  BY DEF TopP!Flat, Flat, TopP!Zero, Zero
<1>2. \A q, n : TopP!Window(q, n) = Window(q, n)
  BY <1>1, SameSets DEF TopP!Window, Window
<1>3. \A q, n : TopP!SumTo(q, n) = SumTo(q, n)
  BY DEF TopP!SumTo, SumTo
<1>4. \A q, n : TopP!HeadPos(q, n) = HeadPos(q, n) /\ TopP!MetaPos(q, n) = MetaPos(q, n)
  BY <1>3 DEF TopP!HeadPos, HeadPos, TopP!MetaPos, MetaPos
<1> QED  BY <1>1, <1>2, <1>4

LEMMA SameLayer ==
  /\ \A l, in, w : Top!LayerClock(l, in, w) = TopP!LayerClock(l, in, w)
  /\ \A l : Top!LayerReset(l) = TopP!LayerReset(l)
  /\ \A l : Top!LayerOut(l) = TopP!LayerOut(l)
  /\ \A t, r : Top!ZeroLayer(t, r) = TopP!ZeroLayer(t, r)
<1>1. \A s, a, b, c, d, e : TopP!ShiftHeadClock(s, a, b, c, d, e) = Top!ShiftHeadClock(s, a, b, c, d, e)
  BY DEF TopP!ShiftHeadClock, Top!ShiftHeadClock, TopP!NextHead, Top!NextHead,
     TopP!NextMeta, Top!NextMeta, TopP!NextMetaShift, Top!NextMetaShift,
     TopP!MetaShiftSum, Top!MetaShiftSum, TopP!StartBitMetaTag, Top!StartBitMetaTag,
     TopP!AllOnes, Top!AllOnes, TopP!PlaceFields, Top!PlaceFields, TopP!ShiftedData, Top!ShiftedData,
     TopP!MergeData, Top!MergeData, TopP!UnitIds, Top!UnitIds, TopP!KeyIds, Top!KeyIds, TopP!Zero, Top!Zero
<1>2. \A t, f : TopP!LookupType(t, f) = Top!LookupType(t, f)
  BY DEF TopP!LookupType, Top!LookupType, TopP!HitRules, Top!HitRules, TopP!FirstHit, Top!FirstHit,
     TopP!RstOf, Top!RstOf, TopP!ZeroRst, Top!ZeroRst, TopP!RuleIds, Top!RuleIds,
     TopP!TypeIds, Top!TypeIds, TopP!KeyIds, Top!KeyIds
<1>3. \A s, w : TopP!Staged(s, w) = Top!Staged(s, w)
  BY DEF TopP!Staged, Top!Staged, TopP!TypeIds, Top!TypeIds, TopP!KeyIds, Top!KeyIds,
     TopP!TypeOffsetIdMod, Top!TypeOffsetIdMod, TopP!TypeCandiNum, Top!TypeCandiNum
<1>4. \A l, in, w : TopP!LayerClock(l, in, w) = Top!LayerClock(l, in, w)
  <2>1. \A d, r : TopP!ExtractTypes(d, r) = Top!ExtractTypes(d, r)
    BY DEF TopP!ExtractTypes, Top!ExtractTypes, TopP!TypeField, Top!TypeField,
       TopP!TypeIds, Top!TypeIds
  <2>2. \A d, r : TopP!ExtractKeys(d, r) = Top!ExtractKeys(d, r)
    BY DEF TopP!ExtractKeys, Top!ExtractKeys, TopP!KeyIds, Top!KeyIds, TopP!Zero, Top!Zero
  <2>3. \A w : TopP!Committing(w) = Top!Committing(w)
    BY DEF TopP!Committing, Top!Committing, TopP!RuleIds, Top!RuleIds
  <2>4. \A t, e, s : TopP!Written(t, e, s) = Top!Written(t, e, s)
    BY DEF TopP!Written, Top!Written, TopP!RuleIds, Top!RuleIds
  <2> QED  BY <1>1, <1>2, <1>3, <2>1, <2>2, <2>3, <2>4 DEF TopP!LayerClock, Top!LayerClock
<1>5. \A l : TopP!LayerReset(l) = Top!LayerReset(l)
  BY DEF TopP!LayerReset, Top!LayerReset, TopP!Invalidated, Top!Invalidated, TopP!RuleIds, Top!RuleIds
<1>6. \A l : Top!LayerOut(l) = TopP!LayerOut(l)
  BY DEF Top!LayerOut, TopP!LayerOut
<1>7. \A t, r : Top!ZeroLayer(t, r) = TopP!ZeroLayer(t, r)
  BY DEF TopP!ZeroLayer, Top!ZeroLayer, TopP!ZeroSlice, Top!ZeroSlice, TopP!ZeroData, Top!ZeroData,
     TopP!Zero, Top!Zero, TopP!UnitIds, Top!UnitIds, TopP!KeyIds, Top!KeyIds, TopP!TypeIds, Top!TypeIds,
     TopP!ZeroRst, Top!ZeroRst
<1> QED  BY <1>4, <1>5, <1>6, <1>7

LEMMA SameClock ==
  ASSUME NEW h, NEW m, NEW w, Top!Clock(h, m, w)
  PROVE  TopP!Clock(h, m, w)
BY SameLayer, SameRules, SameSets DEF Top!Clock, TopP!Clock, Top!Layers, TopP!Layers

-----------------------------------------------------------------------------
(* Units, words and slices of a packet.                                    *)
LEMMA DivLemma ==
  ASSUME NEW m \in Nat \ {0}
  PROVE  /\ \A q \in Nat, r \in 0 .. m - 1 : (m * q + r) \div m = q /\ (m * q + r) % m = r
         /\ \A x \in Nat : \E q \in Nat, r \in 0 .. m - 1 : x = m * q + r
<1>1. ASSUME NEW q \in Int, NEW d \in Int, NEW r \in 0 .. m - 1, NEW e \in 0 .. m - 1,
             m * q + r = m * d + e
      PROVE  q = d /\ r = e
  <2> DEFINE c == d - q
  <2>1. m * c = r - e
    <3>1. m * c = m * d - m * q
      OBVIOUS
    <3> QED  BY <1>1, <3>1
  <2>2. c \in Int /\ m * c < m /\ m * c > -m /\ d = q + c
    BY <2>1
  <2> HIDE DEF c
  <2>3. (c >= 1 => m * c >= m) /\ (c <= -1 => m * c <= -m)
    BY <2>2
  <2>4. c = 0
    BY <2>2, <2>3
  <2> QED  BY <2>1, <2>2, <2>4
<1>2. ASSUME NEW x \in Nat
      PROVE  x = m * (x \div m) + (x % m) /\ x \div m \in Nat /\ x % m \in 0 .. m - 1
  <2> DEFINE k == x \div m
             u == x % m
  <2>1. x = m * k + u /\ k \in Int /\ u \in 0 .. m - 1
    OBVIOUS
  <2> HIDE DEF k, u
  <2>2. k <= -1 => m * k <= -m
    BY <2>1
  <2>3. k \in Nat
    BY <2>1, <2>2
  <2> QED  BY <2>1, <2>3 DEF k, u
<1>3. ASSUME NEW q \in Nat, NEW r \in 0 .. m - 1
      PROVE  (m * q + r) \div m = q /\ (m * q + r) % m = r
  <2> DEFINE x == m * q + r
             d == x \div m
             e == x % m
  <2>1. x \in Nat
    <3>1. m * q \in Nat
      OBVIOUS
    <3> QED  BY <3>1
  <2> HIDE DEF x
  <2>2. x = m * d + e /\ d \in Int /\ e \in 0 .. m - 1
    BY <1>2, <2>1
  <2> HIDE DEF d, e
  <2>3. m * q + r = m * d + e /\ q \in Int
    BY <2>2 DEF x
  <2>4. q = d /\ r = e
    BY <1>1, <2>2, <2>3
  <2> QED  BY <2>4 DEF x, d, e
<1> QED  BY <1>2, <1>3

U == UnitsPerWord

LEMMA UnitsLemma ==
  /\ U \in Nat \ {0} /\ PKT_NUM \in Nat /\ PKT_NUM >= 2 /\ CANDI_NUM \in Nat \ {0}
  /\ CANDI_NUM = U * PKT_NUM
  /\ PhvP!Slots = 0 .. PKT_NUM - 1
  /\ \A s \in PhvP!Slots, n \in 0 .. U - 1 : U * s + n \in UnitIds
  /\ \A u \in UnitIds : /\ u \div U \in PhvP!Slots /\ u % U \in 0 .. U - 1
                        /\ u = U * (u \div U) + (u % U)
<1>1. PKT_NUM \in Nat /\ PKT_NUM >= 2 /\ CANDI_NUM \in Nat \ {0} /\ CANDI_NUM % PKT_NUM = 0
  BY GenHolds, StreamAssumption, WidthAssumption DEF PhvP!GenAssumption
<1>2. CANDI_NUM = PKT_NUM * U + 0 /\ U \in Int
  BY <1>1 DEF U, UnitsPerWord
<1>3. U \in Nat \ {0}
  <2>1. U <= 0 => PKT_NUM * U <= 0
    BY <1>1, <1>2
  <2> QED  BY <1>1, <1>2, <2>1
<1>4. CANDI_NUM = U * PKT_NUM
  BY <1>1, <1>2, <1>3
<1>5. PhvP!Slots = 0 .. PKT_NUM - 1
  BY DEF PhvP!Slots
<1>6. ASSUME NEW s \in PhvP!Slots, NEW n \in 0 .. U - 1 PROVE U * s + n \in UnitIds
  <2>1. s \in Nat /\ s + 1 <= PKT_NUM /\ PKT_NUM - (s + 1) \in Nat
    BY <1>1, <1>5
  <2>2. U * s \in Nat /\ U * PKT_NUM = U * s + U + U * (PKT_NUM - (s + 1))
        /\ U * (PKT_NUM - (s + 1)) \in Nat
    BY <1>1, <1>3, <2>1
  <2> QED  BY <1>1, <1>3, <1>4, <2>2 DEF UnitIds
<1>7. ASSUME NEW u \in UnitIds
      PROVE  /\ u \div U \in PhvP!Slots /\ u % U \in 0 .. U - 1
             /\ u = U * (u \div U) + (u % U)
  <2>1. u \in Nat /\ u < CANDI_NUM
    BY <1>1 DEF UnitIds
  <2>2. PICK q \in Nat, r \in 0 .. U - 1 : u = U * q + r
    BY <1>3, <2>1, DivLemma
  <2>3. u \div U = q /\ u % U = r
    BY <1>3, <2>2, DivLemma
  <2>4. q < PKT_NUM
    <3> SUFFICES ASSUME q >= PKT_NUM PROVE FALSE
      BY <1>1
    <3>1. U * q = U * PKT_NUM + U * (q - PKT_NUM) /\ U * (q - PKT_NUM) \in Nat
      BY <1>1, <1>3, <2>2
    <3> QED  BY <1>1, <1>3, <1>4, <2>1, <2>2, <3>1
  <2> QED  BY <1>1, <1>5, <2>2, <2>3, <2>4
<1> QED  BY <1>1, <1>3, <1>4, <1>5, <1>6, <1>7

-----------------------------------------------------------------------------
(* The widths of what passes between the two parts, and of the history.    *)
Conf == [info0 : LookupRst, tables : [Layers -> Tables]]
Parcel == [words : Seq(Tokens), conf : Conf, quiet : BOOLEAN]

TypesInv ==
  /\ TopP!TypeOK
  /\ told \in [info0 : LookupRst, tables : [Layers -> Tables], stages : [Layers -> TypeRule]]
  /\ now \in [conf : Conf, quiet : BOOLEAN]
  /\ line \in Seq(Parcel)
  /\ out \in Nat /\ resetting \in BOOLEAN
  /\ oRule.valid => oRule.tok \in Tokens

LEMMA SliceType ==
  ASSUME NEW phv \in PhvP!PhvSlice
  PROVE  SliceOf(phv) \in Slice
<1>1. phv.data \in [PhvP!Slots -> Tokens \cup {Blank}] /\ phv.valid \in BOOLEAN
      /\ phv.start \in BOOLEAN /\ phv.tail \in BOOLEAN
  BY DEF PhvP!PhvSlice, PhvP!Cell
<1>2. ASSUME NEW u \in UnitIds PROVE UnitOf(phv.data[u \div U], u % U) \in Unit
  <2>1. phv.data[u \div U] \in Tokens \cup {Blank} /\ u % U \in 0 .. U - 1
    BY <1>1, UnitsLemma
  <2>2. \A t \in Tokens : t.data \in [0 .. U - 1 -> Unit]
    BY StreamAssumption DEF U, UnitsPerWord
  <2>3. Zero \in Unit
    BY DEF Zero, Unit, Word
  <2> QED  BY <2>1, <2>2, <2>3 DEF UnitOf
<1>3. (IF phv.valid THEN CANDI_NUM - 1 ELSE 0) \in UnitIds
  BY WidthAssumption DEF UnitIds
<1> QED  BY <1>1, <1>2, <1>3 DEF SliceOf, Slice, Data, U

LEMMA WiresType ==
  ASSUME PhvP!TypeOK, TypesInv
  PROVE  /\ SliceOf(oPhv) \in Slice
         /\ MetaOf(oMeta) \in Slice
         /\ WordOf(oRule) \in ConfWord \cup {Top!NoWord}
         /\ (oPhv \in PhvP!PhvSlice)
<1>1. SliceOf(oPhv) \in Slice /\ oPhv \in PhvP!PhvSlice
  BY SliceType DEF PhvP!TypeOK
<1>2. MetaOf(oMeta) \in Slice
  <2>1. TopP!ZeroSlice \in TopP!Slice /\ TopP!EmptyMeta \in TopP!Slice
    BY TopP!ConstantTypes, WidthAssumption, NumAssumption, DeparserAssumption, TopHolds
  <2> QED  BY <2>1, SameSets DEF MetaOf
<1>3. WordOf(oRule) \in ConfWord \cup {Top!NoWord}
  BY StreamAssumption DEF WordOf, TypesInv
<1> QED  BY <1>1, <1>2, <1>3

-----------------------------------------------------------------------------
(* A clock edge of both parts outside a reset.  "new" has the packet that  *)
(* has become complete, if one has, "more" its words; "overtaken" is set   *)
(* when a configuration word has arrived.                                  *)
ClockEdge(overtaken, new, more) ==
  /\ ~resetting /\ UNCHANGED resetting
  /\ PhvP!SliceClock /\ PhvP!Sent(more)
  /\ TopP!Clock(SliceOf(oPhv), MetaOf(oMeta), WordOf(oRule))
  /\ line' = Left(overtaken) \o new /\ out' = OutNext
  /\ \/ new = <<>> /\ more = <<>>
     \/ \E p \in Parcel : new = <<p>> /\ more = <<p.words>>

(* The edge on which a word arrives that is not the first of its packet.   *)
LEMMA BodyEdge ==
  ASSUME PhvP!TypeOK, TypesInv, NEW t \in Tokens, NEW tail \in BOOLEAN, BodyWord(t, tail)
  PROVE  LET isRule == conf /\ whole
             after == IF isRule THEN Disturbed(now) ELSE now
             p == [words |-> Append(rx, t), conf |-> after.conf, quiet |-> after.quiet]
         IN  ClockEdge(isRule, IF tail THEN <<p>> ELSE <<>>, IF tail THEN <<Append(rx, t)>> ELSE <<>>)
<1> DEFINE isRule == conf /\ whole
           after == IF isRule THEN Disturbed(now) ELSE now
           p == [words |-> Append(rx, t), conf |-> after.conf, quiet |-> after.quiet]
           new == IF tail THEN <<p>> ELSE <<>>
           more == IF tail THEN <<Append(rx, t)>> ELSE <<>>
<1>1. PhvP!SliceClock /\ PhvP!Sent(more)
  BY SameSliceClock, SameSent DEF BodyWord, Phv!BodyWord
<1>2. p \in Parcel /\ p.words = Append(rx, t)
  <2>1. Append(rx, t) \in Seq(Tokens)
    BY DEF PhvP!TypeOK
  <2>2. after \in [conf : Conf, quiet : BOOLEAN]
    BY DEF TypesInv, Disturbed
  <2> HIDE DEF after
  <2> QED  BY <2>1, <2>2 DEF Parcel
<1>3. /\ line' = Left(isRule) \o new /\ out' = OutNext /\ ~resetting /\ UNCHANGED resetting
      /\ TopP!Clock(SliceOf(oPhv), MetaOf(oMeta), WordOf(oRule))
  BY SameClock DEF BodyWord, ParserClock
<1>4. \/ new = <<>> /\ more = <<>>
      \/ \E q \in Parcel : new = <<q>> /\ more = <<q.words>>
  BY <1>2
<1> HIDE DEF new, more
<1>5. ClockEdge(isRule, new, more)
  BY <1>1, <1>3, <1>4 DEF ClockEdge
<1> QED  BY <1>5 DEF new, more

LEMMA Edges ==
  ASSUME PhvP!TypeOK, TypesInv
  PROVE  /\ Pause => ClockEdge(FALSE, <<>>, <<>>)
         /\ \A t, isConf : HeadWord(t, isConf) => ClockEdge(FALSE, <<>>, <<>>)
         /\ \A t \in Tokens, tail \in BOOLEAN : BodyWord(t, tail) =>
              \E new, more : ClockEdge(conf /\ whole, new, more)
<1>1. ParserClock => TopP!Clock(SliceOf(oPhv), MetaOf(oMeta), WordOf(oRule))
  BY SameClock DEF ParserClock
<1>2. ASSUME Pause PROVE ClockEdge(FALSE, <<>>, <<>>)
  <2>1. PhvP!SliceClock /\ PhvP!Sent(<<>>)
    BY <1>2, SamePause DEF Pause, PhvP!Pause
  <2>2. Left(FALSE) \o <<>> = Left(FALSE)
    BY DEF Left, TypesInv
  <2> QED  BY <1>1, <1>2, <2>1, <2>2 DEF Pause, ClockEdge
<1>3. ASSUME NEW t, NEW isConf, HeadWord(t, isConf)
      PROVE  ClockEdge(FALSE, <<>>, <<>>)
  <2>1. PhvP!SliceClock /\ PhvP!Sent(<<>>)
    BY <1>3, SameSliceClock, SameSent DEF HeadWord, Phv!HeadWord
  <2>2. Left(FALSE) \o <<>> = Left(FALSE)
    BY DEF Left, TypesInv
  <2> QED  BY <1>1, <1>3, <2>1, <2>2 DEF HeadWord, ClockEdge
<1>4. ASSUME NEW t \in Tokens, NEW tail \in BOOLEAN, BodyWord(t, tail)
      PROVE  \E new, more : ClockEdge(conf /\ whole, new, more)
  BY <1>4, BodyEdge
<1> QED  BY <1>2, <1>3, <1>4

(* The packets in line as a clock edge leaves them.                        *)
Kept(p, q) == q.words = p.words /\ q.conf = p.conf /\ (q.quiet => p.quiet)

LEMMA LeftIs ==
  ASSUME line \in Seq(Parcel), NEW overtaken \in BOOLEAN,
         NEW g, g = IF oHead.valid /\ oHead.tail /\ line # <<>> THEN 1 ELSE 0
  PROVE  /\ Left(overtaken) \in Seq(Parcel)
         /\ g \in Nat /\ Len(line) \in Nat /\ g <= Len(line)
         /\ Len(Left(overtaken)) = Len(line) - g
         /\ \A i \in 1 .. Len(line) - g : /\ Kept(line[i + g], Left(overtaken)[i])
                                          /\ overtaken => ~Left(overtaken)[i].quiet
<1> DEFINE rest == IF oHead.valid /\ oHead.tail /\ line # <<>> THEN Tail(line) ELSE line
<1>1. /\ rest \in Seq(Parcel) /\ g \in Nat /\ Len(line) \in Nat /\ g <= Len(line)
      /\ Len(rest) = Len(line) - g
      /\ \A i \in 1 .. Len(line) - g : rest[i] = line[i + g]
  <2>1. CASE g = 1
    BY <2>1
  <2>2. CASE g = 0
    BY <2>2
  <2> QED  BY <2>1, <2>2
<1>2. Left(overtaken) =
        IF overtaken THEN [i \in DOMAIN rest |-> Disturbed(rest[i])] ELSE rest
  BY DEF Left
<1> HIDE DEF rest
<1>3. \A p \in Parcel : Disturbed(p) \in Parcel /\ ~Disturbed(p).quiet /\ Kept(p, Disturbed(p))
  BY DEF Disturbed, Parcel, Kept
<1>4. DOMAIN rest = 1 .. Len(rest) /\ \A i \in 1 .. Len(rest) : rest[i] \in Parcel
  BY <1>1
<1>5. CASE overtaken
  <2> DEFINE f == [i \in 1 .. Len(rest) |-> Disturbed(rest[i])]
  <2>1. Left(overtaken) = f
    BY <1>2, <1>4, <1>5
  <2>2. f \in Seq(Parcel) /\ Len(f) = Len(rest)
    <3>1. f \in [1 .. Len(rest) -> Parcel] /\ Len(rest) \in Nat
      BY <1>1, <1>3, <1>4
    <3> HIDE DEF f
    <3> QED  BY <3>1
  <2> QED  BY <1>1, <1>3, <1>4, <2>1, <2>2
<1>6. CASE ~overtaken
  <2>1. Left(overtaken) = rest
    BY <1>2, <1>6
  <2> QED  BY <1>1, <1>6, <2>1 DEF Kept
<1> QED  BY <1>5, <1>6

-----------------------------------------------------------------------------
(* The registers and the history keep their types.                         *)
LEMMA TopTypes ==
  /\ TopP!TypeOK <=> /\ layer \in [Layers -> TopP!LayerRegs] /\ info0 \in LookupRst
                     /\ packets \in Nat
  /\ TopP!TypeOK' <=> /\ layer' \in [Layers -> TopP!LayerRegs] /\ info0' \in LookupRst
                      /\ packets' \in Nat
BY SameSets DEF TopP!TypeOK

(* The lemmas of Parser_Top on types, in the words of this module.         *)
LEMMA TopFacts ==
  /\ \A s \in TypeRule, w \in ConfWord \cup {Top!NoWord} : Staged(s, w) \in TypeRule
  /\ \A w : Committing(w) \in SUBSET RuleIds
  /\ \A t \in Tables, s \in TypeRule, e \in SUBSET RuleIds : Written(t, e, s) \in Tables
  /\ \A t \in Tables : Invalidated(t) \in Tables
  /\ \A t \in Tables : \A f : LookupType(t, f) \in LookupRst
  /\ \A r \in LookupRst, w \in ConfWord \cup {Top!NoWord} : Top!Info0Conf(r, w) \in LookupRst
  /\ \A k \in Layers \cup {0}, w \in ConfWord \cup {Top!NoWord} :
       Top!WordFor(k, w) \in ConfWord \cup {Top!NoWord}
  /\ \A t \in Tables, r \in TypeRule : Top!ZeroLayer(t, r) \in TopP!LayerRegs
  /\ \A l \in TopP!LayerRegs : Top!LayerReset(l) \in TopP!LayerRegs
<1>1. /\ \A s \in TypeRule, w \in ConfWord \cup {Top!NoWord} : Staged(s, w) \in TypeRule
      /\ \A w : Committing(w) \in SUBSET RuleIds
      /\ \A t \in Tables, s \in TypeRule, e \in SUBSET RuleIds : Written(t, e, s) \in Tables
      /\ \A t \in Tables : Invalidated(t) \in Tables
  <2>1. /\ \A s \in TopP!TypeRule, w \in TopP!ConfWord \cup {TopP!NoWord} : TopP!Staged(s, w) \in TopP!TypeRule
        /\ \A w : TopP!Committing(w) \in SUBSET TopP!RuleIds
        /\ \A t \in TopP!Tables, s \in TopP!TypeRule, e \in SUBSET TopP!RuleIds : TopP!Written(t, e, s) \in TopP!Tables
        /\ \A t \in TopP!Tables : TopP!Invalidated(t) \in TopP!Tables
    BY TopP!RuleTypes, WidthAssumption, NumAssumption, DeparserAssumption, TopHolds
  <2> QED  BY <2>1, SameSets, SameRules
<1>2. \A t \in Tables : \A f : LookupType(t, f) \in LookupRst
  <2>1. \A t \in TopP!Tables : \A f : TopP!LookupType(t, f) \in TopP!LookupRst
    BY TopP!LookupTyped, WidthAssumption, NumAssumption, DeparserAssumption, TopHolds
  <2> QED  BY <2>1, SameSets, SameRules
<1>3. /\ \A r \in LookupRst, w \in ConfWord \cup {Top!NoWord} : Top!Info0Conf(r, w) \in LookupRst
      /\ \A k \in Layers \cup {0}, w \in ConfWord \cup {Top!NoWord} :
           Top!WordFor(k, w) \in ConfWord \cup {Top!NoWord}
  <2>1. /\ \A r \in TopP!LookupRst, w \in TopP!ConfWord \cup {TopP!NoWord} : TopP!Info0Conf(r, w) \in TopP!LookupRst
        /\ \A k \in TopP!Layers, w \in TopP!ConfWord \cup {TopP!NoWord} :
             TopP!WordFor(k, w) \in TopP!ConfWord \cup {TopP!NoWord}
        /\ \A w \in TopP!ConfWord \cup {TopP!NoWord} : TopP!WordFor(0, w) \in TopP!ConfWord \cup {TopP!NoWord}
    BY TopP!InfoTypes, WidthAssumption, NumAssumption, DeparserAssumption, TopHolds
  <2> QED  BY <2>1, SameSets, SameRules
<1>4. /\ \A t \in Tables, r \in TypeRule : Top!ZeroLayer(t, r) \in TopP!LayerRegs
      /\ \A l \in TopP!LayerRegs : Top!LayerReset(l) \in TopP!LayerRegs
  <2>1. /\ \A t \in TopP!Tables, r \in TopP!TypeRule : TopP!ZeroLayer(t, r) \in TopP!LayerRegs
        /\ \A l \in TopP!LayerRegs : TopP!LayerReset(l) \in TopP!LayerRegs
    BY TopP!RegTypes, WidthAssumption, NumAssumption, DeparserAssumption, TopHolds
  <2> QED  BY <2>1, SameSets, SameLayer
<1> QED  BY <1>1, <1>2, <1>3, <1>4

LEMMA ClockTypes ==
  ASSUME PhvP!TypeOK, TypesInv, NEW overtaken \in BOOLEAN, NEW new, NEW more,
         ClockEdge(overtaken, new, more)
  PROVE  /\ layer' \in [Layers -> TopP!LayerRegs] /\ info0' \in LookupRst
         /\ line' \in Seq(Parcel) /\ out' \in Nat
<1>1. layer' \in [Layers -> TopP!LayerRegs] /\ info0' \in LookupRst
  <2>1. /\ SliceOf(oPhv) \in TopP!Slice /\ MetaOf(oMeta) \in TopP!Slice
        /\ WordOf(oRule) \in TopP!ConfWord \cup {TopP!NoWord}
    BY WiresType, SameSets
  <2>2. TopP!TypeOK /\ TopP!Clock(SliceOf(oPhv), MetaOf(oMeta), WordOf(oRule))
    BY DEF TypesInv, ClockEdge
  <2>3. layer' \in [TopP!Layers -> TopP!LayerRegs] /\ info0' \in TopP!LookupRst
    BY <2>1, <2>2, TopP!ClockType, WidthAssumption, NumAssumption, DeparserAssumption, TopHolds
  <2> QED  BY <2>3, SameSets
<1>2. line' \in Seq(Parcel)
  <2>1. Left(overtaken) \in Seq(Parcel) /\ new \in Seq(Parcel)
    <3>1. line \in Seq(Parcel)
      BY DEF TypesInv
    <3>2. Left(overtaken) \in Seq(Parcel)
      BY <3>1, LeftIs
    <3>3. new \in Seq(Parcel)
      <4>1. new = <<>> \/ \E p \in Parcel : new = <<p>>
        BY DEF ClockEdge
      <4>2. \A p \in Parcel : <<p>> \in Seq(Parcel)
        OBVIOUS
      <4> QED  BY <4>1, <4>2, EmptySeq
    <3> QED  BY <3>2, <3>3
  <2> QED  BY <2>1 DEF ClockEdge
<1>3. out' \in Nat
  BY DEF ClockEdge, OutNext, TypesInv
<1> QED  BY <1>1, <1>2, <1>3

LEMMA ToldType ==
  ASSUME TypesInv, NEW w \in ConfWord
  PROVE  Told(w) \in [info0 : LookupRst, tables : [Layers -> Tables], stages : [Layers -> TypeRule]]
<1> DEFINE stages == [k \in Layers |-> Staged(told.stages[k], Top!WordFor(k, w))]
           tables == [k \in Layers |->
                        Written(told.tables[k], Committing(Top!WordFor(k, w)), stages[k])]
<1>1. stages \in [Layers -> TypeRule]
  BY TopFacts DEF TypesInv
<1>2. tables \in [Layers -> Tables]
  <2> HIDE DEF stages
  <2> QED  BY <1>1, TopFacts DEF TypesInv
<1>3. Top!Info0Conf(told.info0, Top!WordFor(0, w)) \in LookupRst
  BY TopFacts DEF TypesInv
<1>4. Told(w) = [info0 |-> Top!Info0Conf(told.info0, Top!WordFor(0, w)), tables |-> tables,
                 stages |-> stages]
  BY DEF Told
<1> HIDE DEF stages, tables
<1> QED  BY <1>1, <1>2, <1>3, <1>4

LEMMA TypesStep ==
  ASSUME PhvP!TypeOK, PhvP!TypeOK', TypesInv, [Next]_vars
  PROVE  TypesInv'
<1>1. ASSUME NEW overtaken \in BOOLEAN, NEW new, NEW more, ClockEdge(overtaken, new, more),
             packets' \in Nat
      PROVE  TopP!TypeOK' /\ line' \in Seq(Parcel) /\ out' \in Nat /\ resetting' \in BOOLEAN
  <2>1. /\ layer' \in [Layers -> TopP!LayerRegs] /\ info0' \in LookupRst
        /\ line' \in Seq(Parcel) /\ out' \in Nat
    BY <1>1, ClockTypes
  <2>2. resetting' \in BOOLEAN
    BY <1>1 DEF ClockEdge, TypesInv
  <2> QED  BY <1>1, <2>1, <2>2, TopTypes
<1>2. CASE Pause
  <2>1. packets' \in Nat
    BY <1>2, TopTypes DEF Pause, TypesInv
  <2>2. ClockEdge(FALSE, <<>>, <<>>)
    BY ONLY PhvP!TypeOK, TypesInv, <1>2, Edges
  <2>3. ~oRule'.valid
    BY <1>2 DEF Pause, Phv!Pause, Phv!NoWord
  <2>4. told' = told /\ now' = now
    BY <1>2 DEF Pause
  <2> QED  BY <1>1, <2>1, <2>2, <2>3, <2>4 DEF TypesInv
<1>3. ASSUME NEW t \in Tokens, NEW isConf \in BOOLEAN, HeadWord(t, isConf)
      PROVE  TypesInv'
  <2>1. packets' \in Nat
    BY <1>3, TopTypes DEF HeadWord, TypesInv
  <2>2. ClockEdge(FALSE, <<>>, <<>>)
    BY ONLY PhvP!TypeOK, TypesInv, <1>3, Edges
  <2>3. oRule'.valid => oRule'.tok \in Tokens
    BY <1>3 DEF HeadWord, Phv!HeadWord, Phv!NoWord, Phv!WordOf
  <2>4. told' = told /\ now' \in [conf : Conf, quiet : BOOLEAN]
    BY <1>3 DEF HeadWord, TypesInv, Conf
  <2> QED  BY <1>1, <2>1, <2>2, <2>3, <2>4 DEF TypesInv
<1>4. ASSUME NEW t \in Tokens, NEW tail \in BOOLEAN, BodyWord(t, tail)
      PROVE  TypesInv'
  <2>1. packets' \in Nat
    BY <1>4, TopTypes DEF BodyWord, TypesInv
  <2>2. PICK new, more : ClockEdge(conf /\ whole, new, more)
    BY <1>4, Edges
  <2>3. oRule'.valid => oRule'.tok \in Tokens
    BY <1>4 DEF BodyWord, Phv!BodyWord, Phv!NoWord, Phv!WordOf
  <2>4. told' = (IF conf /\ whole THEN Told(t.rule) ELSE told)
        /\ now' \in [conf : Conf, quiet : BOOLEAN]
    BY <1>4 DEF BodyWord, TypesInv, Disturbed
  <2>5. t.rule \in ConfWord /\ (conf /\ whole) \in BOOLEAN
    BY StreamAssumption
  <2>6. told' \in [info0 : LookupRst, tables : [Layers -> Tables], stages : [Layers -> TypeRule]]
    BY <2>4, <2>5, ToldType DEF TypesInv
  <2>7. TopP!TypeOK' /\ line' \in Seq(Parcel) /\ out' \in Nat /\ resetting' \in BOOLEAN
    BY <1>1, <2>1, <2>2, <2>5
  <2> QED  BY <2>3, <2>4, <2>6, <2>7 DEF TypesInv
<1>5. CASE ResetClock
  <2> DEFINE w == WordOf(oRule)
             in(k) == IF k = 1 THEN [head |-> SliceOf(oPhv'), meta |-> MetaOf(oMeta'), info |-> info0]
                      ELSE Top!LayerOut(layer[k - 1])
  <2>1. /\ layer' = [k \in Layers |->
                       Top!LayerClock(Top!LayerReset(layer[k]), in(k), Top!NoWord)]
        /\ info0' = Top!Info0Conf(info0, Top!WordFor(0, w))
        /\ resetting' = TRUE
        /\ told' = [told EXCEPT !.tables = [k \in Layers |->
             Written(Invalidated(@[k]), Committing(Top!WordFor(k, w)), told.stages[k])]]
        /\ line' = <<>> /\ out' = 0 /\ packets' = packets /\ now' = now /\ oRule' = oRule
    BY <1>5 DEF ResetClock, Phv!Reset
  <2>2. w \in ConfWord \cup {Top!NoWord}
    BY WiresType
  <2> HIDE DEF w
  <2>3. told' \in [info0 : LookupRst, tables : [Layers -> Tables], stages : [Layers -> TypeRule]]
    <3> DEFINE tables == [k \in Layers |->
                 Written(Invalidated(told.tables[k]), Committing(Top!WordFor(k, w)), told.stages[k])]
    <3>1. tables \in [Layers -> Tables]
      BY TopFacts DEF TypesInv
    <3>2. told' = [told EXCEPT !.tables = tables]
      BY <2>1
    <3> HIDE DEF tables
    <3> QED  BY <3>1, <3>2 DEF TypesInv
  <2>4. info0' \in LookupRst
    BY <2>1, <2>2, TopFacts, TopTypes DEF TypesInv
  <2>5. layer' \in [Layers -> TopP!LayerRegs]
    <3>1. SliceOf(oPhv') \in Slice
      BY SliceType DEF PhvP!TypeOK
    <3>2. MetaOf(oMeta') \in Slice
      BY TopP!ConstantTypes, WidthAssumption, NumAssumption, DeparserAssumption, TopHolds, SameSets
         DEF MetaOf
    <3>3. ASSUME NEW k \in Layers PROVE in(k) \in TopP!LayerInfo
      <4>1. CASE k = 1
        BY <3>1, <3>2, <4>1, SameSets, TopTypes DEF TopP!LayerInfo, TypesInv
      <4>2. CASE k # 1
        <5>1. k - 1 \in Layers
          BY <4>2, LayerNumber DEF Layers
        <5>2. \A l \in TopP!LayerRegs : TopP!LayerOut(l) \in TopP!LayerInfo
          BY TopP!InfoTypes, WidthAssumption, NumAssumption, DeparserAssumption, TopHolds
        <5> QED  BY <4>2, <5>1, <5>2, TopTypes, SameLayer DEF TypesInv
      <4> QED  BY <4>1, <4>2
    <3> HIDE DEF in
    <3>4. ASSUME NEW k \in Layers
          PROVE  Top!LayerClock(Top!LayerReset(layer[k]), in(k), Top!NoWord) \in TopP!LayerRegs
      <4>1. Top!LayerReset(layer[k]) \in TopP!LayerRegs
        BY TopFacts, TopTypes DEF TypesInv
      <4>2. TopP!LayerClock(Top!LayerReset(layer[k]), in(k), Top!NoWord) \in TopP!LayerRegs
        BY <3>3, <4>1, SameSets, TopP!LayerClockType, WidthAssumption, NumAssumption,
           DeparserAssumption, TopHolds
      <4> QED  BY <4>2, SameLayer
    <3> QED  BY <2>1, <3>4
  <2> QED  BY <2>1, <2>3, <2>4, <2>5, TopTypes DEF TypesInv
<1>6. CASE ResetEnds \/ UNCHANGED vars
  BY <1>6, TopTypes DEF ResetEnds, vars, phvVars, topVars, history, TypesInv
<1> QED  BY <1>2, <1>3, <1>4, <1>5, <1>6 DEF Next

LEMMA TypesInit == Init => TypesInv
<1> SUFFICES ASSUME Init PROVE TypesInv
  OBVIOUS
<1>1. PICK c \in Configs :
        /\ info0 = c.info0
        /\ layer = [k \in Layers |-> Top!ZeroLayer(c.tables[k], c.tables[k][RULE_NUM - 1])]
        /\ told = [info0 |-> c.info0, tables |-> c.tables,
                   stages |-> [k \in Layers |-> c.tables[k][RULE_NUM - 1]]]
        /\ now = [conf |-> c, quiet |-> FALSE]
  BY DEF Init
<1>2. c \in Conf
  BY TopHolds, SameSets DEF TopP!TopAssumption, Conf, Layers, Tables
<1>3. RULE_NUM - 1 \in RuleIds
  BY NumAssumption DEF RuleIds
<1>4. \A k \in Layers : c.tables[k] \in Tables /\ c.tables[k][RULE_NUM - 1] \in TypeRule
  BY <1>2, <1>3 DEF Conf, Tables
<1>5. layer \in [Layers -> TopP!LayerRegs] /\ info0 \in LookupRst
  BY <1>1, <1>2, <1>4, TopFacts DEF Conf
<1>6. oRule.valid = FALSE /\ packets = 0 /\ resetting = FALSE /\ line \in Seq(Parcel) /\ out = 0
  BY EmptySeq DEF Init, Phv!Init, Phv!NoWord
<1>7. /\ told \in [info0 : LookupRst, tables : [Layers -> Tables], stages : [Layers -> TypeRule]]
      /\ now \in [conf : Conf, quiet : BOOLEAN]
  BY <1>1, <1>2, <1>4 DEF Conf
<1> QED  BY <1>5, <1>6, <1>7, TopTypes DEF TypesInv

LEMMA Types == Spec => [](PhvP!TypeOK /\ TypesInv)
<1>1. PhvP!Spec => []PhvP!TypeOK
  BY PhvP!TypeCorrect, GenHolds
<1>2. PhvP!TypeOK /\ PhvP!TypeOK' /\ TypesInv /\ [Next]_vars => TypesInv'
  BY TypesStep
<1> QED  BY <1>1, <1>2, TypesInit, Implements, PTL DEF Spec

-----------------------------------------------------------------------------
(* What the registers of the pipeline hold when no packet is there: an     *)
(* empty slice has no flag, and metadata comes beside a slice only.        *)
Marks(h) == ~h.valid => ~h.start /\ ~h.tail
Beside(m, h) == /\ m.valid => h.valid /\ m.tail
                /\ ~m.valid => m = ZeroSlice

LayerMarks(l) ==
  /\ Marks(l.head) /\ Marks(l.sh.preHead) /\ Marks(l.sh.head)
  /\ Beside(l.meta, l.head) /\ Beside(l.sh.preMeta, l.sh.preHead) /\ Beside(l.sh.meta, l.sh.head)
  /\ l.sh.startBit <=> l.sh.preMeta.valid

MarksInv == \A k \in Layers : LayerMarks(layer[k])

LEMMA RegFields ==
  ASSUME NEW l \in TopP!LayerRegs
  PROVE  /\ l.head \in Slice /\ l.meta \in Slice /\ l.sh.preHead \in Slice /\ l.sh.preMeta \in Slice
         /\ l.sh.head \in Slice /\ l.sh.meta \in Slice /\ l.sh.startBit \in BOOLEAN
         /\ l.stage \in TypeRule /\ l.wren \in SUBSET RuleIds /\ l.table \in Tables
BY SameSets DEF TopP!LayerRegs, TopP!ShiftHeadRegs, Tables

LEMMA MarksKept ==
  ASSUME NEW l \in TopP!LayerRegs, LayerMarks(l),
         NEW in, Marks(in.head), Beside(in.meta, in.head), NEW w
  PROVE  LayerMarks(TopP!LayerClock(l, in, w))
<1> DEFINE m == TopP!LayerClock(l, in, w)
<1>1. /\ m.head = in.head /\ m.meta = in.meta
      /\ m.sh.preHead = l.head /\ m.sh.preMeta = l.meta
      /\ m.sh.head = TopP!NextHead(l.sh, l.head) /\ m.sh.meta = TopP!NextMeta(l.sh)
      /\ m.sh.startBit = TopP!StartBitMetaTag(l.sh, l.meta)
  BY DEF TopP!LayerClock, TopP!ShiftHeadClock
<1> HIDE DEF m
<1>2. l.sh.preHead \in Slice /\ l.sh.preMeta \in Slice
  BY RegFields
<1>3. /\ m.sh.head.valid = l.sh.preHead.valid /\ m.sh.head.start = l.sh.preHead.start
      /\ m.sh.head.tail = l.sh.preHead.tail
  BY <1>1, <1>2 DEF TopP!NextHead, Slice
<1>4. /\ m.sh.meta.valid = l.sh.preMeta.valid /\ m.sh.meta.tail = l.sh.preMeta.tail
      /\ ~l.sh.preMeta.valid => m.sh.meta = l.sh.preMeta
  BY <1>1, <1>2 DEF TopP!NextMeta, Slice, LayerMarks
<1>5. m.sh.startBit <=> l.meta.valid
  <2>1. m.sh.startBit <=> (l.meta.shift /\ ~l.sh.preMeta.shift) \/ l.meta.tail
    BY <1>1 DEF TopP!StartBitMetaTag
  <2>2. ~l.meta.valid => ~l.meta.shift /\ ~l.meta.tail
    BY DEF LayerMarks, Beside, ZeroSlice
  <2>3. l.meta.valid => l.meta.tail
    BY DEF LayerMarks, Beside
  <2> QED  BY <2>1, <2>2, <2>3
<1>6. /\ Marks(m.head) /\ Marks(m.sh.preHead) /\ Marks(m.sh.head)
      /\ Beside(m.meta, m.head) /\ Beside(m.sh.preMeta, m.sh.preHead)
  BY <1>1, <1>3 DEF LayerMarks, Marks
<1>7. Beside(m.sh.meta, m.sh.head)
  BY <1>3, <1>4 DEF LayerMarks, Beside
<1> QED  BY <1>1, <1>5, <1>6, <1>7 DEF LayerMarks, m

(* The registers that a reset of the rule path leaves alone.               *)
LEMMA ResetFields ==
  ASSUME NEW l \in TopP!LayerRegs
  PROVE  /\ Top!LayerReset(l).head = l.head /\ Top!LayerReset(l).meta = l.meta
         /\ Top!LayerReset(l).sh = l.sh /\ Top!LayerReset(l).stage = l.stage
         /\ Top!LayerReset(l).wren = {} /\ Top!LayerReset(l).table = Invalidated(l.table)
<1>1. TopP!LayerReset(l) = [l EXCEPT !.wren = {}, !.table = Invalidated(l.table)]
  BY SameRules DEF TopP!LayerReset
<1> QED  BY <1>1, SameLayer DEF TopP!LayerRegs

LEMMA WireMarks ==
  ASSUME PhvP!FlagsInv
  PROVE  Marks(SliceOf(oPhv)) /\ Beside(MetaOf(oMeta), SliceOf(oPhv))
<1>1. Top!EmptyMeta.valid /\ Top!EmptyMeta.tail /\ ~ZeroSlice.valid
  BY DEF Top!EmptyMeta, Top!ZeroSlice, ZeroSlice
<1>2. /\ SliceOf(oPhv).valid = oPhv.valid /\ SliceOf(oPhv).start = oPhv.start
      /\ SliceOf(oPhv).tail = oPhv.tail
  BY DEF SliceOf
<1>3. MetaOf(oMeta) = IF oMeta THEN Top!EmptyMeta ELSE ZeroSlice
  BY DEF MetaOf
<1> QED  BY <1>1, <1>2, <1>3 DEF PhvP!FlagsInv, Marks, Beside

(* What layer k takes in when h and m arrive at layer 1.                   *)
InputOf(k, h, m) ==
  IF k = 1 THEN [head |-> h, meta |-> m, info |-> info0] ELSE Top!LayerOut(layer[k - 1])

LEMMA InputMarks ==
  ASSUME MarksInv, NEW h, NEW m, Marks(h), Beside(m, h), NEW k \in Layers
  PROVE  Marks(InputOf(k, h, m).head) /\ Beside(InputOf(k, h, m).meta, InputOf(k, h, m).head)
<1>1. CASE k = 1
  BY <1>1 DEF InputOf
<1>2. CASE k # 1
  <2>1. k - 1 \in Layers
    BY <1>2, LayerNumber DEF Layers
  <2>2. /\ InputOf(k, h, m).head = layer[k - 1].sh.head
        /\ InputOf(k, h, m).meta = layer[k - 1].sh.meta
    BY <1>2 DEF InputOf, Top!LayerOut
  <2> QED  BY <2>1, <2>2 DEF MarksInv, LayerMarks
<1> QED  BY <1>1, <1>2

(* The layers after a clock, and after a clock of a reset.                 *)
LEMMA LayersAfter ==
  ASSUME NEW overtaken, NEW new, NEW more, ClockEdge(overtaken, new, more), NEW k \in Layers
  PROVE  layer'[k] = TopP!LayerClock(layer[k], InputOf(k, SliceOf(oPhv), MetaOf(oMeta)),
                                     Top!WordFor(k, WordOf(oRule)))
<1>1. TopP!Clock(SliceOf(oPhv), MetaOf(oMeta), WordOf(oRule))
  BY DEF ClockEdge
<1> QED  BY <1>1, SameSets, SameRules, SameLayer DEF TopP!Clock, InputOf

LEMMA LayersReset ==
  ASSUME ResetClock, NEW k \in Layers
  PROVE  layer'[k] = TopP!LayerClock(Top!LayerReset(layer[k]),
                                     InputOf(k, SliceOf(oPhv'), MetaOf(oMeta')), Top!NoWord)
BY SameLayer DEF ResetClock, InputOf

LEMMA MarksStep ==
  ASSUME PhvP!TypeOK, TypesInv, PhvP!FlagsInv, MarksInv, [Next]_vars
  PROVE  MarksInv'
<1>1. \A k \in Layers : layer[k] \in TopP!LayerRegs
  BY TopTypes DEF TypesInv
<1>2. ASSUME NEW overtaken, NEW new, NEW more, ClockEdge(overtaken, new, more)
      PROVE  MarksInv'
  <2> SUFFICES ASSUME NEW k \in Layers PROVE LayerMarks(layer'[k])
    BY DEF MarksInv
  <2> DEFINE in == InputOf(k, SliceOf(oPhv), MetaOf(oMeta))
  <2>1. Marks(in.head) /\ Beside(in.meta, in.head)
    BY WireMarks, InputMarks
  <2>2. layer'[k] = TopP!LayerClock(layer[k], in, Top!WordFor(k, WordOf(oRule)))
    BY <1>2, LayersAfter
  <2> HIDE DEF in
  <2>3. LayerMarks(layer[k])
    BY DEF MarksInv
  <2> QED  BY <1>1, <2>1, <2>2, <2>3, MarksKept
<1>3. CASE ResetClock
  <2> SUFFICES ASSUME NEW k \in Layers PROVE LayerMarks(layer'[k])
    BY DEF MarksInv
  <2> DEFINE in == InputOf(k, SliceOf(oPhv'), MetaOf(oMeta'))
             l == Top!LayerReset(layer[k])
  <2>1. Marks(SliceOf(oPhv')) /\ Beside(MetaOf(oMeta'), SliceOf(oPhv'))
    <3>1. PhvP!Reset /\ oPhv \in PhvP!PhvSlice
      BY <1>3, SameReset DEF ResetClock, PhvP!TypeOK
    <3>2. ~oPhv'.valid /\ ~oPhv'.start /\ ~oPhv'.tail /\ ~oMeta'
      BY <3>1 DEF PhvP!Reset, PhvP!PhvSlice
    <3> QED  BY <3>2 DEF Marks, Beside, SliceOf, MetaOf, ZeroSlice
  <2>2. Marks(in.head) /\ Beside(in.meta, in.head)
    BY <2>1, InputMarks
  <2>3. layer'[k] = TopP!LayerClock(l, in, Top!NoWord)
    BY <1>3, LayersReset
  <2>4. l \in TopP!LayerRegs /\ LayerMarks(l)
    BY <1>1, TopFacts, ResetFields DEF MarksInv, LayerMarks
  <2> HIDE DEF in, l
  <2> QED  BY <2>2, <2>3, <2>4, MarksKept
<1>4. CASE ResetEnds \/ UNCHANGED vars
  BY <1>4 DEF ResetEnds, vars, topVars, MarksInv
<1> QED  BY <1>2, <1>3, <1>4, Edges DEF Next

(* When the pipeline has run empty, no packet is in it.                    *)
LEMMA EmptyLayers ==
  ASSUME MarksInv, \A k \in Layers : /\ ~layer[k].head.valid /\ ~layer[k].sh.preHead.valid
                                     /\ ~layer[k].sh.head.valid
  PROVE  TopP!HeadsOf(layer, <<>>) /\ TopP!MetasOf(layer, <<>>)
<1>1. TopP!FlightOK(<<>>) /\ Len(<<>>) = 0
  BY EmptySeq DEF TopP!FlightOK
<1>2. ASSUME NEW r, NEW t, NEW k, ~r.valid, Marks(r) PROVE TopP!SliceOf(r, t, k, <<>>)
  BY <1>1, <1>2 DEF TopP!SliceOf, Marks
<1>3. ASSUME NEW m, NEW h, NEW t, NEW k, ~h.valid, Beside(m, h) PROVE TopP!MetaOf(m, t, k, <<>>)
  BY <1>1, <1>3, SameSets DEF TopP!MetaOf, Beside
<1>4. ASSUME NEW k \in Layers
      PROVE  TopP!LayerHolds(layer[k], k, <<>>) /\ TopP!MetaHolds(layer[k], k, <<>>)
  <2>1. LayerMarks(layer[k])
    BY DEF MarksInv
  <2>2. /\ ~layer[k].head.valid /\ ~layer[k].sh.preHead.valid /\ ~layer[k].sh.head.valid
    OBVIOUS
  <2> QED  BY <1>1, <1>2, <1>3, <2>1, <2>2 DEF TopP!LayerHolds, TopP!MetaHolds, LayerMarks
<1> QED  BY <1>1, <1>4, SameSets DEF TopP!HeadsOf, TopP!MetasOf

-----------------------------------------------------------------------------
(* Layer 1 sees a packet as it is sent: its slices without a hole, behind  *)
(* its tail an empty slice.  A reset leaves nothing to send.               *)
LinkInv ==
  ~resetting =>
    /\ got > 0 <=> layer[1].head.valid /\ ~layer[1].head.tail
    /\ layer[1].head.valid /\ layer[1].head.tail => oPhv = PhvP!NoSlice
    /\ got > 0 => oPhv.valid

IdleInv ==
  resetting => /\ line = <<>> /\ due = <<>> /\ got = 0 /\ out = 0 /\ rx = <<>>
               /\ ~oPhv.valid

LEMMA FirstLayer == 1 \in Layers /\ NUM_LAYER \in Layers
BY LayerNumber DEF Layers

LEMMA FirstHead ==
  ASSUME NEW overtaken, NEW new, NEW more, ClockEdge(overtaken, new, more)
  PROVE  layer'[1].head = SliceOf(oPhv)
<1>1. layer'[1] = TopP!LayerClock(layer[1], InputOf(1, SliceOf(oPhv), MetaOf(oMeta)),
                                  Top!WordFor(1, WordOf(oRule)))
  BY LayersAfter, FirstLayer
<1> QED  BY <1>1 DEF TopP!LayerClock, InputOf

LEMMA LinkStep ==
  ASSUME PhvP!TypeOK, PhvP!BacklogInv, TypesInv, LinkInv, IdleInv, [Next]_vars
  PROVE  LinkInv' /\ IdleInv'
<1>1. got \in Nat
  BY DEF PhvP!TypeOK
<1>2. ASSUME NEW overtaken, NEW new, NEW more, ClockEdge(overtaken, new, more)
      PROVE  LinkInv' /\ IdleInv'
  <2>1. /\ ~resetting /\ resetting' = resetting /\ PhvP!SliceClock /\ PhvP!Sent(more)
    BY <1>2 DEF ClockEdge
  <2>2. /\ PhvP!Begun => oPhv'.valid /\ ~oPhv'.start
        /\ oPhv.valid /\ oPhv.tail => ~oPhv'.valid
        /\ ~oPhv'.valid => oPhv' = PhvP!NoSlice
    BY <2>1, PhvP!AfterSlice, GenHolds
  <2>3. got' = IF oPhv.valid THEN IF oPhv.tail THEN 0 ELSE got + 1 ELSE got
    BY <2>1 DEF PhvP!Sent
  <2>4. got > 0 => oPhv.valid
    BY <2>1 DEF LinkInv
  <2>5. got' > 0 <=> oPhv.valid /\ ~oPhv.tail
    BY <1>1, <2>3, <2>4
  <2>6. layer'[1].head.valid = oPhv.valid /\ layer'[1].head.tail = oPhv.tail
    <3>1. layer'[1].head = SliceOf(oPhv)
      BY <1>2, FirstHead
    <3> QED  BY <3>1 DEF SliceOf
  <2> QED  BY <2>1, <2>2, <2>5, <2>6 DEF LinkInv, IdleInv, PhvP!Begun
<1>3. CASE ResetClock
  <2>1. PhvP!Reset /\ line' = <<>> /\ out' = 0 /\ resetting'
    BY <1>3, SameReset DEF ResetClock
  <2>2. ~oPhv'.valid /\ due' = <<>> /\ got' = 0 /\ rx' = <<>>
    BY <2>1 DEF PhvP!Reset, PhvP!TypeOK, PhvP!PhvSlice
  <2> QED  BY <2>1, <2>2 DEF LinkInv, IdleInv
<1>4. CASE ResetEnds
  <2>1. resetting /\ ~resetting' /\ layer' = layer /\ got' = got /\ ~layer[1].head.valid
    BY <1>4, FirstLayer DEF ResetEnds, phvVars, topVars
  <2>2. got = 0
    BY <2>1 DEF IdleInv
  <2> QED  BY <2>1, <2>2 DEF LinkInv, IdleInv
<1>5. CASE UNCHANGED vars
  BY <1>5 DEF vars, phvVars, topVars, history, LinkInv, IdleInv
<1> QED  BY <1>2, <1>3, <1>4, <1>5, Edges DEF Next

-----------------------------------------------------------------------------
(* What has been told is what the registers will hold: a word on its way   *)
(* to a layer is in o_rule_wren, then in the staging register, then in the *)
(* table.  A rule that is not valid may be any.                            *)
ConfigInv ==
  LET w == WordOf(oRule)
  IN  /\ told.info0 = Top!Info0Conf(info0, Top!WordFor(0, w))
      /\ \A k \in Layers :
           LET l == layer[k]
           IN  /\ told.stages[k] = Staged(l.stage, Top!WordFor(k, w))
               /\ \A i \in RuleIds :
                    Shown(told.tables[k][i]) =
                      Shown(Written(Written(l.table, l.wren, l.stage),
                                    Committing(Top!WordFor(k, w)), told.stages[k])[i])

(* A word that says nothing, and one that is said twice.                   *)
LEMMA NothingSaid ==
  /\ \A k : Top!WordFor(k, Top!NoWord) = Top!NoWord
  /\ \A s \in TypeRule : Staged(s, Top!NoWord) = s
  /\ Committing(Top!NoWord) = {}
  /\ \A r \in LookupRst : Top!Info0Conf(r, Top!NoWord) = r
  /\ \A t \in Tables : \A s : Written(t, {}, s) = t
<1>1. Top!NoWord.kind = "none"
  BY DEF Top!NoWord
<1>2. \A k : Top!WordFor(k, Top!NoWord) = Top!NoWord
  BY <1>1 DEF Top!WordFor
<1>3. ASSUME NEW s \in TypeRule PROVE Staged(s, Top!NoWord) = s
  BY <1>1 DEF Staged, TypeRule
<1>4. Committing(Top!NoWord) = {}
  BY <1>1 DEF Committing
<1>5. ASSUME NEW r \in LookupRst PROVE Top!Info0Conf(r, Top!NoWord) = r
  BY <1>1, SameSets DEF Top!Info0Conf, LookupRst, Top!TypeIds, Top!KeyIds, TypeIds, KeyIds
<1>6. ASSUME NEW t \in Tables, NEW s PROVE Written(t, {}, s) = t
  BY DEF Written, Tables
<1> QED  BY <1>2, <1>3, <1>4, <1>5, <1>6

LEMMA SaidTwice ==
  ASSUME NEW r \in LookupRst, NEW w
  PROVE  Top!Info0Conf(Top!Info0Conf(r, w), w) = Top!Info0Conf(r, w)
BY DEF Top!Info0Conf

(* After a clock edge, before the next word.                               *)
LEMMA Settled ==
  ASSUME TypesInv, ConfigInv, NEW overtaken, NEW new, NEW more, ClockEdge(overtaken, new, more)
  PROVE  /\ told.info0 = info0'
         /\ \A k \in Layers :
              /\ told.stages[k] = layer'[k].stage
              /\ \A i \in RuleIds :
                   Shown(told.tables[k][i]) =
                     Shown(Written(layer'[k].table, layer'[k].wren, layer'[k].stage)[i])
<1>1. told.info0 = info0'
  <2>1. info0' = TopP!Info0Conf(info0, TopP!WordFor(0, WordOf(oRule)))
    BY DEF ClockEdge, TopP!Clock
  <2> QED  BY <2>1, SameRules DEF ConfigInv
<1>2. ASSUME NEW k \in Layers
      PROVE  /\ told.stages[k] = layer'[k].stage
             /\ \A i \in RuleIds :
                  Shown(told.tables[k][i]) =
                    Shown(Written(layer'[k].table, layer'[k].wren, layer'[k].stage)[i])
  <2> DEFINE in == InputOf(k, SliceOf(oPhv), MetaOf(oMeta))
             w == Top!WordFor(k, WordOf(oRule))
  <2>1. layer'[k] = TopP!LayerClock(layer[k], in, w)
    BY LayersAfter
  <2> HIDE DEF in, w
  <2>2. /\ layer'[k].stage = Staged(layer[k].stage, w)
        /\ layer'[k].wren = Committing(w)
        /\ layer'[k].table = Written(layer[k].table, layer[k].wren, layer[k].stage)
    BY <2>1, SameRules DEF TopP!LayerClock
  <2> QED  BY <2>2 DEF ConfigInv, w
<1> QED  BY <1>1, <1>2

(* The next word says nothing.                                             *)
LEMMA ConfigQuiet ==
  ASSUME TypesInv', NEW overtaken, NEW new, NEW more, ClockEdge(overtaken, new, more),
         TypesInv, ConfigInv, ~oRule'.valid, told' = told
  PROVE  ConfigInv'
<1>1. WordOf(oRule') = Top!NoWord
  BY DEF WordOf
<1>2. info0' \in LookupRst /\ \A k \in Layers : layer'[k] \in TopP!LayerRegs
  BY TopTypes DEF TypesInv
<1>3. told'.info0 = Top!Info0Conf(info0', Top!WordFor(0, WordOf(oRule')))
  BY <1>1, <1>2, Settled, NothingSaid
<1>4. ASSUME NEW k \in Layers
      PROVE  LET l == layer'[k]
                 w == WordOf(oRule')
             IN  /\ told'.stages[k] = Staged(l.stage, Top!WordFor(k, w))
                 /\ \A i \in RuleIds :
                      Shown(told'.tables[k][i]) =
                        Shown(Written(Written(l.table, l.wren, l.stage),
                                      Committing(Top!WordFor(k, w)), told'.stages[k])[i])
  <2> DEFINE l == layer'[k]
  <2>1. /\ told.stages[k] = l.stage
        /\ \A i \in RuleIds :
             Shown(told.tables[k][i]) = Shown(Written(l.table, l.wren, l.stage)[i])
    BY Settled
  <2>2. l.stage \in TypeRule /\ l.wren \in SUBSET RuleIds /\ l.table \in Tables
    BY <1>2, RegFields
  <2> HIDE DEF l
  <2>3. Written(l.table, l.wren, l.stage) \in Tables
    BY <2>2, TopFacts
  <2>4. Staged(l.stage, Top!WordFor(k, WordOf(oRule'))) = l.stage
        /\ Committing(Top!WordFor(k, WordOf(oRule'))) = {}
    BY <1>1, <2>2, NothingSaid
  <2>5. \A s : Written(Written(l.table, l.wren, l.stage), {}, s) = Written(l.table, l.wren, l.stage)
    BY <2>3, NothingSaid
  <2> QED  BY <2>1, <2>4, <2>5 DEF l
<1> QED  BY <1>3, <1>4 DEF ConfigInv

(* The next word is a configuration word.                                  *)
LEMMA ConfigWord ==
  ASSUME NEW overtaken, NEW new, NEW more, ClockEdge(overtaken, new, more),
         TypesInv, ConfigInv, NEW v, WordOf(oRule') = v, told' = Told(v)
  PROVE  ConfigInv'
<1> DEFINE stages == [k \in Layers |-> Staged(told.stages[k], Top!WordFor(k, v))]
<1>1. /\ told'.info0 = Top!Info0Conf(told.info0, Top!WordFor(0, v))
      /\ told'.stages = stages
      /\ told'.tables = [k \in Layers |->
           Written(told.tables[k], Committing(Top!WordFor(k, v)), stages[k])]
  BY DEF Told
<1>2. told'.info0 = Top!Info0Conf(info0', Top!WordFor(0, WordOf(oRule')))
  BY <1>1, Settled
<1>3. ASSUME NEW k \in Layers
      PROVE  LET l == layer'[k]
                 w == WordOf(oRule')
             IN  /\ told'.stages[k] = Staged(l.stage, Top!WordFor(k, w))
                 /\ \A i \in RuleIds :
                      Shown(told'.tables[k][i]) =
                        Shown(Written(Written(l.table, l.wren, l.stage),
                                      Committing(Top!WordFor(k, w)), told'.stages[k])[i])
  <2> DEFINE l == layer'[k]
             e == Committing(Top!WordFor(k, v))
  <2>1. /\ told.stages[k] = l.stage
        /\ \A i \in RuleIds :
             Shown(told.tables[k][i]) = Shown(Written(l.table, l.wren, l.stage)[i])
    BY Settled
  <2>2. told'.stages[k] = Staged(l.stage, Top!WordFor(k, v))
    BY <1>1, <2>1
  <2>3. told'.tables[k] = Written(told.tables[k], e, told'.stages[k])
    BY <1>1
  <2> HIDE DEF l, e
  <2>4. \A i \in RuleIds : Shown(told'.tables[k][i]) =
          Shown(Written(Written(l.table, l.wren, l.stage), e, told'.stages[k])[i])
    <3> DEFINE t == Written(l.table, l.wren, l.stage)
               s == told'.stages[k]
    <3> HIDE DEF t, s
    <3>1. \A i \in RuleIds : /\ Written(told.tables[k], e, s)[i] = IF i \in e THEN s ELSE told.tables[k][i]
                             /\ Written(t, e, s)[i] = IF i \in e THEN s ELSE t[i]
      BY DEF Written
    <3> QED  BY <2>1, <2>3, <3>1 DEF t, s
  <2> QED  BY <2>2, <2>4 DEF l, e
<1> QED  BY <1>2, <1>3 DEF ConfigInv

(* A clock of a reset: every rule is forgotten but the one that the word   *)
(* in o_rule_wren commits.                                                 *)
LEMMA ConfigReset ==
  ASSUME PhvP!TypeOK, TypesInv, ConfigInv, ResetClock
  PROVE  ConfigInv'
<1> DEFINE w == WordOf(oRule)
<1>1. /\ info0' = Top!Info0Conf(info0, Top!WordFor(0, w))
      /\ told' = [told EXCEPT !.tables = [k \in Layers |->
           Written(Invalidated(@[k]), Committing(Top!WordFor(k, w)), told.stages[k])]]
      /\ oRule' = oRule
  BY DEF ResetClock, Phv!Reset
<1>2. /\ info0 \in LookupRst /\ (\A k \in Layers : layer[k] \in TopP!LayerRegs)
      /\ WordOf(oRule') = w
  BY <1>1, TopTypes DEF TypesInv
<1>3. /\ told'.info0 = told.info0 /\ told'.stages = told.stages
      /\ told'.tables = [k \in Layers |->
           Written(Invalidated(told.tables[k]), Committing(Top!WordFor(k, w)), told.stages[k])]
  BY <1>1 DEF TypesInv
<1>4. told'.info0 = Top!Info0Conf(info0', Top!WordFor(0, WordOf(oRule')))
  BY <1>1, <1>2, <1>3, SaidTwice DEF ConfigInv
<1> HIDE DEF w
<1>5. ASSUME NEW k \in Layers
      PROVE  LET l == layer'[k]
             IN  /\ told'.stages[k] = Staged(l.stage, Top!WordFor(k, w))
                 /\ \A i \in RuleIds :
                      Shown(told'.tables[k][i]) =
                        Shown(Written(Written(l.table, l.wren, l.stage),
                                      Committing(Top!WordFor(k, w)), told'.stages[k])[i])
  <2> DEFINE l == layer'[k]
             o == layer[k]
             in == InputOf(k, SliceOf(oPhv'), MetaOf(oMeta'))
             e == Committing(Top!WordFor(k, w))
             s == told'.stages[k]
  <2>1. l = TopP!LayerClock(Top!LayerReset(o), in, Top!NoWord)
    BY LayersReset
  <2>2. o.stage \in TypeRule /\ o.table \in Tables /\ Invalidated(o.table) \in Tables
    BY <1>2, RegFields, TopFacts
  <2>3. /\ Top!LayerReset(o).stage = o.stage /\ Top!LayerReset(o).wren = {}
        /\ Top!LayerReset(o).table = Invalidated(o.table)
    BY <1>2, ResetFields
  <2> HIDE DEF l, o, in
  <2>4. /\ l.stage = Staged(Top!LayerReset(o).stage, Top!NoWord)
        /\ l.wren = Committing(Top!NoWord)
        /\ l.table = Written(Top!LayerReset(o).table, Top!LayerReset(o).wren, Top!LayerReset(o).stage)
    BY <2>1, SameRules DEF TopP!LayerClock
  <2>5. l.stage = o.stage /\ l.wren = {} /\ l.table = Invalidated(o.table)
    BY <2>2, <2>3, <2>4, NothingSaid
  <2>6. Written(l.table, l.wren, l.stage) = Invalidated(o.table)
    BY <2>2, <2>5, NothingSaid
  <2>7. s = Staged(l.stage, Top!WordFor(k, w)) /\ s = told.stages[k]
    BY <1>3, <2>5 DEF ConfigInv, w, o
  <2>8. told'.tables[k] = Written(Invalidated(told.tables[k]), e, s)
    BY <1>3, <2>7
  <2> HIDE DEF e, s
  <2>9. ASSUME NEW i \in RuleIds
        PROVE  Shown(Written(Invalidated(told.tables[k]), e, s)[i]) =
                 Shown(Written(Invalidated(o.table), e, s)[i])
    <3>1. told.tables[k] \in Tables
      BY DEF TypesInv
    <3>2. ASSUME NEW t \in Tables PROVE ~Invalidated(t)[i].valid
      <4>1. t[i] \in TypeRule
        BY DEF Tables
      <4>2. Invalidated(t)[i] = [t[i] EXCEPT !.valid = FALSE]
        BY DEF Invalidated
      <4> QED  BY <4>1, <4>2 DEF TypeRule
    <3>3. ~Invalidated(told.tables[k])[i].valid /\ ~Invalidated(o.table)[i].valid
      BY <2>2, <3>1, <3>2
    <3> QED  BY <3>3 DEF Written, Shown
  <2> QED  BY <2>6, <2>7, <2>8, <2>9 DEF l, e, s
<1> QED  BY <1>2, <1>4, <1>5 DEF ConfigInv

(* A word goes to the parser when it is told, and only then.               *)
LEMMA WordTold ==
  ASSUME PhvP!ConfInv
  PROVE  /\ Pause => ~oRule'.valid
         /\ \A t, isConf : HeadWord(t, isConf) => ~oRule'.valid
         /\ \A t, tail : BodyWord(t, tail) =>
              /\ conf /\ whole => oRule'.valid /\ WordOf(oRule') = t.rule
              /\ ~(conf /\ whole) => ~oRule'.valid
<1>1. Pause => ~oRule'.valid
  BY DEF Pause, Phv!Pause, Phv!NoWord
<1>2. ASSUME NEW t, NEW isConf, HeadWord(t, isConf) PROVE ~oRule'.valid
  <2>1. rx = <<>> /\ oRule' = IF tagConf THEN Phv!WordOf(t) ELSE Phv!NoWord
    BY <1>2 DEF HeadWord, Phv!HeadWord
  <2>2. ~tagConf
    BY <2>1 DEF PhvP!ConfInv
  <2> QED  BY <2>1, <2>2 DEF Phv!NoWord
<1>3. ASSUME NEW t, NEW tail, BodyWord(t, tail)
      PROVE  /\ conf /\ whole => oRule'.valid /\ WordOf(oRule') = t.rule
             /\ ~(conf /\ whole) => ~oRule'.valid
  <2>1. rx # <<>> /\ oRule' = IF tagConf THEN Phv!WordOf(t) ELSE Phv!NoWord
    BY <1>3 DEF BodyWord, Phv!BodyWord
  <2>2. tagConf <=> conf /\ whole
    BY <2>1 DEF PhvP!ConfInv
  <2> QED  BY <2>1, <2>2 DEF Phv!NoWord, Phv!WordOf, WordOf
<1> QED  BY <1>1, <1>2, <1>3

LEMMA ConfigStep ==
  ASSUME PhvP!TypeOK, PhvP!TypeOK', PhvP!ConfInv, TypesInv, ConfigInv, [Next]_vars
  PROVE  ConfigInv'
<1>1. TypesInv'
  BY TypesStep
<1>2. CASE Pause
  <2>1. ClockEdge(FALSE, <<>>, <<>>)
    BY ONLY PhvP!TypeOK, TypesInv, <1>2, Edges
  <2>2. ~oRule'.valid /\ told' = told
    BY <1>2, WordTold DEF Pause
  <2> QED  BY <1>1, <2>1, <2>2, ConfigQuiet
<1>3. ASSUME NEW t \in Tokens, NEW isConf \in BOOLEAN, HeadWord(t, isConf)
      PROVE  ConfigInv'
  <2>1. ClockEdge(FALSE, <<>>, <<>>)
    BY ONLY PhvP!TypeOK, TypesInv, <1>3, Edges
  <2>2. ~oRule'.valid /\ told' = told
    BY <1>3, WordTold DEF HeadWord
  <2> QED  BY <1>1, <2>1, <2>2, ConfigQuiet
<1>4. ASSUME NEW t \in Tokens, NEW tail \in BOOLEAN, BodyWord(t, tail)
      PROVE  ConfigInv'
  <2>1. PICK new, more : ClockEdge(conf /\ whole, new, more)
    BY <1>4, Edges
  <2>2. told' = IF conf /\ whole THEN Told(t.rule) ELSE told
    BY <1>4 DEF BodyWord
  <2>3. CASE conf /\ whole
    BY <1>4, <2>1, <2>2, <2>3, WordTold, ConfigWord
  <2>4. CASE ~(conf /\ whole)
    BY <1>1, <1>4, <2>1, <2>2, <2>4, WordTold, ConfigQuiet
  <2> QED  BY <2>3, <2>4
<1>5. CASE ResetClock
  BY <1>5, ConfigReset
<1>6. CASE ResetEnds \/ UNCHANGED vars
  BY <1>6 DEF ResetEnds, vars, phvVars, topVars, history, ConfigInv
<1> QED  BY <1>2, <1>3, <1>4, <1>5, <1>6 DEF Next

LEMMA ConfigInit == Init => ConfigInv
<1> SUFFICES ASSUME Init PROVE ConfigInv
  OBVIOUS
<1>1. PICK c \in Configs :
        /\ info0 = c.info0
        /\ layer = [k \in Layers |-> Top!ZeroLayer(c.tables[k], c.tables[k][RULE_NUM - 1])]
        /\ told = [info0 |-> c.info0, tables |-> c.tables,
                   stages |-> [k \in Layers |-> c.tables[k][RULE_NUM - 1]]]
  BY DEF Init
<1>2. /\ c.info0 \in LookupRst
      /\ \A k \in Layers : c.tables[k] \in Tables /\ c.tables[k][RULE_NUM - 1] \in TypeRule
  <2>1. c \in Conf
    BY TopHolds, SameSets DEF TopP!TopAssumption, Conf, Layers, Tables
  <2>2. RULE_NUM - 1 \in RuleIds
    BY NumAssumption DEF RuleIds
  <2> QED  BY <2>1, <2>2 DEF Conf, Tables
<1>3. WordOf(oRule) = Top!NoWord
  BY DEF Init, Phv!Init, Phv!NoWord, WordOf
<1>4. ASSUME NEW k \in Layers
      PROVE  /\ layer[k].stage = c.tables[k][RULE_NUM - 1] /\ layer[k].wren = {}
             /\ layer[k].table = c.tables[k]
  BY <1>1 DEF Top!ZeroLayer
<1>5. told.info0 = Top!Info0Conf(info0, Top!WordFor(0, WordOf(oRule)))
  BY <1>1, <1>2, <1>3, NothingSaid
<1>6. ASSUME NEW k \in Layers
      PROVE  LET l == layer[k]
                 w == WordOf(oRule)
             IN  /\ told.stages[k] = Staged(l.stage, Top!WordFor(k, w))
                 /\ \A i \in RuleIds :
                      Shown(told.tables[k][i]) =
                        Shown(Written(Written(l.table, l.wren, l.stage),
                                      Committing(Top!WordFor(k, w)), told.stages[k])[i])
  <2> DEFINE t == c.tables[k]
             s == c.tables[k][RULE_NUM - 1]
  <2>1. /\ layer[k].stage = s /\ layer[k].wren = {} /\ layer[k].table = t
        /\ told.stages[k] = s /\ told.tables[k] = t
    BY <1>1, <1>4
  <2>2. t \in Tables /\ s \in TypeRule
    BY <1>2
  <2> HIDE DEF t, s
  <2>3. Written(Written(t, {}, s), {}, s) = t
    BY <2>2, NothingSaid
  <2>4. Staged(s, Top!WordFor(k, WordOf(oRule))) = s
        /\ Committing(Top!WordFor(k, WordOf(oRule))) = {}
    BY <1>3, <2>2, NothingSaid
  <2> QED  BY <2>1, <2>3, <2>4
<1> QED  BY <1>5, <1>6 DEF ConfigInv

-----------------------------------------------------------------------------
(* The packets in line after a clock edge: those that stay, and behind     *)
(* them the one that has become complete.                                  *)
Gone == IF oHead.valid /\ oHead.tail /\ line # <<>> THEN 1 ELSE 0
Stay == Len(line) - Gone

LEMMA LineAfter ==
  ASSUME TypesInv, NEW overtaken \in BOOLEAN, NEW new, NEW more,
         ClockEdge(overtaken, new, more)
  PROVE  /\ Gone \in Nat /\ Stay \in Nat /\ Len(line) = Stay + Gone /\ Len(new) \in {0, 1}
         /\ Len(line') = Stay + Len(new)
         /\ \A j \in 1 .. Stay : /\ Kept(line[j + Gone], line'[j]) /\ line[j + Gone] \in Parcel
                                 /\ overtaken => ~line'[j].quiet
         /\ Len(new) = 1 => line'[Stay + 1] = new[1] /\ more = <<new[1].words>>
         /\ Len(new) = 0 => new = <<>> /\ more = <<>>
<1> DEFINE g == Gone
           m == Stay
           L == Left(overtaken)
<1>1. line \in Seq(Parcel)
  BY DEF TypesInv
<1>2. /\ L \in Seq(Parcel) /\ g \in Nat /\ Len(line) \in Nat /\ g <= Len(line)
      /\ Len(L) = Len(line) - g
      /\ \A i \in 1 .. Len(line) - g : /\ Kept(line[i + g], L[i])
                                       /\ overtaken => ~L[i].quiet
  BY <1>1, LeftIs DEF Gone
<1>3. line' = L \o new /\ m = Len(line) - g
  BY DEF ClockEdge, Stay
<1> HIDE DEF L, g, m
<1>4. Len(L) = m /\ m \in Nat
  BY <1>2, <1>3
<1>5. \A j \in 1 .. m : line[j + g] \in Parcel
  <2>1. \A j \in 1 .. m : j + g \in 1 .. Len(line)
    BY <1>2, <1>3
  <2> QED  BY <1>1, <2>1
<1>6. \A j \in 1 .. m : Kept(line[j + g], L[j]) /\ (overtaken => ~L[j].quiet)
  BY <1>2, <1>3
<1>7. CASE new = <<>> /\ more = <<>>
  <2>1. L \o <<>> = L /\ Len(<<>>) = 0
    BY <1>2
  <2>2. /\ Len(line) = m + g /\ Len(line') = m + Len(new)
    BY <1>2, <1>3, <1>4, <1>7, <2>1
  <2> QED  BY <1>2, <1>3, <1>4, <1>5, <1>6, <1>7, <2>1, <2>2 DEF g, m
<1>8. CASE \E p \in Parcel : new = <<p>> /\ more = <<p.words>>
  <2>1. PICK p \in Parcel : new = <<p>> /\ more = <<p.words>>
    BY <1>8
  <2>2. /\ Len(L \o <<p>>) = m + 1 /\ (L \o <<p>>)[m + 1] = p /\ Len(<<p>>) = 1 /\ <<p>>[1] = p
        /\ \A j \in 1 .. m : (L \o <<p>>)[j] = L[j]
    BY <1>2, <1>4
  <2>3. /\ Len(line) = m + g /\ Len(line') = m + Len(new)
    BY <1>2, <1>3, <1>4, <2>1, <2>2
  <2>4. /\ Len(new) = 1 /\ new[1] = p
        /\ line'[m + 1] = new[1] /\ more = <<new[1].words>>
        /\ \A j \in 1 .. m : line'[j] = L[j]
    BY <1>3, <2>1, <2>2
  <2>5. g \in Nat /\ Len(new) \in {0, 1} /\ ~(Len(new) = 0)
    BY <1>2, <2>4
  <2>6. \A j \in 1 .. m : /\ Kept(line[j + g], line'[j]) /\ line[j + g] \in Parcel
                          /\ overtaken => ~line'[j].quiet
    BY <1>5, <1>6, <2>4
  <2>7. Gone \in Nat /\ Stay \in Nat /\ Len(line) = Stay + Gone /\ Len(line') = Stay + Len(new)
    BY <1>4, <2>3, <2>5 DEF g, m
  <2>8. \A j \in 1 .. Stay : /\ Kept(line[j + Gone], line'[j]) /\ line[j + Gone] \in Parcel
                             /\ overtaken => ~line'[j].quiet
    BY <2>6 DEF g, m
  <2>9. line'[Stay + 1] = new[1] /\ more = <<new[1].words>>
    BY <2>4 DEF m
  <2> QED  BY <2>5, <2>7, <2>8, <2>9
<1> QED  BY <1>7, <1>8 DEF ClockEdge

-----------------------------------------------------------------------------
(* A packet that no configuration word has overtaken has been told what is *)
(* told now, and no word is on its way to a register.                      *)
AsTold(c) == c.info0 = told.info0 /\ c.tables = told.tables
NoneQuiet == \A i \in 1 .. Len(line) : ~line[i].quiet

QuietInv ==
  /\ \A i \in 1 .. Len(line) : line[i].quiet => AsTold(line[i].conf)
  /\ rx # <<>> /\ now.quiet => AsTold(now.conf)
  /\ oRule.valid => NoneQuiet /\ (rx # <<>> => ~now.quiet)
  /\ (\E k \in Layers : layer[k].wren # {}) => NoneQuiet

LEMMA QuietEdge ==
  ASSUME TypesInv, QuietInv, NEW overtaken \in BOOLEAN, NEW new, NEW more,
         ClockEdge(overtaken, new, more),
         told' = told \/ overtaken, oRule'.valid => overtaken,
         Len(new) = 1 /\ new[1].quiet =>
           ~overtaken /\ ~oRule.valid /\ AsTold(new[1].conf)
  PROVE  /\ \A i \in 1 .. Len(line') : line'[i].quiet => AsTold(line[i].conf)'
         /\ oRule'.valid => NoneQuiet'
         /\ (\E k \in Layers : layer'[k].wren # {}) => NoneQuiet'
<1> DEFINE g == Gone
           m == Stay
<1>1. /\ g \in Nat /\ m \in Nat /\ Len(line) = m + g /\ Len(new) \in {0, 1}
      /\ Len(line') = m + Len(new)
      /\ \A j \in 1 .. m : /\ Kept(line[j + g], line'[j]) /\ line[j + g] \in Parcel
                           /\ overtaken => ~line'[j].quiet
      /\ Len(new) = 1 => line'[m + 1] = new[1]
  BY LineAfter
<1> HIDE DEF g, m
<1>2. ASSUME NEW i \in 1 .. Len(line'), line'[i].quiet
      PROVE  ~overtaken /\ ~oRule.valid /\ AsTold(line'[i].conf)
  <2>1. CASE i \in 1 .. m
    <3>1. i + g \in 1 .. Len(line)
      BY <1>1, <2>1
    <3>2. line[i + g].quiet /\ line'[i].conf = line[i + g].conf /\ ~overtaken
      BY <1>1, <1>2, <2>1 DEF Kept
    <3>3. AsTold(line[i + g].conf) /\ ~oRule.valid
      BY <3>1, <3>2 DEF QuietInv, NoneQuiet
    <3> QED  BY <3>2, <3>3
  <2>2. CASE i \notin 1 .. m
    <3>1. Len(new) = 1 /\ i = m + 1
      <4>1. i \in 1 .. m + Len(new)
        BY <1>1
      <4>2. CASE Len(new) = 0
        BY <1>1, <2>2, <4>1, <4>2
      <4>3. CASE Len(new) = 1
        BY <1>1, <2>2, <4>1, <4>3
      <4> QED  BY <1>1, <4>2, <4>3
    <3> QED  BY <1>1, <1>2, <3>1
  <2> QED  BY <2>1, <2>2
<1>3. ASSUME NEW k \in Layers, layer'[k].wren # {} PROVE oRule.valid
  <2> DEFINE w == Top!WordFor(k, WordOf(oRule))
             in == InputOf(k, SliceOf(oPhv), MetaOf(oMeta))
  <2>1. layer'[k] = TopP!LayerClock(layer[k], in, w)
    BY LayersAfter
  <2> HIDE DEF w, in
  <2>2. layer'[k].wren = Committing(w)
    BY <2>1, SameRules DEF TopP!LayerClock
  <2>3. ~oRule.valid => w = Top!NoWord
    BY NothingSaid DEF WordOf, w
  <2> QED  BY <1>3, <2>2, <2>3, NothingSaid
<1>4. ASSUME NEW i \in 1 .. Len(line'), line'[i].quiet PROVE AsTold(line[i].conf)'
  <2>1. told' = told /\ AsTold(line'[i].conf)
    BY <1>2, <1>4
  <2> QED  BY <2>1 DEF AsTold
<1> QED  BY <1>2, <1>3, <1>4 DEF NoneQuiet

LEMMA QuietGap ==
  ASSUME TypesInv, QuietInv, ClockEdge(FALSE, <<>>, <<>>), told' = told, ~oRule'.valid
  PROVE  /\ \A i \in 1 .. Len(line') : line'[i].quiet => AsTold(line[i].conf)'
         /\ (\E k \in Layers : layer'[k].wren # {}) => NoneQuiet'
<1> DEFINE overtaken == FALSE
           new == <<>>
<1>1. overtaken \in BOOLEAN /\ ~overtaken /\ Len(new) = 0 /\ ClockEdge(overtaken, new, <<>>)
  OBVIOUS
<1> HIDE DEF overtaken, new
<1>2. Len(new) # 1
  BY <1>1
<1> QED  BY <1>1, <1>2, QuietEdge

LEMMA QuietStep ==
  ASSUME PhvP!TypeOK, PhvP!ConfInv, TypesInv, IdleInv, QuietInv, [Next]_vars
  PROVE  QuietInv'
<1>1. CASE Pause
  <2>1. ClockEdge(FALSE, <<>>, <<>>)
    BY ONLY PhvP!TypeOK, TypesInv, <1>1, Edges
  <2>2. ~oRule'.valid /\ told' = told /\ now' = now /\ rx' = rx
    BY <1>1, WordTold DEF Pause, Phv!Pause
  <2>4. /\ \A i \in 1 .. Len(line') : line'[i].quiet => AsTold(line[i].conf)'
        /\ (\E k \in Layers : layer'[k].wren # {}) => NoneQuiet'
    BY <2>1, <2>2, QuietGap
  <2> QED  BY <2>2, <2>4 DEF QuietInv, AsTold
<1>2. ASSUME NEW t \in Tokens, NEW isConf \in BOOLEAN, HeadWord(t, isConf)
      PROVE  QuietInv'
  <2>1. ClockEdge(FALSE, <<>>, <<>>)
    BY ONLY PhvP!TypeOK, TypesInv, <1>2, Edges
  <2>2. ~oRule'.valid /\ told' = told
        /\ now' = [conf |-> [info0 |-> told.info0, tables |-> told.tables], quiet |-> TRUE]
    BY <1>2, WordTold DEF HeadWord
  <2>4. /\ \A i \in 1 .. Len(line') : line'[i].quiet => AsTold(line[i].conf)'
        /\ (\E k \in Layers : layer'[k].wren # {}) => NoneQuiet'
    BY <2>1, <2>2, QuietGap
  <2>5. AsTold(now.conf)'
    BY <2>2 DEF AsTold
  <2> QED  BY <2>2, <2>4, <2>5 DEF QuietInv
<1>3. ASSUME NEW t \in Tokens, NEW tail \in BOOLEAN, BodyWord(t, tail)
      PROVE  QuietInv'
  <2> DEFINE isRule == conf /\ whole
             after == IF isRule THEN Disturbed(now) ELSE now
             p == [words |-> Append(rx, t), conf |-> after.conf, quiet |-> after.quiet]
             new == IF tail THEN <<p>> ELSE <<>>
             more == IF tail THEN <<Append(rx, t)>> ELSE <<>>
  <2>1. isRule \in BOOLEAN /\ ClockEdge(isRule, new, more)
    BY <1>3, BodyEdge
  <2>2. /\ rx # <<>> /\ now' = after
        /\ told' = (IF isRule THEN Told(t.rule) ELSE told)
    BY <1>3 DEF BodyWord, Phv!BodyWord
  <2>3. oRule'.valid <=> isRule
    BY <1>3, WordTold
  <2>4. /\ isRule => ~after.quiet
        /\ ~isRule => after = now
    BY DEF TypesInv, Disturbed
  <2>5. p.conf = after.conf /\ p.quiet = after.quiet /\ Len(<<p>>) = 1 /\ <<p>>[1] = p /\ Len(<<>>) = 0
    OBVIOUS
  <2> HIDE DEF isRule, after, p, more
  <2>6. Len(new) = 1 /\ new[1].quiet =>
          ~isRule /\ ~oRule.valid /\ AsTold(new[1].conf)
    BY <2>2, <2>4, <2>5 DEF QuietInv
  <2> HIDE DEF new
  <2>7. /\ \A i \in 1 .. Len(line') : line'[i].quiet => AsTold(line[i].conf)'
        /\ oRule'.valid => NoneQuiet'
        /\ (\E k \in Layers : layer'[k].wren # {}) => NoneQuiet'
    BY <2>1, <2>2, <2>3, <2>6, QuietEdge
  <2>8. now'.quiet => AsTold(now.conf)'
    BY <2>2, <2>4 DEF QuietInv, AsTold
  <2>9. oRule'.valid => ~now'.quiet
    BY <2>2, <2>3, <2>4
  <2> QED  BY <2>7, <2>8, <2>9 DEF QuietInv
<1>4. CASE ResetClock
  <2>1. line' = <<>> /\ rx' = <<>>
    BY <1>4 DEF ResetClock, Phv!Reset
  <2> QED  BY <2>1 DEF QuietInv, NoneQuiet
<1>5. CASE ResetEnds \/ UNCHANGED vars
  BY <1>5 DEF ResetEnds, vars, phvVars, topVars, history, QuietInv, NoneQuiet, AsTold
<1> QED  BY <1>1, <1>2, <1>3, <1>4, <1>5 DEF Next

(* What a lookup finds depends on the valid rules only.                    *)
LEMMA ShownLookup ==
  ASSUME NEW s \in Tables, NEW t \in Tables,
         \A i \in RuleIds : Shown(s[i]) = Shown(t[i]), NEW f
  PROVE  LookupType(s, f) = LookupType(t, f)
<1>1. ASSUME NEW i \in RuleIds
      PROVE  /\ s[i].valid <=> t[i].valid
             /\ s[i].valid => s[i] = t[i]
  <2>1. Shown(s[i]) = Shown(t[i]) /\ NoRule.valid = FALSE
    BY DEF NoRule
  <2>2. s[i].valid \in BOOLEAN /\ t[i].valid \in BOOLEAN
    BY DEF Tables, TypeRule
  <2> QED  BY <2>1, <2>2 DEF Shown
<1>2. HitRules(s, f) = HitRules(t, f)
  BY <1>1 DEF HitRules
<1>3. FirstHit(s, f) = FirstHit(t, f)
  BY <1>2 DEF FirstHit
<1>4. HitRules(s, f) # {} => FirstHit(s, f) \in HitRules(s, f)
  <2> SUFFICES ASSUME HitRules(s, f) # {} PROVE FirstHit(s, f) \in HitRules(s, f)
    OBVIOUS
  <2> DEFINE hits == HitRules(s, f)
  <2>1. hits \subseteq Nat /\ hits # {}
    BY NumAssumption DEF HitRules, RuleIds
  <2> HIDE DEF hits
  <2>2. \E i \in hits : \A k \in hits : i <= k
    BY <2>1, TopP!LeastNumber, WidthAssumption, NumAssumption, DeparserAssumption, TopHolds
  <2> QED  BY <2>2 DEF FirstHit, hits
<1>5. HitRules(s, f) # {} => s[FirstHit(s, f)] = t[FirstHit(t, f)]
  BY <1>1, <1>3, <1>4 DEF HitRules
<1> QED  BY <1>2, <1>5 DEF LookupType

(* So what such a packet was told is what the layers have.                 *)
LEMMA Consistent ==
  ASSUME TypesInv, ConfigInv, QuietInv, NEW i \in 1 .. Len(line), line[i].quiet
  PROVE  /\ line[i].conf.info0 = info0
         /\ \A k \in Layers : \A f :
              LookupType(line[i].conf.tables[k], f) = LookupType(layer[k].table, f)
<1>1. ~oRule.valid /\ AsTold(line[i].conf) /\ \A k \in Layers : layer[k].wren = {}
  BY DEF QuietInv, NoneQuiet
<1>2. WordOf(oRule) = Top!NoWord
  BY <1>1 DEF WordOf
<1>3. info0 \in LookupRst /\ \A k \in Layers : layer[k] \in TopP!LayerRegs
  BY TopTypes DEF TypesInv
<1>4. told.info0 = info0
  BY <1>2, <1>3, NothingSaid DEF ConfigInv
<1>5. ASSUME NEW k \in Layers, NEW f
      PROVE  LookupType(told.tables[k], f) = LookupType(layer[k].table, f)
  <2>1. layer[k].table \in Tables /\ told.tables[k] \in Tables
    BY <1>3, RegFields DEF TypesInv
  <2>2. /\ Committing(Top!WordFor(k, WordOf(oRule))) = {}
        /\ Written(Written(layer[k].table, {}, layer[k].stage), {}, told.stages[k]) = layer[k].table
    BY <1>2, <2>1, NothingSaid
  <2>3. ASSUME NEW n \in RuleIds PROVE Shown(told.tables[k][n]) = Shown(layer[k].table[n])
    <3>1. Shown(told.tables[k][n]) =
            Shown(Written(Written(layer[k].table, layer[k].wren, layer[k].stage),
                          Committing(Top!WordFor(k, WordOf(oRule))), told.stages[k])[n])
      BY DEF ConfigInv
    <3>2. layer[k].wren = {}
      BY <1>1
    <3> QED  BY <2>2, <3>1, <3>2
  <2> QED  BY <2>1, <2>3, ShownLookup
<1> QED  BY <1>1, <1>4, <1>5 DEF AsTold

-----------------------------------------------------------------------------
(* The reference parse: the slices of a packet in line hold its words, and *)
(* the parse follows the packet's headers from layer to layer.             *)
NumSlices(p) == PhvP!NumSlices(p.words)
UnitAt(p, x) == p.words[x \div U + 1].data[x % U]

LEMMA Lengths ==
  ASSUME NEW p \in Parcel
  PROVE  /\ LengthOf(p) \in Nat /\ NumSlices(p) \in Nat
         /\ LengthOf(p) <= TopP!Row(NumSlices(p))
         /\ TopP!Row(NumSlices(p)) \in Nat
<1> DEFINE n == NumSlices(p)
           l == Len(p.words)
           b == PhvP!Base(n)
<1>1. l \in Nat /\ n = PhvP!Slices(l) /\ LengthOf(p) = U * l
  BY DEF Parcel, NumSlices, PhvP!NumSlices, PhvP!Slices, LengthOf, U
<1>2. n \in Nat /\ b \in Nat
  BY <1>1, PhvP!SlicesLemma, PhvP!BaseLemma, GenHolds
<1>3. b < l => n + 1 <= n
  BY <1>1, <1>2, PhvP!SlicesLemma, GenHolds
<1>4. TopP!Row(n) = n * CANDI_NUM /\ b = n * PKT_NUM
  BY DEF TopP!Row, PhvP!Base
<1> HIDE DEF l, n, b
<1>5. b - l \in Nat
  BY <1>1, <1>2, <1>3
<1>6. U \in Nat /\ PKT_NUM \in Nat /\ CANDI_NUM = U * PKT_NUM
  BY UnitsLemma
<1>7. U * b = U * l + U * (b - l) /\ U * (b - l) \in Nat /\ U * l \in Nat
  BY <1>1, <1>2, <1>5, <1>6
<1>8. TopP!Row(n) = U * b
  <2>1. n * (U * PKT_NUM) = U * (n * PKT_NUM)
    BY <1>2, <1>6
  <2> QED  BY <1>4, <1>6, <2>1
<1>9. U * b \in Nat
  BY <1>2, <1>6
<1> QED  BY <1>1, <1>2, <1>7, <1>8, <1>9 DEF n

LEMMA UnitInside ==
  ASSUME NEW p \in Parcel, NEW x \in Nat, x < LengthOf(p)
  PROVE  /\ x \div U + 1 \in 1 .. Len(p.words) /\ x % U \in 0 .. U - 1
         /\ UnitAt(p, x) \in Unit
<1> DEFINE l == Len(p.words)
<1>1. l \in Nat /\ LengthOf(p) = U * l /\ p.words \in Seq(Tokens)
  BY DEF Parcel, LengthOf, U
<1>2. U \in Nat \ {0}
  BY UnitsLemma
<1>3. PICK q \in Nat, r \in 0 .. U - 1 : x = U * q + r
  BY <1>2, DivLemma
<1>4. x \div U = q /\ x % U = r
  BY <1>2, <1>3, DivLemma
<1> HIDE DEF l
<1>5. q < l
  <2> SUFFICES ASSUME q >= l PROVE FALSE
    BY <1>1
  <2>1. U * q = U * l + U * (q - l) /\ U * (q - l) \in Nat
    BY <1>1, <1>2
  <2> QED  BY <1>1, <1>2, <1>3, <2>1
<1>6. q + 1 \in 1 .. l
  BY <1>1, <1>5
<1>7. p.words[q + 1] \in Tokens
  BY <1>1, <1>6 DEF l
<1>8. p.words[q + 1].data[r] \in Unit
  BY <1>3, <1>7, StreamAssumption DEF U, UnitsPerWord
<1> QED  BY <1>3, <1>4, <1>6, <1>8 DEF l, UnitAt

LEMMA SlicesFlat ==
  ASSUME NEW p \in Parcel
  PROVE  /\ SlicesOf(p) \in Seq(Data) /\ Len(SlicesOf(p)) = NumSlices(p)
         /\ \A x \in Nat : x < LengthOf(p) => Flat(SlicesOf(p), x) = UnitAt(p, x)
<1> DEFINE n == NumSlices(p)
           slices == SlicesOf(p)
           E(s, u) == LET i == (s - 1) * CANDI_NUM + u IN IF i < LengthOf(p) THEN UnitAt(p, i) ELSE Zero
<1>1. slices = [s \in 1 .. n |-> [u \in UnitIds |-> E(s, u)]]
  BY SameConstants DEF SlicesOf, UnitAt, U, NumSlices
<1>2. n \in Nat /\ LengthOf(p) \in Nat /\ LengthOf(p) <= TopP!Row(n) /\ TopP!Row(n) \in Nat
  BY Lengths
<1>3. CANDI_NUM \in Nat \ {0} /\ \A u \in UnitIds : u \in Nat
  BY UnitsLemma DEF UnitIds
<1>4. ASSUME NEW s \in 1 .. n, NEW u \in UnitIds PROVE E(s, u) \in Unit
  <2>1. (s - 1) * CANDI_NUM + u \in Nat
    BY <1>2, <1>3
  <2> QED  BY <2>1, UnitInside DEF Zero, Unit, Word
<1>5. slices \in Seq(Data) /\ Len(slices) = n
  <2> HIDE DEF E
  <2>1. slices \in [1 .. n -> Data]
    BY <1>1, <1>4 DEF Data
  <2> HIDE DEF slices
  <2> QED  BY <1>2, <2>1
<1>6. ASSUME NEW x \in Nat, x < LengthOf(p) PROVE Flat(slices, x) = UnitAt(p, x)
  <2>1. PICK k \in Nat, u \in UnitIds : x = TopP!Row(k) + u
    BY TopP!RowOf, SameSets, WidthAssumption, NumAssumption, DeparserAssumption, TopHolds
  <2>2. Flat(slices, x) = IF k < Len(slices) THEN slices[k + 1][u] ELSE Zero
    BY <2>1, TopP!FlatAt, SameSets, SameRow, WidthAssumption, NumAssumption, DeparserAssumption, TopHolds
  <2>3. k < n
    <3>1. n <= k => TopP!Row(n) <= TopP!Row(k)
      BY <1>2, TopP!RowLemma, WidthAssumption, NumAssumption, DeparserAssumption, TopHolds
    <3>2. TopP!Row(k) \in Nat
      BY TopP!RowLemma, WidthAssumption, NumAssumption, DeparserAssumption, TopHolds
    <3> QED  BY <1>2, <1>3, <1>6, <2>1, <3>1, <3>2
  <2>4. k + 1 \in 1 .. n /\ ((k + 1) - 1) * CANDI_NUM + u = x
    BY <1>2, <1>3, <2>1, <2>3 DEF TopP!Row
  <2>5. slices[k + 1][u] = E(k + 1, u)
    BY <1>1, <2>4
  <2>6. E(k + 1, u) = UnitAt(p, x)
    BY <1>6, <2>4
  <2> HIDE DEF slices
  <2> QED  BY <1>5, <2>2, <2>3, <2>5, <2>6
<1> QED  BY <1>5, <1>6

(* What layer k is told of the next header.                                *)
NextInfo(p, infos, k) ==
  LookupType(p.conf.tables[k], ExtractTypes(Window(SlicesOf(p), HeadPos(infos, k)), infos[k]))

LEMMA InfosExist ==
  ASSUME NEW p, NEW N \in Nat
  PROVE  \E f : f = [k \in 0 .. N |->
           IF k = 0 THEN <<p.conf.info0>> ELSE Append(f[k - 1], NextInfo(p, f[k - 1], k))]
<1> DEFINE B == <<p.conf.info0>>
           Next1(s, k) == Append(s, NextInfo(p, s, k))
           To(f, n) == f = [k \in 0 .. n |-> IF k = 0 THEN B ELSE Next1(f[k - 1], k)]
           S == {n \in Nat : \E f : To(f, n)}
<1> HIDE DEF B, Next1
<1>1. 0 \in S
  <2>1. To([k \in 0 .. 0 |-> B], 0)
    OBVIOUS
  <2> QED  BY <2>1
<1>2. ASSUME NEW n \in Nat, n \in S PROVE n + 1 \in S
  <2>1. PICK f : To(f, n)
    BY <1>2
  <2> DEFINE h == [k \in 0 .. n + 1 |-> IF k = n + 1 THEN Next1(f[n], n + 1) ELSE f[k]]
  <2>2. ASSUME NEW k \in 0 .. n + 1
        PROVE  h[k] = IF k = 0 THEN B ELSE Next1(h[k - 1], k)
    <3>1. CASE k = n + 1
      <4>1. k # 0 /\ h[k - 1] = f[n] /\ h[k] = Next1(f[n], n + 1)
        BY <3>1
      <4> QED  BY <3>1, <4>1
    <3>2. CASE k # n + 1
      <4>1. k \in 0 .. n /\ h[k] = f[k] /\ (k # 0 => h[k - 1] = f[k - 1])
        BY <3>2
      <4>2. f[k] = IF k = 0 THEN B ELSE Next1(f[k - 1], k)
        BY <2>1, <4>1
      <4> QED  BY <4>1, <4>2
    <3> QED  BY <3>1, <3>2
  <2> HIDE DEF h
  <2>3. h = [k \in 0 .. n + 1 |-> h[k]]
    BY DEF h
  <2>4. To(h, n + 1)
    BY <2>2, <2>3
  <2> QED  BY <2>4
<1> HIDE DEF S
<1>3. N \in S
  BY <1>1, <1>2, TopP!InductionOnSets, WidthAssumption, NumAssumption, DeparserAssumption, TopHolds
<1> QED  BY <1>3 DEF S, B, Next1

LEMMA InfosLemma ==
  ASSUME NEW p \in Parcel
  PROVE  /\ InfosOf(p) \in Seq(LookupRst) /\ Len(InfosOf(p)) = NUM_LAYER + 1
         /\ InfosOf(p)[1] = p.conf.info0
         /\ \A k \in Layers : InfosOf(p)[k + 1] = NextInfo(p, InfosOf(p), k)
<1> DEFINE N == NUM_LAYER
           Sum(f) == f = [k \in 0 .. N |->
             IF k = 0 THEN <<p.conf.info0>> ELSE Append(f[k - 1], NextInfo(p, f[k - 1], k))]
           to == CHOOSE f : Sum(f)
<1>0. N \in Nat /\ \A k : k \in Layers <=> k \in 1 .. N
  BY LayerNumber DEF Layers
<1>1. Sum(to)
  BY <1>0, InfosExist
<1>2. InfosOf(p) = to[N]
  BY DEF InfosOf, NextInfo
<1>3. /\ p.conf.info0 \in LookupRst
      /\ \A k \in 1 .. N : p.conf.tables[k] \in Tables
  BY <1>0 DEF Parcel, Conf
<1>4. \A s, k : k \in 1 .. N => NextInfo(p, s, k) \in LookupRst
  BY <1>3, TopFacts DEF NextInfo
<1> HIDE DEF to
<1>5. /\ to[0] = <<p.conf.info0>>
      /\ \A n \in Nat : n + 1 <= N => to[n + 1] = Append(to[n], NextInfo(p, to[n], n + 1))
  <2>1. \A k \in 0 .. N : to[k] = IF k = 0 THEN <<p.conf.info0>>
                                  ELSE Append(to[k - 1], NextInfo(p, to[k - 1], k))
    BY <1>1
  <2>2. ASSUME NEW n \in Nat, n + 1 <= N
        PROVE  to[n + 1] = Append(to[n], NextInfo(p, to[n], n + 1))
    <3>1. n + 1 \in 0 .. N /\ n + 1 # 0 /\ (n + 1) - 1 = n
      BY <1>0, <2>2
    <3>2. to[n + 1] = Append(to[(n + 1) - 1], NextInfo(p, to[(n + 1) - 1], n + 1))
      BY <2>1, <3>1
    <3> QED  BY <3>1, <3>2
  <2> QED  BY <1>0, <2>1, <2>2
<1> HIDE DEF N, Sum
<1> DEFINE Good(n) == /\ to[n] \in Seq(LookupRst) /\ Len(to[n]) = n + 1
                      /\ to[n][1] = p.conf.info0
                      /\ \A k \in 1 .. n : to[n][k + 1] = NextInfo(p, to[n], k)
           S == {n \in Nat : n <= N => Good(n)}
<1>6. 0 \in S
  <2>1. /\ to[0] \in Seq(LookupRst) /\ Len(to[0]) = 1 /\ to[0][1] = p.conf.info0
    BY <1>3, <1>5
  <2>2. 0 + 1 = 1 /\ \A k : k \notin 1 .. 0
    OBVIOUS
  <2>3. Good(0)
    BY <2>1, <2>2
  <2> QED  BY <2>3
<1>7. ASSUME NEW n \in Nat, n \in S PROVE n + 1 \in S
  <2> SUFFICES ASSUME n + 1 <= N PROVE Good(n + 1)
    OBVIOUS
  <2> DEFINE a == to[n]
             r == NextInfo(p, to[n], n + 1)
             c == to[n + 1]
  <2>1. Good(n)
    BY <1>0, <1>7
  <2>2. a \in Seq(LookupRst) /\ Len(a) = n + 1 /\ r \in LookupRst /\ c = Append(a, r)
    BY <1>0, <1>4, <1>5, <2>1
  <2> HIDE DEF c, r
  <2>3. /\ c \in Seq(LookupRst) /\ Len(c) = (n + 1) + 1 /\ c[(n + 1) + 1] = r
        /\ \A i \in 1 .. n + 1 : c[i] = a[i]
    BY <2>2
  <2>4. \A k \in 1 .. (n + 1) + 1 : HeadPos(c, k) = HeadPos(a, k)
    <3>1. \A x \in Seq(LookupRst), y \in Seq(LookupRst) :
            Len(x) <= Len(y) /\ (\A i \in 1 .. Len(x) : y[i] = x[i]) =>
              \A k \in 1 .. Len(x) + 1 : HeadPos(y, k) = HeadPos(x, k)
      BY TopP!PositionsKept, SameSets, SameRow, WidthAssumption, NumAssumption, DeparserAssumption, TopHolds
    <3>2. Len(a) <= Len(c)
      BY <2>2, <2>3
    <3> QED  BY <2>2, <2>3, <3>1, <3>2
  <2>5. ASSUME NEW k \in 1 .. n + 1 PROVE c[k + 1] = NextInfo(p, c, k)
    <3>1. NextInfo(p, c, k) = NextInfo(p, a, k)
      <4>1. HeadPos(c, k) = HeadPos(a, k) /\ c[k] = a[k]
        BY <2>3, <2>4
      <4> QED  BY <4>1 DEF NextInfo
    <3>2. CASE k = n + 1
      BY <2>3, <3>1, <3>2 DEF r
    <3>3. CASE k # n + 1
      <4>1. k \in 1 .. n /\ k + 1 \in 1 .. n + 1
        BY <3>3
      <4> QED  BY <2>1, <2>3, <3>1, <4>1
    <3> QED  BY <3>2, <3>3
  <2>6. c[1] = p.conf.info0
    <3>1. a[1] = p.conf.info0 /\ 1 \in 1 .. n + 1
      BY <2>1
    <3> QED  BY <2>3, <3>1
  <2> HIDE DEF a
  <2> QED  BY <2>3, <2>5, <2>6 DEF c
<1> HIDE DEF S
<1>8. N \in S
  BY <1>0, <1>6, <1>7, TopP!InductionOnSets, WidthAssumption, NumAssumption, DeparserAssumption, TopHolds
<1>9. Good(N)
  BY <1>0, <1>8 DEF S
<1> QED  BY <1>0, <1>2, <1>9 DEF N

(* A window into a packet as far as the packet reaches.                    *)
LEMMA WindowUnit ==
  ASSUME NEW q, NEW n \in Nat, NEW u \in UnitIds
  PROVE  Window(q, n)[u] = Flat(q, n + u)
BY DEF Window

-----------------------------------------------------------------------------
(* The packets between the input of Parser_Top and its output: those that  *)
(* are sent whole and, behind them, the one that is being sent.            *)
T == TopP!Latency * NUM_LAYER
Bit(b) == IF b THEN 1 ELSE 0
Leaving == Bit(oHead.valid /\ oHead.tail)
WholeOf(fl, sent) == IF sent = 0 THEN Len(fl) ELSE Len(fl) - 1
Whole(fl) == WholeOf(fl, got)

GrowingTo(fl, sent) ==
  sent > 0 => /\ Len(fl) > 0
              /\ fl[Len(fl)].age = sent /\ Len(fl[Len(fl)].slices) = sent
Growing(fl) == GrowingTo(fl, got)

LEMMA PacketParts ==
  ASSUME NEW p, TopP!PacketOK(p)
  PROVE  /\ p.slices \in Seq(Data) /\ p.age \in Nat /\ p.infos \in Seq(LookupRst)
         /\ Len(p.slices) \in Nat /\ Len(p.infos) \in Nat
         /\ 1 <= Len(p.slices) /\ Len(p.slices) <= p.age /\ 1 <= Len(p.infos)
         /\ \A k \in Layers : p.age = TopP!LookupAge(k) => Len(p.infos) = k
<1>1. /\ p.slices \in Seq(Data) /\ p.age \in Nat /\ p.infos \in Seq(LookupRst)
      /\ Len(p.slices) \in Nat /\ Len(p.infos) \in Nat
      /\ 1 <= Len(p.slices) /\ Len(p.slices) <= p.age /\ 1 <= Len(p.infos)
      /\ \A k \in Layers : p.age >= TopP!LookupAge(k) => k <= Len(p.infos)
  BY TopP!PacketFacts, SameSets, WidthAssumption, NumAssumption, DeparserAssumption, TopHolds
<1>2. ASSUME NEW k \in Layers, p.age = TopP!LookupAge(k) PROVE Len(p.infos) = k
  <2>1. k \in Nat
    BY LayerNumber DEF Layers
  <2>2. k <= Len(p.infos)
    BY <1>1, <1>2
  <2>3. TopP!LookupAge(k) < p.age <=> k + 1 <= Len(p.infos)
    BY SameSets DEF TopP!PacketOK
  <2>4. ~(k + 1 <= Len(p.infos))
    BY <1>1, <1>2, <2>3
  <2> QED  BY <1>1, <2>1, <2>2, <2>4
<1> QED  BY <1>1, <1>2

LEMMA FlightParts ==
  ASSUME NEW fl, TopP!HeadsOf(layer, fl)
  PROVE  /\ fl \in Seq(TopP!Packet) /\ Len(fl) \in Nat
         /\ \A i \in 1 .. Len(fl) : /\ TopP!PacketOK(fl[i])
                                    /\ fl[i].age < T + Len(fl[i].slices)
         /\ \A i, j \in 1 .. Len(fl) : i < j => fl[i].age > fl[j].age + Len(fl[i].slices)
         /\ T \in Nat /\ T > 2
<1>1. TopP!FlightOK(fl)
  BY DEF TopP!HeadsOf
<1>2. T \in Nat /\ T > 2
  BY LayerNumber DEF T, TopP!Latency
<1> QED  BY <1>1, <1>2 DEF TopP!FlightOK, T

(* Only the oldest packet is at the output.                                *)
LEMMA OutputIs ==
  ASSUME NEW fl, TopP!HeadsOf(layer, fl)
  PROVE  /\ oHead.valid <=> Len(fl) > 0 /\ fl[1].age >= T
         /\ oHead.valid =>
              /\ oHead.start <=> fl[1].age = T
              /\ oHead.tail <=> fl[1].age - T = Len(fl[1].slices) - 1
              /\ oHead.data = Window(fl[1].slices, HeadPos(fl[1].infos, NUM_LAYER + 1)
                                                     + TopP!Row(fl[1].age - T))
<1>1. /\ Len(fl) \in Nat
      /\ \A i \in 1 .. Len(fl) : /\ TopP!PacketOK(fl[i])
                                 /\ fl[i].age < T + Len(fl[i].slices)
      /\ \A i, j \in 1 .. Len(fl) : i < j => fl[i].age > fl[j].age + Len(fl[i].slices)
      /\ T \in Nat /\ T > 2
  BY FlightParts
<1>2. TopP!SliceOf(oHead, T, NUM_LAYER + 1, fl)
  <2>1. TopP!LookupAge(NUM_LAYER) + 2 = T
    BY TopP!LayerAges, WidthAssumption, NumAssumption, DeparserAssumption, TopHolds DEF T
  <2> QED  BY <2>1, FirstLayer, SameSets DEF TopP!HeadsOf, TopP!LayerHolds, oHead
<1>3. ASSUME NEW i \in 1 .. Len(fl)
      PROVE  /\ TopP!Came(fl[i], T) <=> fl[i].age >= T
             /\ i # 1 => fl[i].age < T
             /\ fl[i].age \in Nat
  <2>1. TopP!PacketOK(fl[i]) /\ fl[i].age < T + Len(fl[i].slices)
        /\ 1 \in 1 .. Len(fl) /\ TopP!PacketOK(fl[1]) /\ fl[1].age < T + Len(fl[1].slices)
    BY <1>1
  <2>2. /\ fl[i].age \in Nat /\ Len(fl[i].slices) \in Nat
        /\ fl[1].age \in Nat /\ Len(fl[1].slices) \in Nat
    BY <2>1, PacketParts
  <2>3. TopP!Came(fl[i], T) <=> fl[i].age >= T
    BY <1>1, <2>1, <2>2 DEF TopP!Came
  <2>4. ASSUME i # 1 PROVE fl[i].age < T
    <3>1. 1 < i
      BY <2>4
    <3>2. fl[1].age > fl[i].age + Len(fl[1].slices)
      BY <1>1, <2>1, <3>1
    <3> QED  BY <1>1, <2>1, <2>2, <3>2
  <2> QED  BY <2>2, <2>3, <2>4
<1>4. oHead.valid <=> Len(fl) > 0 /\ fl[1].age >= T
  <2>1. oHead.valid <=> \E i \in 1 .. Len(fl) : TopP!Came(fl[i], T)
    BY <1>2 DEF TopP!SliceOf
  <2>2. ASSUME NEW i \in 1 .. Len(fl), fl[i].age >= T PROVE i = 1 /\ Len(fl) > 0
    BY <1>1, <1>3, <2>2
  <2>3. Len(fl) > 0 => 1 \in 1 .. Len(fl)
    BY <1>1
  <2> QED  BY <1>3, <2>1, <2>2, <2>3
<1>5. ASSUME oHead.valid
      PROVE  /\ oHead.start <=> fl[1].age = T
             /\ oHead.tail <=> fl[1].age - T = Len(fl[1].slices) - 1
             /\ oHead.data = Window(fl[1].slices, HeadPos(fl[1].infos, NUM_LAYER + 1)
                                                    + TopP!Row(fl[1].age - T))
  <2>1. 1 \in 1 .. Len(fl) /\ TopP!Came(fl[1], T)
    BY <1>1, <1>3, <1>4, <1>5
  <2>2. /\ oHead.start <=> fl[1].age = T
        /\ oHead.tail <=> fl[1].age - T = Len(fl[1].slices) - 1
        /\ oHead.data = TopP!Window(fl[1].slices, TopP!Place(fl[1], T, NUM_LAYER + 1))
    BY <1>1, <1>2, <2>1 DEF TopP!SliceOf
  <2> QED  BY <2>2, SameRow DEF TopP!Place
<1> QED  BY <1>4, <1>5

(* The packets one clock older, without the one that has left.             *)
LEMMA FlownLemma ==
  ASSUME NEW fl, TopP!HeadsOf(layer, fl), Growing(fl), got \in Nat, NEW d \in Data,
         NEW more, more = IF got = 0 THEN <<>> ELSE <<d>>
  PROVE  /\ Leaving \in Nat /\ Leaving <= Whole(fl) /\ Whole(fl) \in Nat
         /\ Len(TopP!Flown(fl, more)) = Len(fl) - Leaving
         /\ \A j \in 1 .. Len(fl) - Leaving :
              TopP!Flown(fl, more)[j] =
                TopP!Aged(fl[j + Leaving], IF j + Leaving = Len(fl) THEN more ELSE <<>>)
         /\ \E S : TopP!Flown(fl, more) \in Seq(S)
<1> DEFINE n == Len(fl)
           M(i) == TopP!More(fl, more, i)
           g == Leaving
<1>1. /\ fl \in Seq(TopP!Packet) /\ n \in Nat
      /\ \A i \in 1 .. n : TopP!PacketOK(fl[i]) /\ fl[i].age < T + Len(fl[i].slices)
      /\ T \in Nat /\ T > 2
  BY FlightParts
<1>2. /\ TopP!Leaves(fl, more) \in Nat /\ TopP!Leaves(fl, more) <= n
      /\ \E S : TopP!Flown(fl, more) \in Seq(S)
      /\ Len(TopP!Flown(fl, more)) = n - TopP!Leaves(fl, more)
      /\ \A j \in 1 .. n - TopP!Leaves(fl, more) :
           TopP!Flown(fl, more)[j] =
             TopP!Aged(fl[j + TopP!Leaves(fl, more)], M(j + TopP!Leaves(fl, more)))
  BY <1>1, TopP!FlownParts, WidthAssumption, NumAssumption, DeparserAssumption, TopHolds
<1>3. \A i \in 1 .. n : M(i) = IF i = n THEN more ELSE <<>>
  BY DEF TopP!More
<1>4. n > 0 => /\ fl[1].age \in Nat /\ fl[1].slices \in Seq(Data) /\ Len(fl[1].slices) \in Nat
               /\ 1 <= Len(fl[1].slices) /\ fl[1].age < T + Len(fl[1].slices)
  <2>1. n > 0 => 1 \in 1 .. n
    BY <1>1
  <2> QED  BY <1>1, <2>1, PacketParts
<1> DEFINE l1 == Len(fl[1].slices)
           l2 == Len(fl[1].slices \o M(1))
           a1 == fl[1].age
           G == got
<1>5. n > 0 => (n = 1 /\ G > 0 => l2 = l1 + 1) /\ (~(n = 1 /\ G > 0) => l2 = l1)
  <2>1. \A s \in Seq(Data) : Len(s \o <<d>>) = Len(s) + 1 /\ s \o <<>> = s
    OBVIOUS
  <2>2. n > 0 /\ n = 1 /\ G > 0 => M(1) = <<d>>
    BY <1>3
  <2>3. n > 0 /\ ~(n = 1 /\ G > 0) => M(1) = <<>>
    <3>1. n > 0 => 1 \in 1 .. n
      BY <1>1
    <3> HIDE DEF n, M
    <3> QED  BY <1>3, <3>1
  <2> HIDE DEF n, M
  <2> QED  BY <1>4, <2>1, <2>2, <2>3
<1>6. (oHead.valid /\ oHead.tail) <=> n > 0 /\ a1 - T = l1 - 1
  <2>1. /\ oHead.valid <=> n > 0 /\ fl[1].age >= T
        /\ oHead.valid => (oHead.tail <=> fl[1].age - T = Len(fl[1].slices) - 1)
    BY OutputIs
  <2> QED  BY <1>1, <1>4, <2>1
<1>7. n = 1 /\ G > 0 => a1 = G /\ l1 = G
  BY DEF Growing, GrowingTo
<1>8. TopP!Leaves(fl, more) = 1 <=> n > 0 /\ a1 + 1 >= T + l2
  <2>1. TopP!Leaves(fl, more) = 1 <=> TopP!Ends(fl, more)
    BY DEF TopP!Leaves
  <2> QED  BY <2>1 DEF TopP!Ends, T
<1>9. TopP!Leaves(fl, more) \in {0, 1} /\ g \in {0, 1} /\ (g = 1 <=> oHead.valid /\ oHead.tail)
  BY DEF TopP!Leaves, Leaving, Bit
<1>10. G > 0 => n > 0
  BY DEF Growing, GrowingTo
<1>11. Whole(fl) = IF G = 0 THEN n ELSE n - 1
  BY DEF Whole, WholeOf
<1>12. n > 0 => a1 \in Nat /\ l1 \in Nat /\ 1 <= l1 /\ a1 < T + l1
  BY <1>4
<1>13. G \in Nat /\ n \in Nat /\ T \in Nat /\ T > 2
  BY <1>1
<1> HIDE DEF n, l1, l2, a1, G, g, M
<1>14. g = TopP!Leaves(fl, more) /\ (g = 1 /\ G > 0 => n > 1)
  <2>1. CASE n = 1 /\ G > 0
    BY <1>5, <1>6, <1>7, <1>8, <1>9, <1>12, <1>13, <2>1
  <2>2. CASE ~(n = 1 /\ G > 0) /\ n > 0
    <3>1. l2 = l1 /\ a1 \in Nat /\ l1 \in Nat /\ 1 <= l1
      BY <1>5, <1>12, <2>2
    <3>2. a1 - T = l1 - 1 <=> a1 + 1 >= T + l2
      <4>1. a1 < T + l1 /\ T \in Nat
        BY <1>12, <1>13, <2>2
      <4> HIDE DEF T
      <4> QED  BY ONLY <3>1, <4>1
    <3>3. G > 0 => n > 1
      BY <1>13, <2>2
    <3> QED  BY <1>6, <1>8, <1>9, <2>2, <3>2, <3>3
  <2>3. CASE ~(n > 0)
    BY <1>6, <1>8, <1>9, <1>10, <1>13, <2>3
  <2> QED  BY <2>1, <2>2, <2>3
<1>15. g \in Nat /\ g <= Whole(fl) /\ Whole(fl) \in Nat
  BY <1>6, <1>9, <1>10, <1>11, <1>13, <1>14
<1>16. \A j \in 1 .. n - g : j + g \in 1 .. n
  BY <1>13, <1>9
<1>17. \A j \in 1 .. n - g : TopP!Flown(fl, more)[j] = TopP!Aged(fl[j + g], IF j + g = n THEN more ELSE <<>>)
  BY <1>2, <1>3, <1>14, <1>16
<1> QED  BY <1>2, <1>14, <1>15, <1>17 DEF n, g

(* What a clock edge does to them: those that are sent whole grow older,   *)
(* and the slice that is sent begins a packet or goes to the one that is   *)
(* being sent.                                                             *)
Follows(fl, fl2) ==
  LET d == SliceOf(oPhv).data
  IN  /\ Len(fl2) = (Whole(fl) - Leaving) + Bit(oPhv.valid)
      /\ \A j \in 1 .. Whole(fl) - Leaving : fl2[j] = TopP!Aged(fl[j + Leaving], <<>>)
      /\ oPhv.valid /\ got = 0 =>
           fl2[Len(fl2)] = [slices |-> <<d>>, age |-> 1, infos |-> <<info0>>]
      /\ oPhv.valid /\ got > 0 =>
           fl2[Len(fl2)] = TopP!Aged(fl[Len(fl)], <<d>>)

LEMMA EmptySlice == SliceOf(PhvP!NoSlice).data = ZeroData
BY UnitsLemma DEF SliceOf, PhvP!NoSlice, UnitOf, ZeroData, U

LEMMA FlightStep ==
  ASSUME PhvP!TypeOK, TypesInv, PhvP!FlagsInv, PhvP!PacketsInOrder, LinkInv,
         NEW overtaken, NEW new, NEW more, ClockEdge(overtaken, new, more),
         NEW fl, TopP!HeadsOf(layer, fl), TopP!MetasOf(layer, fl), Growing(fl)
  PROVE  \E fl2 : TopP!HeadsOf(layer', fl2) /\ TopP!MetasOf(layer', fl2) /\ Follows(fl, fl2)
<1> DEFINE h == SliceOf(oPhv)
           m == MetaOf(oMeta)
           w == WordOf(oRule)
           d == h.data
<1>1. h \in TopP!Slice /\ m \in TopP!Slice /\ w \in TopP!ConfWord \cup {TopP!NoWord}
  BY WiresType, SameSets
<1>2. TopP!Clock(h, m, w) /\ TopP!TypeOK /\ ~resetting
  BY DEF ClockEdge, TypesInv
<1>3. /\ h.valid = oPhv.valid /\ h.start = oPhv.start /\ h.tail = oPhv.tail
      /\ oPhv \in PhvP!PhvSlice /\ oMeta \in BOOLEAN /\ got \in Nat
  BY DEF SliceOf, PhvP!TypeOK
<1>4. m = IF oMeta THEN TopP!EmptyMeta ELSE TopP!ZeroSlice
  BY SameSets DEF MetaOf
<1>5. /\ got > 0 <=> TopP!LastIn.valid /\ ~TopP!LastIn.tail
      /\ TopP!LastIn.valid /\ TopP!LastIn.tail => oPhv = PhvP!NoSlice
      /\ got > 0 => oPhv.valid
  BY <1>2 DEF LinkInv, TopP!LastIn
<1>6. d \in Data
  BY <1>1, SameSets DEF Slice
<1>7. /\ ~oPhv.valid => ~oPhv.start /\ ~oPhv.tail /\ ~oMeta
      /\ oPhv.valid => (oPhv.start <=> got = 0) /\ (oMeta <=> got = 0)
  BY DEF PhvP!FlagsInv, PhvP!PacketsInOrder
<1> HIDE DEF h, m, w
<1>8. ASSUME NEW fl2, TopP!Arrives(h, m, w, fl, fl2)
      PROVE  TopP!HeadsOf(layer', fl2) /\ TopP!MetasOf(layer', fl2)
  <2>1. TopP!HeadsOf(layer', fl2)
    BY ONLY <1>1, <1>2, <1>8, TopP!HeadsOf(layer, fl), TopP!ClockStep, WidthAssumption, NumAssumption, DeparserAssumption, TopHolds
  <2>2. TopP!MetasOf(layer', fl2)
    BY ONLY <1>1, <1>2, <1>8, TopP!HeadsOf(layer, fl), TopP!MetasOf(layer, fl), TopP!MetaClockStep, WidthAssumption, NumAssumption, DeparserAssumption, TopHolds
  <2> QED  BY <2>1, <2>2
<1>9. CASE ~oPhv.valid
  <2> DEFINE fl2 == TopP!Flown(fl, <<>>)
             e == <<>>
  <2>1. got = 0 /\ ~h.valid /\ ~h.start /\ ~h.tail /\ m = TopP!ZeroSlice
    BY <1>3, <1>4, <1>5, <1>7, <1>9
  <2>2. TopP!LastIn.valid => TopP!LastIn.tail /\ h.data = TopP!ZeroData
    BY <1>5, <2>1, EmptySlice, SameSets DEF h
  <2>3. TopP!Clock(h, TopP!ZeroSlice, w)
    BY <1>2, <2>1
  <2>4. TopP!Arrives(h, TopP!ZeroSlice, w, fl, fl2)
    BY ONLY <1>1, <1>2, <2>1, <2>2, <2>3, TopP!HeadsOf(layer, fl), TopP!GapArrives, WidthAssumption, NumAssumption, DeparserAssumption, TopHolds
  <2>5. /\ Leaving \in Nat /\ Leaving <= Whole(fl) /\ Whole(fl) \in Nat
        /\ Len(fl2) = Len(fl) - Leaving
        /\ \A j \in 1 .. Len(fl) - Leaving :
             fl2[j] = TopP!Aged(fl[j + Leaving], IF j + Leaving = Len(fl) THEN e ELSE <<>>)
    <3>1. e = IF got = 0 THEN <<>> ELSE <<d>>
      BY <2>1
    <3>2. fl2 = TopP!Flown(fl, e)
      OBVIOUS
    <3> HIDE DEF e, fl2
    <3> QED  BY ONLY <1>3, <1>6, <3>1, <3>2, FlownLemma, Growing(fl), TopP!HeadsOf(layer, fl)
  <2>6. Whole(fl) = Len(fl)
    BY <2>1 DEF Whole, WholeOf
  <2>7. Follows(fl, fl2)
    <3> HIDE DEF fl2
    <3> QED  BY <1>9, <2>5, <2>6 DEF Follows, Bit
  <2> QED  BY <1>8, <2>1, <2>4, <2>7
<1>10. CASE oPhv.valid /\ got = 0
  <2> DEFINE p == [slices |-> <<d>>, age |-> 1, infos |-> <<info0>>]
             fl1 == TopP!Flown(fl, <<>>)
             fl2 == Append(fl1, p)
             e == <<>>
  <2>1. h.valid /\ h.start /\ m = TopP!EmptyMeta
    BY <1>3, <1>4, <1>7, <1>10
  <2>2. ~TopP!LastIn.valid
    <3>1. TopP!LastIn.valid => ~oPhv.valid
      BY <1>5, <1>10 DEF PhvP!NoSlice
    <3> QED  BY <1>10, <3>1
  <2>3. TopP!Clock(h, TopP!EmptyMeta, w)
    BY <1>2, <2>1
  <2>4. TopP!Arrives(h, TopP!EmptyMeta, w, fl, fl2)
    BY ONLY <1>1, <1>2, <2>1, <2>2, <2>3, TopP!HeadsOf(layer, fl), TopP!StartArrives, WidthAssumption, NumAssumption, DeparserAssumption, TopHolds
  <2>5. /\ Leaving \in Nat /\ Leaving <= Whole(fl) /\ Whole(fl) \in Nat
        /\ Len(fl1) = Len(fl) - Leaving
        /\ \A j \in 1 .. Len(fl) - Leaving :
             fl1[j] = TopP!Aged(fl[j + Leaving], IF j + Leaving = Len(fl) THEN e ELSE <<>>)
        /\ \E S : fl1 \in Seq(S)
    <3>1. e = IF got = 0 THEN <<>> ELSE <<d>>
      BY <1>10
    <3>2. fl1 = TopP!Flown(fl, e)
      OBVIOUS
    <3> HIDE DEF e, fl1
    <3> QED  BY ONLY <1>3, <1>6, <3>1, <3>2, FlownLemma, Growing(fl), TopP!HeadsOf(layer, fl)
  <2>6. Whole(fl) = Len(fl)
    BY <1>10 DEF Whole, WholeOf
  <2>7. Len(fl2) = Len(fl1) + 1 /\ fl2[Len(fl1) + 1] = p /\ \A j \in 1 .. Len(fl1) : fl2[j] = fl1[j]
    <3> HIDE DEF fl1, p
    <3> QED  BY <2>5
  <2>8. Follows(fl, fl2)
    <3>1. p = [slices |-> <<SliceOf(oPhv).data>>, age |-> 1, infos |-> <<info0>>]
      BY DEF h
    <3> HIDE DEF fl2, fl1, p
    <3> QED  BY <1>10, <2>5, <2>6, <2>7, <3>1 DEF Follows, Bit
  <2> QED  BY <1>8, <2>1, <2>4, <2>8
<1>11. CASE oPhv.valid /\ got > 0
  <2> DEFINE e == <<d>>
             fl2 == TopP!Flown(fl, e)
  <2>1. h.valid /\ ~h.start /\ m = TopP!ZeroSlice
    BY <1>3, <1>4, <1>7, <1>11
  <2>2. TopP!LastIn.valid /\ ~TopP!LastIn.tail
    BY <1>5, <1>11
  <2>3. TopP!Clock(h, TopP!ZeroSlice, w)
    BY <1>2, <2>1
  <2>4. TopP!Arrives(h, TopP!ZeroSlice, w, fl, fl2)
    BY ONLY <1>1, <1>2, <2>1, <2>2, <2>3, TopP!HeadsOf(layer, fl), TopP!NextArrives, WidthAssumption, NumAssumption, DeparserAssumption, TopHolds
  <2>5. /\ Leaving \in Nat /\ Leaving <= Whole(fl) /\ Whole(fl) \in Nat
        /\ Len(fl2) = Len(fl) - Leaving
        /\ \A j \in 1 .. Len(fl) - Leaving :
             fl2[j] = TopP!Aged(fl[j + Leaving], IF j + Leaving = Len(fl) THEN e ELSE <<>>)
    <3>1. e = IF got = 0 THEN <<>> ELSE <<d>>
      BY <1>11
    <3>2. fl2 = TopP!Flown(fl, e)
      OBVIOUS
    <3> HIDE DEF e, fl2
    <3> QED  BY ONLY <1>3, <1>6, <3>1, <3>2, FlownLemma, Growing(fl), TopP!HeadsOf(layer, fl)
  <2>6. Whole(fl) = Len(fl) - 1 /\ Len(fl) \in Nat
    BY <1>11, FlightParts DEF Whole, WholeOf
  <2>7. Follows(fl, fl2)
    <3>1. e = <<SliceOf(oPhv).data>>
      BY DEF h
    <3>2. Len(fl2) = (Whole(fl) - Leaving) + Bit(oPhv.valid)
      BY <1>11, <2>5, <2>6 DEF Bit
    <3>3. ASSUME NEW j \in 1 .. Whole(fl) - Leaving
          PROVE  fl2[j] = TopP!Aged(fl[j + Leaving], <<>>)
      <4>1. j \in 1 .. Len(fl) - Leaving /\ j + Leaving # Len(fl)
        BY <2>5, <2>6
      <4> HIDE DEF fl2
      <4> QED  BY <2>5, <4>1
    <3>4. fl2[Len(fl2)] = TopP!Aged(fl[Len(fl)], e)
      <4>1. Len(fl2) \in 1 .. Len(fl) - Leaving /\ Len(fl2) + Leaving = Len(fl)
        BY <2>5, <2>6
      <4> HIDE DEF fl2, e
      <4> QED  BY <2>5, <4>1
    <3>5. ~(got = 0)
      BY <1>11
    <3> HIDE DEF fl2
    <3> QED  BY <1>11, <3>1, <3>2, <3>3, <3>4, <3>5 DEF Follows
  <2> QED  BY <1>8, <2>1, <2>4, <2>7
<1> QED  BY <1>3, <1>9, <1>10, <1>11

-----------------------------------------------------------------------------
(* The reference parse depends on the words of a packet and on what it was *)
(* told.                                                                   *)
SlicesFrom(w) ==
  [s \in 1 .. Phv!NumSlices(w) |-> [u \in UnitIds |->
     LET i == (s - 1) * CANDI_NUM + u
     IN  IF i < UnitsPerWord * Len(w) THEN w[i \div UnitsPerWord + 1].data[i % UnitsPerWord] ELSE Zero]]

InfosFrom(w, c) ==
  LET slices == SlicesFrom(w)
      Behind(infos, k) ==
        Append(infos, LookupType(c.tables[k],
                        ExtractTypes(Window(slices, HeadPos(infos, k)), infos[k])))
      infosTo[k \in 0 .. NUM_LAYER] ==
        IF k = 0 THEN <<c.info0>> ELSE Behind(infosTo[k - 1], k)
  IN  infosTo[NUM_LAYER]

LEMMA FromParts ==
  ASSUME NEW p, NEW q, Kept(p, q)
  PROVE  /\ InfosOf(q) = InfosOf(p) /\ LengthOf(q) = LengthOf(p)
         /\ NumSlices(q) = NumSlices(p)
         /\ \A x : UnitAt(q, x) = UnitAt(p, x)
         /\ HeadersInside(q, InfosOf(q)) <=> HeadersInside(p, InfosOf(p))
<1>1. q.words = p.words /\ q.conf = p.conf
  BY DEF Kept
<1>2. \A r : SlicesOf(r) = SlicesFrom(r.words)
  BY Zenon DEF SlicesOf, SlicesFrom, LengthOf
<1>3. \A r : InfosOf(r) = InfosFrom(r.words, r.conf)
  BY Zenon, <1>2 DEF InfosOf, InfosFrom
<1>4. InfosOf(q) = InfosOf(p)
  BY <1>1, <1>3
<1>5. LengthOf(q) = LengthOf(p)
  BY <1>1 DEF LengthOf
<1>6. \A i : HeadersInside(q, i) <=> HeadersInside(p, i)
  BY <1>5 DEF HeadersInside
<1> QED  BY <1>1, <1>4, <1>5, <1>6 DEF NumSlices, UnitAt

(* Packet p in flight is packet q in line as far as it has come: its units *)
(* are q's, and what the layers said of it is what the reference parse of  *)
(* q says.                                                                 *)
UnitsOf(p, q) ==
  \A x \in Nat : x < LengthOf(q) /\ x < TopP!Row(Len(p.slices)) =>
    Flat(p.slices, x) = UnitAt(q, x)
ParsedLike(p, q) ==
  q.quiet /\ HeadersInside(q, InfosOf(q)) =>
    \A m \in 1 .. Len(p.infos) : p.infos[m] = InfosOf(q)[m]
Pair(p, q) == UnitsOf(p, q) /\ ParsedLike(p, q)

LEMMA PairKept ==
  ASSUME NEW p, NEW q, NEW r, Pair(p, q), Kept(q, r)
  PROVE  Pair(p, r)
<1>1. UnitsOf(p, r)
  BY FromParts DEF Pair, UnitsOf
<1>2. ParsedLike(p, r)
  BY FromParts DEF Pair, ParsedLike, Kept
<1> QED  BY <1>1, <1>2 DEF Pair

(* The type fields that a layer extracts from a packet in flight.          *)
LEMMA TypeUnits ==
  ASSUME NEW o \in TypeOffsets
  PROVE  o \div TypesPerUnit \in UnitIds
<1> DEFINE t == TypesPerUnit
           c == CANDI_NUM
<1>1. t \in Nat \ {0} /\ c \in Nat \ {0} /\ o \in Nat /\ o < c * t
  BY WidthAssumption DEF TypeOffsets, TypeCandiNum
<1> HIDE DEF t, c
<1>2. PICK q \in Nat, r \in 0 .. t - 1 : o = t * q + r
  BY <1>1, DivLemma
<1>3. o \div t = q
  BY <1>1, <1>2, DivLemma
<1>4. q < c
  <2> SUFFICES ASSUME q >= c PROVE FALSE
    BY <1>1
  <2>1. t * q = t * c + t * (q - c) /\ t * (q - c) \in Nat /\ t * c = c * t
    BY <1>1
  <2> QED  BY <1>1, <1>2, <2>1
<1> QED  BY <1>3, <1>4, <1>1 DEF UnitIds, t, c

LEMMA SameTypes ==
  ASSUME NEW q \in Parcel, NEW s \in Seq(Data), NEW k \in Layers,
         \A x \in Nat : x < LengthOf(q) /\ x < TopP!Row(Len(s)) => Flat(s, x) = UnitAt(q, x),
         HeadersInside(q, InfosOf(q)), k <= Len(s) \/ Len(s) = NumSlices(q)
  PROVE  ExtractTypes(Window(s, HeadPos(InfosOf(q), k)), InfosOf(q)[k]) =
         ExtractTypes(Window(SlicesOf(q), HeadPos(InfosOf(q), k)), InfosOf(q)[k])
<1> DEFINE infos == InfosOf(q)
           pos == HeadPos(infos, k)
           off(i) == infos[k].typeOffset[i]
           at(i) == off(i) \div TypesPerUnit
<1>1. infos \in Seq(LookupRst) /\ Len(infos) = NUM_LAYER + 1
  BY InfosLemma
<1>2. k \in Nat /\ k \in 1 .. Len(infos) /\ k \in 1 .. Len(infos) + 1 /\ k - 1 \in Nat
  BY <1>1, LayerNumber DEF Layers
<1>3. pos \in Nat /\ pos <= TopP!Row(k - 1)
  BY <1>1, <1>2, TopP!Positions, SameSets, SameRow, WidthAssumption, NumAssumption, DeparserAssumption, TopHolds
<1>4. ASSUME NEW i \in TypeIds
      PROVE  Window(s, pos)[at(i)] = Window(SlicesOf(q), pos)[at(i)]
  <2>1. at(i) \in UnitIds /\ at(i) \in Nat
    <3>1. infos[k] \in LookupRst
      BY <1>1, <1>2
    <3>2. off(i) \in TypeOffsets
      BY <3>1 DEF LookupRst
    <3> HIDE DEF off
    <3>3. at(i) \in UnitIds
      BY <3>2, TypeUnits
    <3>4. UnitIds \subseteq Nat
      BY UnitsLemma DEF UnitIds
    <3> QED  BY <3>3, <3>4
  <2>2. pos + at(i) < LengthOf(q) /\ pos + at(i) \in Nat
    BY <1>3, <2>1 DEF HeadersInside
  <2>3. pos + at(i) < TopP!Row(Len(s))
    <3>1. CASE Len(s) = NumSlices(q)
      BY <2>2, <3>1, Lengths
    <3>2. CASE k <= Len(s)
      <4>1. TopP!Row((k - 1) + 1) = TopP!Row(k - 1) + CANDI_NUM /\ TopP!Row(k) <= TopP!Row(Len(s))
            /\ TopP!Row(k - 1) \in Nat /\ TopP!Row(Len(s)) \in Nat
        <5>1. Len(s) \in Nat
          OBVIOUS
        <5> DEFINE l == Len(s)
        <5> HIDE DEF l
        <5>2. l \in Nat /\ k <= l
          BY <3>2, <5>1 DEF l
        <5>3. TopP!Row(k) <= TopP!Row(l) /\ TopP!Row(l) \in Nat
          BY ONLY <1>2, <5>2, TopP!RowLemma, WidthAssumption, NumAssumption, DeparserAssumption, TopHolds
        <5>4. TopP!Row((k - 1) + 1) = TopP!Row(k - 1) + CANDI_NUM /\ TopP!Row(k - 1) \in Nat
          BY ONLY <1>2, TopP!RowLemma, WidthAssumption, NumAssumption, DeparserAssumption, TopHolds
        <5> QED  BY <5>3, <5>4 DEF l
      <4> HIDE DEF at
      <4>2. at(i) < CANDI_NUM /\ CANDI_NUM \in Nat
        BY <2>1, UnitsLemma DEF UnitIds
      <4>3. (k - 1) + 1 = k
        BY <1>2
      <4> HIDE DEF at, pos
      <4> QED  BY <1>3, <2>1, <4>1, <4>2, <4>3
    <3> QED  BY <3>1, <3>2
  <2> HIDE DEF at, pos
  <2>4. Flat(s, pos + at(i)) = Flat(SlicesOf(q), pos + at(i))
    BY <2>2, <2>3, SlicesFlat
  <2> QED  BY <1>3, <2>1, <2>4, WindowUnit
<1> HIDE DEF pos, infos
<1>5. ASSUME NEW i \in TypeIds
      PROVE  TypeField(Window(s, pos), infos[k].typeOffset[i]) =
             TypeField(Window(SlicesOf(q), pos), infos[k].typeOffset[i])
  BY <1>4 DEF TypeField
<1>6. ExtractTypes(Window(s, pos), infos[k]) = ExtractTypes(Window(SlicesOf(q), pos), infos[k])
  BY <1>5 DEF ExtractTypes
<1> QED  BY <1>6 DEF pos, infos

(* What a clock adds to a packet in flight.                                *)
LEMMA AgedIs ==
  ASSUME NEW p, TopP!PacketOK(p), NEW more
  PROVE  /\ TopP!Aged(p, more).age = p.age + 1
         /\ TopP!Aged(p, more).slices = p.slices \o more
         /\ (\A k \in Layers : p.age # TopP!LookupAge(k)) => TopP!Aged(p, more).infos = p.infos
         /\ \A k \in Layers : p.age = TopP!LookupAge(k) =>
              TopP!Aged(p, more).infos =
                Append(p.infos, LookupType(layer[k].table,
                  ExtractTypes(Window(p.slices, HeadPos(p.infos, k)), p.infos[k])))
<1>1. TopP!Layers = Layers
  BY SameSets
<1>2. ASSUME NEW k \in Layers, NEW n \in Layers, TopP!LookupAge(k) = TopP!LookupAge(n)
      PROVE  k = n
  BY <1>2, LayerNumber DEF Layers, TopP!LookupAge, TopP!Latency
<1>3. \A k, t : TopP!Looked(p, k, t) =
                LookupType(t, ExtractTypes(Window(p.slices, HeadPos(p.infos, k)), p.infos[k]))
  BY SameRules, SameRow DEF TopP!Looked
<1>4. ASSUME NEW k \in Layers, p.age = TopP!LookupAge(k)
      PROVE  (CHOOSE n \in TopP!Layers : p.age = TopP!LookupAge(n)) = k
  BY <1>1, <1>2, <1>4
<1>5. ASSUME NEW k \in Layers, p.age = TopP!LookupAge(k)
      PROVE  TopP!Aged(p, more).infos = Append(p.infos, TopP!Looked(p, k, layer[k].table))
  BY <1>1, <1>4, <1>5 DEF TopP!Aged
<1>6. (\A k \in Layers : p.age # TopP!LookupAge(k)) => TopP!Aged(p, more).infos = p.infos
  BY <1>1 DEF TopP!Aged
<1>7. TopP!Aged(p, more).age = p.age + 1 /\ TopP!Aged(p, more).slices = p.slices \o more
  BY DEF TopP!Aged
<1> QED  BY <1>3, <1>5, <1>6, <1>7

(* The slice d is the next one of packet q behind the first n.             *)
NextOf(d, n, q) ==
  \A u \in UnitIds : TopP!Row(n) + u < LengthOf(q) => d[u] = UnitAt(q, TopP!Row(n) + u)

LEMMA AppendUnits ==
  ASSUME NEW q \in Parcel, NEW s \in Seq(Data), NEW d \in Data, NextOf(d, Len(s), q),
         \A x \in Nat : x < LengthOf(q) /\ x < TopP!Row(Len(s)) => Flat(s, x) = UnitAt(q, x)
  PROVE  \A x \in Nat : x < LengthOf(q) /\ x < TopP!Row(Len(s) + 1) =>
           Flat(Append(s, d), x) = UnitAt(q, x)
<1> DEFINE n == Len(s)
           t == Append(s, d)
<1>1. n \in Nat /\ Len(t) = n + 1 /\ t[n + 1] = d
  OBVIOUS
<1> SUFFICES ASSUME NEW x \in Nat, x < LengthOf(q), x < TopP!Row(n + 1)
             PROVE  Flat(t, x) = UnitAt(q, x)
  OBVIOUS
<1>2. CASE x < TopP!Row(n)
  <2>1. TopP!Flat(Append(s, d), x) = TopP!Flat(s, x)
    BY <1>2, TopP!FlatLemma, SameSets, WidthAssumption, NumAssumption, DeparserAssumption, TopHolds
  <2> QED  BY <1>2, <2>1, SameRow
<1>3. CASE ~(x < TopP!Row(n))
  <2>1. PICK k \in Nat, u \in UnitIds : x = TopP!Row(k) + u
    BY TopP!RowOf, SameSets, WidthAssumption, NumAssumption, DeparserAssumption, TopHolds
  <2> HIDE DEF n, t
  <2>2. u \in Nat /\ u < CANDI_NUM /\ CANDI_NUM \in Nat
    BY UnitsLemma DEF UnitIds
  <2>3. /\ TopP!Row(k) \in Nat /\ TopP!Row(n) \in Nat /\ TopP!Row(n + 1) \in Nat
        /\ k < n => TopP!Row(k) + CANDI_NUM <= TopP!Row(n)
        /\ n + 1 <= k => TopP!Row(n + 1) <= TopP!Row(k)
    <3>1. n + 1 \in Nat
      BY <1>1
    <3> QED  BY ONLY <1>1, <2>1, <3>1, TopP!RowLemma, WidthAssumption, NumAssumption, DeparserAssumption, TopHolds
  <2>4. k = n
    BY <1>1, <1>3, <2>1, <2>2, <2>3 DEF n
  <2>5. TopP!Flat(t, TopP!Row(k) + u) = IF k < Len(t) THEN t[k + 1][u] ELSE TopP!Zero
    BY TopP!FlatAt, SameSets, WidthAssumption, NumAssumption, DeparserAssumption, TopHolds
  <2>6. Flat(t, x) = d[u]
    BY <1>1, <2>1, <2>4, <2>5, SameRow
  <2>7. d[u] = UnitAt(q, x)
    BY <2>1, <2>4 DEF NextOf, n
  <2> QED  BY <2>6, <2>7
<1> QED  BY <1>2, <1>3

LEMMA PairAged ==
  ASSUME NEW q \in Parcel, NEW p, TopP!PacketOK(p), Pair(p, q),
         Len(p.slices) = NumSlices(q) \/ Len(p.slices) = p.age,
         q.quiet => \A k \in Layers : \A f :
           LookupType(q.conf.tables[k], f) = LookupType(layer[k].table, f),
         NEW d \in Data, NEW more,
         more = <<>> \/ (more = <<d>> /\ NextOf(d, Len(p.slices), q))
  PROVE  Pair(TopP!Aged(p, more), q)
<1> DEFINE a == TopP!Aged(p, more)
<1>1. /\ p.slices \in Seq(Data) /\ p.age \in Nat /\ p.infos \in Seq(LookupRst)
      /\ Len(p.slices) \in Nat /\ Len(p.infos) \in Nat
      /\ 1 <= Len(p.slices) /\ 1 <= Len(p.infos)
      /\ \A k \in Layers : p.age = TopP!LookupAge(k) => Len(p.infos) = k
  BY PacketParts
<1>2. UnitsOf(a, q)
  <2>1. a.slices = p.slices \o more
    BY AgedIs
  <2>2. CASE more = <<>>
    <3>1. p.slices \o <<>> = p.slices
      BY <1>1
    <3> HIDE DEF a
    <3> QED  BY <2>1, <2>2, <3>1 DEF Pair, UnitsOf
  <2>3. CASE more = <<d>> /\ NextOf(d, Len(p.slices), q)
    <3>1. p.slices \o <<d>> = Append(p.slices, d) /\ Len(Append(p.slices, d)) = Len(p.slices) + 1
      BY <1>1
    <3> HIDE DEF a
    <3>2. \A x \in Nat : x < LengthOf(q) /\ x < TopP!Row(Len(p.slices) + 1) =>
            Flat(Append(p.slices, d), x) = UnitAt(q, x)
      BY <1>1, <2>3, AppendUnits DEF Pair, UnitsOf
    <3> QED  BY <2>1, <2>3, <3>1, <3>2 DEF UnitsOf
  <2> QED  BY <2>2, <2>3
<1>3. ParsedLike(a, q)
  <2> DEFINE infos == InfosOf(q)
  <2> SUFFICES ASSUME q.quiet, HeadersInside(q, infos)
               PROVE  \A m \in 1 .. Len(a.infos) : a.infos[m] = infos[m]
    BY DEF ParsedLike
  <2>1. \A m \in 1 .. Len(p.infos) : p.infos[m] = infos[m]
    BY DEF Pair, ParsedLike
  <2>2. CASE \A k \in Layers : p.age # TopP!LookupAge(k)
    <3>1. a.infos = p.infos
      BY <2>2, AgedIs
    <3> QED  BY <2>1, <3>1
  <2>3. ASSUME NEW k \in Layers, p.age = TopP!LookupAge(k)
        PROVE  \A m \in 1 .. Len(a.infos) : a.infos[m] = infos[m]
    <3> DEFINE rst == LookupType(layer[k].table,
                        ExtractTypes(Window(p.slices, HeadPos(p.infos, k)), p.infos[k]))
    <3>1. a.infos = Append(p.infos, rst) /\ Len(p.infos) = k
      BY <1>1, <2>3, AgedIs
    <3>2. /\ infos \in Seq(LookupRst) /\ Len(infos) = NUM_LAYER + 1
          /\ infos[k + 1] = NextInfo(q, infos, k)
      BY InfosLemma
    <3>3. k \in Nat /\ k \in 1 .. NUM_LAYER
      BY LayerNumber DEF Layers
    <3>4. HeadPos(p.infos, k) = HeadPos(infos, k) /\ p.infos[k] = infos[k]
      <4>1. \A x \in Seq(LookupRst), y \in Seq(LookupRst) :
              Len(x) <= Len(y) /\ (\A i \in 1 .. Len(x) : y[i] = x[i]) =>
                \A n \in 1 .. Len(x) + 1 : HeadPos(y, n) = HeadPos(x, n)
        BY TopP!PositionsKept, SameSets, SameRow, WidthAssumption, NumAssumption, DeparserAssumption, TopHolds
      <4>2. Len(p.infos) <= Len(infos) /\ k \in 1 .. Len(p.infos) /\ k \in 1 .. Len(p.infos) + 1
        BY <3>1, <3>2, <3>3, LayerNumber
      <4> HIDE DEF infos
      <4> QED  BY <1>1, <2>1, <3>2, <4>1, <4>2
    <3>5. k <= Len(p.slices) \/ Len(p.slices) = NumSlices(q)
      <4>1. TopP!LookupAge(k) >= k
        BY <3>3 DEF TopP!LookupAge, TopP!Latency
      <4> QED  BY <1>1, <2>3, <3>3, <4>1
    <3>6. ExtractTypes(Window(p.slices, HeadPos(infos, k)), infos[k]) =
          ExtractTypes(Window(SlicesOf(q), HeadPos(infos, k)), infos[k])
      BY <1>1, <3>5, SameTypes DEF Pair, UnitsOf
    <3>7. rst = infos[k + 1]
      <4> HIDE DEF infos
      <4> QED  BY <3>2, <3>4, <3>6 DEF NextInfo
    <3> HIDE DEF rst, a, infos
    <3> QED  BY <1>1, <2>1, <3>1, <3>3, <3>7
  <2> QED  BY <2>2, <2>3
<1> QED  BY <1>2, <1>3 DEF Pair

LEMMA PairFresh ==
  ASSUME NEW q \in Parcel, NEW d \in Data, NextOf(d, 0, q), q.quiet => q.conf.info0 = info0
  PROVE  Pair([slices |-> <<d>>, age |-> 1, infos |-> <<info0>>], q)
<1> DEFINE p == [slices |-> <<d>>, age |-> 1, infos |-> <<info0>>]
           s == <<>>
<1>1. s \in Seq(Data) /\ Len(s) = 0 /\ Append(s, d) = <<d>> /\ Len(<<d>>) = 1 /\ 0 + 1 = 1
  BY EmptySeq
<1> HIDE DEF s
<1>2. TopP!Row(0) = 0
  BY TopP!RowLemma, WidthAssumption, NumAssumption, DeparserAssumption, TopHolds
<1>3. \A x \in Nat : x < LengthOf(q) /\ x < TopP!Row(Len(s)) => Flat(s, x) = UnitAt(q, x)
  BY <1>1, <1>2
<1>4. \A x \in Nat : x < LengthOf(q) /\ x < TopP!Row(Len(s) + 1) =>
        Flat(Append(s, d), x) = UnitAt(q, x)
  BY <1>1, <1>3, AppendUnits
<1>5. UnitsOf(p, q)
  BY <1>1, <1>4 DEF UnitsOf
<1>6. ParsedLike(p, q)
  <2>1. InfosOf(q)[1] = q.conf.info0
    BY InfosLemma
  <2> QED  BY <2>1 DEF ParsedLike
<1> QED  BY <1>5, <1>6 DEF Pair

(* The slice that is sent is the next one of the first packet that is due. *)
LEMMA SliceUnits ==
  ASSUME PhvP!TypeOK, PhvP!PacketsInOrder, oPhv.valid, NEW q \in Parcel, q.words = due[1]
  PROVE  NextOf(SliceOf(oPhv).data, got, q)
<1> SUFFICES ASSUME NEW u \in UnitIds, TopP!Row(got) + u < LengthOf(q)
             PROVE  SliceOf(oPhv).data[u] = UnitAt(q, TopP!Row(got) + u)
  BY DEF NextOf
<1> DEFINE s == u \div U
           n == u % U
           c == got * PKT_NUM + s
           x == TopP!Row(got) + u
<1>1. s \in PhvP!Slots /\ s \in Nat /\ n \in 0 .. U - 1 /\ u = U * s + n
  BY UnitsLemma
<1>2. U \in Nat \ {0} /\ PKT_NUM \in Nat /\ CANDI_NUM = U * PKT_NUM /\ got \in Nat
  BY UnitsLemma DEF PhvP!TypeOK
<1>3. SliceOf(oPhv).data[u] = UnitOf(oPhv.data[s], n)
  BY DEF SliceOf, U
<1> HIDE DEF s, n
<1>4. c \in Nat /\ x \in Nat /\ x = U * c + n
  <2>1. got * (U * PKT_NUM) = U * (got * PKT_NUM) /\ got * PKT_NUM \in Nat
    BY <1>2
  <2>2. U * (got * PKT_NUM + s) = U * (got * PKT_NUM) + U * s
    BY <1>1, <1>2, <2>1
  <2>3. TopP!Row(got) = U * (got * PKT_NUM)
    BY <1>2, <2>1 DEF TopP!Row
  <2>4. U * c \in Nat
    BY <1>1, <1>2, <2>1
  <2> QED  BY <1>1, <1>2, <2>1, <2>2, <2>3, <2>4
<1> HIDE DEF c, x
<1>5. x \div U = c /\ x % U = n
  <2>1. (U * c + n) \div U = c /\ (U * c + n) % U = n
    BY <1>1, <1>2, <1>4, DivLemma
  <2> QED  BY <1>4, <2>1
<1>6. x < LengthOf(q)
  BY DEF x
<1>7. x \div U + 1 \in 1 .. Len(q.words)
  BY <1>4, <1>6, UnitInside
<1>8. c + 1 \in 1 .. Len(q.words)
  BY <1>5, <1>7
<1>9. oPhv.data[s] = q.words[c + 1]
  BY <1>1, <1>8 DEF PhvP!PacketsInOrder, c
<1>10. q.words[c + 1] \in Tokens
  BY <1>8 DEF Parcel
<1>11. Blank \notin Tokens
  BY GenHolds DEF PhvP!GenAssumption
<1>12. UnitOf(oPhv.data[s], n) = q.words[c + 1].data[n]
  BY <1>9, <1>10, <1>11 DEF UnitOf
<1>13. UnitAt(q, x) = q.words[c + 1].data[n]
  BY <1>5 DEF UnitAt
<1> QED  BY <1>3, <1>12, <1>13 DEF x

-----------------------------------------------------------------------------
(* The packets in line are those in flight that are sent whole, and behind *)
(* them those that are due, the first of which is being sent; and each     *)
(* packet in flight is the one in line at its place.                       *)
FlightOf(lay, ln, owed, sent, left, fl) ==
  /\ TopP!HeadsOf(lay, fl) /\ TopP!MetasOf(lay, fl)
  /\ GrowingTo(fl, sent)
  /\ Len(ln) = WholeOf(fl, sent) + Len(owed)
  /\ \A j \in 1 .. Len(owed) : ln[WholeOf(fl, sent) + j].words = owed[j]
  /\ \A i \in 1 .. WholeOf(fl, sent) : Len(fl[i].slices) = NumSlices(ln[i])
  /\ \A i \in 1 .. Len(fl) : Pair(fl[i], ln[i])
  /\ left = IF Len(fl) > 0 /\ fl[1].age > T THEN fl[1].age - T ELSE 0

FlightInv(fl) == FlightOf(layer, line, due, got, out, fl)

StreamInv == ~resetting => \E fl : FlightInv(fl)

(* What else holds whenever a packet moves.                                *)
PartsInv ==
  /\ PhvP!TypeOK /\ PhvP!FlagsInv /\ PhvP!PacketsInOrder
  /\ TypesInv /\ LinkInv /\ ConfigInv /\ QuietInv

SentTail == Bit(oPhv.valid /\ oPhv.tail)

LEMMA DueAfter ==
  ASSUME PhvP!TypeOK, PhvP!PacketsInOrder, TypesInv, NEW overtaken \in BOOLEAN, NEW new, NEW more,
         ClockEdge(overtaken, new, more)
  PROVE  /\ Len(due) \in Nat /\ SentTail \in Nat /\ SentTail <= Len(due) /\ Len(new) \in {0, 1}
         /\ oPhv.valid => Len(due) >= 1
         /\ Len(due') = (Len(due) - SentTail) + Len(new)
         /\ \A j \in 1 .. Len(due) - SentTail : due'[j] = due[j + SentTail]
         /\ Len(new) = 1 => due'[(Len(due) - SentTail) + 1] = new[1].words
         /\ got' = IF oPhv.valid THEN IF oPhv.tail THEN 0 ELSE got + 1 ELSE got
<1> DEFINE e == SentTail
           rest == IF oPhv.valid /\ oPhv.tail /\ due # <<>> THEN Tail(due) ELSE due
           S == Seq(Tokens)
<1>1. due \in Seq(S) /\ Len(due) \in Nat
  BY DEF PhvP!TypeOK
<1>2. oPhv.valid => due # <<>> /\ Len(due) >= 1
  BY <1>1 DEF PhvP!PacketsInOrder
<1>3. e \in {0, 1} /\ (e = 1 <=> oPhv.valid /\ oPhv.tail)
  BY DEF SentTail, Bit
<1>4. /\ rest \in Seq(S) /\ Len(rest) = Len(due) - e
      /\ \A j \in 1 .. Len(due) - e : rest[j] = due[j + e]
  <2>1. CASE e = 1
    <3>1. rest = Tail(due) /\ due # <<>>
      BY <1>2, <1>3, <2>1
    <3>2. Tail(due) \in Seq(S) /\ Len(Tail(due)) = Len(due) - 1
          /\ \A j \in 1 .. Len(due) - 1 : Tail(due)[j] = due[j + 1]
      BY <1>1, <3>1, HeadTailProperties
    <3> HIDE DEF rest, e
    <3> QED  BY <2>1, <3>1, <3>2
  <2>2. CASE e = 0
    <3>1. rest = due
      BY <1>3, <2>2
    <3> HIDE DEF rest, e
    <3> QED  BY <1>1, <2>2, <3>1
  <2> QED  BY <1>3, <2>1, <2>2
<1>5. due' = rest \o more /\ got' = IF oPhv.valid THEN IF oPhv.tail THEN 0 ELSE got + 1 ELSE got
  BY DEF ClockEdge, PhvP!Sent
<1> HIDE DEF rest, e
<1>6. ASSUME new = <<>>, more = <<>>
      PROVE  /\ Len(new) \in {0, 1}
             /\ Len(due') = (Len(due) - e) + Len(new)
             /\ \A j \in 1 .. Len(due) - e : due'[j] = due[j + e]
             /\ Len(new) = 1 => due'[(Len(due) - e) + 1] = new[1].words
  <2>1. due' = rest /\ Len(new) = 0
    BY <1>4, <1>5, <1>6
  <2> QED  BY <1>1, <1>3, <1>4, <2>1
<1>7. ASSUME NEW p \in Parcel, new = <<p>>, more = <<p.words>>
      PROVE  /\ Len(new) \in {0, 1}
             /\ Len(due') = (Len(due) - e) + Len(new)
             /\ \A j \in 1 .. Len(due) - e : due'[j] = due[j + e]
             /\ Len(new) = 1 => due'[(Len(due) - e) + 1] = new[1].words
  <2>1. due' = Append(rest, p.words) /\ Len(new) = 1 /\ new[1] = p
    <3>1. rest \o <<p.words>> = Append(rest, p.words)
      BY <1>4
    <3> QED  BY <1>5, <1>7, <3>1
  <2>2. Len(rest) \in Nat
    BY <1>4
  <2>3. /\ Len(Append(rest, p.words)) = Len(rest) + 1
        /\ \A j \in 1 .. Len(rest) : Append(rest, p.words)[j] = rest[j]
        /\ Append(rest, p.words)[Len(rest) + 1] = p.words
    BY <1>4, <2>2, AppendProperties DEF Parcel
  <2> QED  BY <1>1, <1>3, <1>4, <2>1, <2>3
<1>8. (new = <<>> /\ more = <<>>) \/ \E p \in Parcel : new = <<p>> /\ more = <<p.words>>
  BY DEF ClockEdge
<1>9. /\ Len(new) \in {0, 1}
      /\ Len(due') = (Len(due) - e) + Len(new)
      /\ \A j \in 1 .. Len(due) - e : due'[j] = due[j + e]
      /\ Len(new) = 1 => due'[(Len(due) - e) + 1] = new[1].words
  BY <1>6, <1>7, <1>8
<1>10. e \in Nat /\ e <= Len(due)
  BY <1>1, <1>2, <1>3
<1>11. /\ SentTail \in Nat /\ SentTail <= Len(due)
       /\ Len(due') = (Len(due) - SentTail) + Len(new)
       /\ Len(new) = 1 => due'[(Len(due) - SentTail) + 1] = new[1].words
  BY <1>9, <1>10 DEF e
<1>12. \A j \in 1 .. Len(due) - SentTail : due'[j] = due[j + SentTail]
  BY <1>9 DEF e
<1> QED  BY <1>1, <1>2, <1>5, <1>9, <1>11, <1>12, Zenon

(* The packets in line and in flight after a clock edge, by number.        *)
LEMMA Counts ==
  ASSUME PartsInv, NEW overtaken \in BOOLEAN, NEW new, NEW more, ClockEdge(overtaken, new, more),
         NEW fl, FlightInv(fl), NEW fl2, TopP!HeadsOf(layer', fl2), Follows(fl, fl2)
  PROVE  /\ Leaving \in Nat /\ Whole(fl) \in Nat /\ Leaving <= Whole(fl) /\ Gone = Leaving
         /\ Len(fl) \in Nat /\ Len(fl2) \in Nat /\ got \in Nat
         /\ got > 0 => oPhv.valid /\ Len(fl) > 0
         /\ Whole(fl) = IF got = 0 THEN Len(fl) ELSE Len(fl) - 1
         /\ Len(line) = Whole(fl) + Len(due)
         /\ Stay = (Whole(fl) - Leaving) + Len(due)
         /\ WholeOf(fl2, got') = (Whole(fl) - Leaving) + SentTail
         /\ Len(fl2) = (Whole(fl) - Leaving) + Bit(oPhv.valid)
<1> DEFINE b == Whole(fl)
           g == Leaving
           n == Len(fl)
           n2 == Len(fl2)
           d == Len(due)
<1>1. /\ TopP!HeadsOf(layer, fl) /\ Growing(fl) /\ Len(line) = b + d
      /\ b = IF got = 0 THEN n ELSE n - 1
  BY DEF FlightInv, FlightOf, Growing, Whole, WholeOf
<1>2. n \in Nat /\ n2 \in Nat
  <2>1. n \in Nat
    BY <1>1, FlightParts
  <2>2. TopP!FlightOK(fl2)
    BY DEF TopP!HeadsOf
  <2>3. fl2 \in Seq(TopP!Packet)
    BY <2>2 DEF TopP!FlightOK
  <2> QED  BY <2>1, <2>3
<1>3. got \in Nat /\ (got > 0 => oPhv.valid) /\ (got > 0 => n > 0) /\ ~resetting
  BY <1>1 DEF PartsInv, PhvP!TypeOK, LinkInv, ClockEdge, Growing, GrowingTo
<1>4. b \in Nat
  BY <1>1, <1>2, <1>3
<1>5. g \in Nat /\ g <= b
  <2>1. SliceOf(oPhv).data \in Data
    <3>1. SliceOf(oPhv) \in Slice
      BY WiresType DEF PartsInv
    <3> QED  BY <3>1 DEF Slice
  <2> DEFINE dd == SliceOf(oPhv).data
             mm == IF got = 0 THEN <<>> ELSE <<dd>>
  <2>2. dd \in Data /\ mm = IF got = 0 THEN <<>> ELSE <<dd>>
    BY <2>1
  <2> HIDE DEF dd, mm
  <2> QED  BY <1>1, <1>3, <2>2, FlownLemma
<1>6. d \in Nat /\ SentTail \in Nat /\ (SentTail = 1 <=> oPhv.valid /\ oPhv.tail) /\ SentTail \in {0, 1}
      /\ got' = IF oPhv.valid THEN IF oPhv.tail THEN 0 ELSE got + 1 ELSE got
  BY DueAfter DEF PartsInv, SentTail, Bit
<1>7. Gone = g
  <2>1. g > 0 => line # <<>>
    <3>1. line # <<>> \/ Len(line) = 0
      OBVIOUS
    <3> HIDE DEF g, b, d
    <3> QED  BY <1>1, <1>4, <1>5, <1>6, <3>1
  <2>2. Leaving = IF oHead.valid /\ oHead.tail THEN 1 ELSE 0
    BY DEF Leaving, Bit
  <2> QED  BY <2>1, <2>2 DEF Gone
<1>8. n2 = (b - g) + Bit(oPhv.valid)
  BY DEF Follows
<1>9. Bit(oPhv.valid) = IF oPhv.valid THEN 1 ELSE 0
  BY DEF Bit
<1>10. WholeOf(fl2, got') = IF got' = 0 THEN n2 ELSE n2 - 1
  BY DEF WholeOf
<1> HIDE DEF b, g, n, n2, d
<1>11. WholeOf(fl2, got') = (b - g) + SentTail
  <2>1. CASE ~oPhv.valid
    BY <1>3, <1>4, <1>5, <1>6, <1>8, <1>9, <1>10, <2>1
  <2>2. CASE oPhv.valid /\ oPhv.tail
    BY <1>3, <1>4, <1>5, <1>6, <1>8, <1>9, <1>10, <2>2
  <2>3. CASE oPhv.valid /\ ~oPhv.tail
    BY <1>2, <1>3, <1>4, <1>5, <1>6, <1>8, <1>9, <1>10, <2>3
  <2> QED  BY <2>1, <2>2, <2>3
<1>12. Stay = (b - g) + d
  BY <1>1, <1>4, <1>5, <1>6, <1>7 DEF Stay
<1> QED  BY <1>1, <1>2, <1>3, <1>4, <1>5, <1>7, <1>8, <1>11, <1>12 DEF b, g, n, n2, d

(* A packet that was in flight whole, and the one that is being sent.      *)
LEMMA WholeAfter ==
  ASSUME PartsInv, NEW overtaken \in BOOLEAN, NEW new, NEW more, ClockEdge(overtaken, new, more),
         NEW fl, FlightInv(fl), NEW fl2, TopP!HeadsOf(layer', fl2), Follows(fl, fl2),
         NEW i \in 1 .. Whole(fl) - Leaving
  PROVE  /\ i + Leaving \in 1 .. Len(fl) /\ i + Leaving \in 1 .. Len(line)
         /\ fl2[i].age = fl[i + Leaving].age + 1
         /\ Len(fl2[i].slices) = NumSlices(line[i + Leaving])
         /\ Pair(fl2[i], line[i + Leaving])
<1> DEFINE k == i + Leaving
           p == fl[k]
           q == line[k]
           d == SliceOf(oPhv).data
           e == <<>>
<1>1. /\ Leaving \in Nat /\ Whole(fl) \in Nat /\ Leaving <= Whole(fl) /\ Len(fl) \in Nat
      /\ Whole(fl) = IF got = 0 THEN Len(fl) ELSE Len(fl) - 1
      /\ Len(line) = Whole(fl) + Len(due) /\ got \in Nat
  BY Counts
<1>2. Len(due) \in Nat
  BY DueAfter DEF PartsInv
<1>3. k \in 1 .. Whole(fl) /\ k \in 1 .. Len(fl) /\ k \in 1 .. Len(line)
  BY <1>1, <1>2
<1>4. /\ TopP!HeadsOf(layer, fl) /\ Len(p.slices) = NumSlices(q) /\ Pair(p, q)
  BY <1>3 DEF FlightInv, FlightOf, Whole
<1>5. TopP!PacketOK(p)
  BY <1>3, <1>4, FlightParts
<1>6. q \in Parcel /\ TypesInv /\ ConfigInv /\ QuietInv
  BY <1>3 DEF PartsInv, TypesInv
<1>7. q.quiet => \A n \in Layers : \A f :
        LookupType(q.conf.tables[n], f) = LookupType(layer[n].table, f)
  BY <1>3, <1>6, Consistent
<1>8. d \in Data
  <2>1. SliceOf(oPhv) \in Slice
    BY WiresType DEF PartsInv
  <2> QED  BY <2>1 DEF Slice
<1>9. fl2[i] = TopP!Aged(p, e)
  BY DEF Follows
<1>10. e = <<>>
  OBVIOUS
<1> HIDE DEF p, q, d, e, k
<1>11. Pair(TopP!Aged(p, e), q)
  BY <1>4, <1>5, <1>6, <1>7, <1>8, <1>10, PairAged
<1>12. /\ TopP!Aged(p, e).age = p.age + 1
       /\ TopP!Aged(p, e).slices = p.slices \o e
  BY <1>5, AgedIs
<1>13. p.slices \o e = p.slices
  BY <1>5, <1>10, PacketParts
<1> QED  BY <1>3, <1>4, <1>9, <1>11, <1>12, <1>13 DEF p, q, k

LEMMA SentAfter ==
  ASSUME PartsInv, NEW overtaken \in BOOLEAN, NEW new, NEW more, ClockEdge(overtaken, new, more),
         NEW fl, FlightInv(fl), NEW fl2, TopP!HeadsOf(layer', fl2), Follows(fl, fl2),
         oPhv.valid
  PROVE  /\ Len(fl2) = (Whole(fl) - Leaving) + 1
         /\ Whole(fl) + 1 \in 1 .. Len(line)
         /\ fl2[Len(fl2)].age = got + 1 /\ Len(fl2[Len(fl2)].slices) = got + 1
         /\ oPhv.tail => got + 1 = NumSlices(line[Whole(fl) + 1])
         /\ Pair(fl2[Len(fl2)], line[Whole(fl) + 1])
<1> DEFINE k == Whole(fl) + 1
           p == fl[Len(fl)]
           q == line[k]
           d == SliceOf(oPhv).data
           e == <<d>>
           z == fl2[Len(fl2)]
<1>1. /\ Leaving \in Nat /\ Whole(fl) \in Nat /\ Leaving <= Whole(fl) /\ Len(fl) \in Nat
      /\ Whole(fl) = IF got = 0 THEN Len(fl) ELSE Len(fl) - 1
      /\ Len(line) = Whole(fl) + Len(due) /\ got \in Nat
      /\ got > 0 => Len(fl) > 0
      /\ Len(fl2) = (Whole(fl) - Leaving) + 1
  BY Counts DEF Bit
<1>2. Len(due) \in Nat /\ Len(due) >= 1
  BY DueAfter DEF PartsInv
<1>3. k \in 1 .. Len(line)
  BY <1>1, <1>2
<1>4. q.words = due[1]
  <2>1. \A j \in 1 .. Len(due) : line[Whole(fl) + j].words = due[j]
    BY DEF FlightInv, FlightOf, Whole
  <2>2. 1 \in 1 .. Len(due)
    BY <1>2
  <2> QED  BY <2>1, <2>2
<1>5. TopP!HeadsOf(layer, fl) /\ GrowingTo(fl, got)
      /\ \A i \in 1 .. Len(fl) : Pair(fl[i], line[i])
  BY DEF FlightInv, FlightOf
<1>6. q \in Parcel /\ TypesInv /\ ConfigInv /\ QuietInv /\ PhvP!TypeOK /\ PhvP!PacketsInOrder
  BY <1>3 DEF PartsInv, TypesInv
<1>7. q.quiet => /\ q.conf.info0 = info0
                 /\ \A n \in Layers : \A f :
                      LookupType(q.conf.tables[n], f) = LookupType(layer[n].table, f)
  BY <1>3, <1>6, Consistent
<1>8. d \in Data
  <2>1. SliceOf(oPhv) \in Slice
    BY WiresType DEF PartsInv
  <2> QED  BY <2>1 DEF Slice
<1>9. NextOf(d, got, q)
  BY <1>4, <1>6, SliceUnits
<1>10. oPhv.tail => got + 1 = NumSlices(q)
  <2>1. oPhv.tail <=> got = PhvP!NumSlices(due[1]) - 1
    BY DEF PartsInv, PhvP!PacketsInOrder
  <2>2. NumSlices(q) \in Nat /\ NumSlices(q) = PhvP!NumSlices(due[1])
    BY <1>4, <1>6, Lengths DEF NumSlices
  <2> HIDE DEF q
  <2> QED  BY <1>1, <2>1, <2>2
<1>11. CASE got = 0
  <2>1. z = [slices |-> <<d>>, age |-> 1, infos |-> <<info0>>]
    BY <1>11 DEF Follows
  <2>2. Pair([slices |-> <<d>>, age |-> 1, infos |-> <<info0>>], q)
    <3> HIDE DEF d, q
    <3> QED  BY <1>6, <1>7, <1>8, <1>9, <1>11, PairFresh
  <2>3. z.age = 1 /\ z.slices = <<d>> /\ Len(<<d>>) = 1
    BY <2>1
  <2> HIDE DEF d, q, z
  <2>4. z.age = got + 1 /\ Len(z.slices) = got + 1 /\ Pair(z, q)
    BY <1>11, <2>1, <2>2, <2>3
  <2> QED  BY <1>1, <1>3, <1>10, <2>4 DEF z, q, k
<1>12. CASE got > 0
  <2>1. z = TopP!Aged(p, e)
    BY <1>12 DEF Follows
  <2>2. Len(fl) = k /\ Len(fl) \in 1 .. Len(fl) /\ Len(p.slices) = got /\ p.age = got
    BY <1>1, <1>5, <1>12 DEF GrowingTo
  <2>3. TopP!PacketOK(p) /\ Pair(p, q)
    BY <1>5, <2>2, FlightParts
  <2>4. e = <<d>>
    OBVIOUS
  <2> HIDE DEF p, q, d, e, z
  <2>5. Pair(TopP!Aged(p, e), q)
    BY <1>6, <1>7, <1>8, <1>9, <2>2, <2>3, <2>4, PairAged
  <2>6. TopP!Aged(p, e).age = p.age + 1 /\ TopP!Aged(p, e).slices = p.slices \o e
    BY <2>3, AgedIs
  <2>7. Len(p.slices \o e) = Len(p.slices) + 1
    <3>1. p.slices \in Seq(Data)
      BY <2>3, PacketParts
    <3> QED  BY <1>8, <2>4, <3>1
  <2>8. z.age = got + 1 /\ Len(z.slices) = got + 1 /\ Pair(z, q)
    BY <2>1, <2>2, <2>5, <2>6, <2>7
  <2> QED  BY <1>1, <1>3, <1>10, <2>8 DEF z, q, k
<1> QED  BY <1>1, <1>11, <1>12

(* Which slices of the first packet have left.                             *)
LEMMA OutAfter ==
  ASSUME PartsInv, NEW overtaken \in BOOLEAN, NEW new, NEW more, ClockEdge(overtaken, new, more),
         NEW fl, FlightInv(fl), NEW fl2, TopP!HeadsOf(layer', fl2), Follows(fl, fl2)
  PROVE  out' = IF Len(fl2) > 0 /\ fl2[1].age > T THEN fl2[1].age - T ELSE 0
<1> DEFINE b == Whole(fl)
           g == Leaving
           n == Len(fl)
           n2 == Len(fl2)
           a2 == fl2[1].age
           a1 == fl[1].age
<1>1. /\ g \in Nat /\ b \in Nat /\ g <= b /\ n \in Nat /\ n2 \in Nat /\ got \in Nat
      /\ got > 0 => oPhv.valid /\ n > 0
      /\ b = IF got = 0 THEN n ELSE n - 1
      /\ n2 = (b - g) + Bit(oPhv.valid)
  BY Counts
<1>2. /\ g \in {0, 1} /\ (g = 1 <=> oHead.valid /\ oHead.tail)
      /\ Bit(oPhv.valid) \in {0, 1} /\ (Bit(oPhv.valid) = 1 <=> oPhv.valid)
  BY DEF Leaving, Bit
<1>3. /\ TopP!HeadsOf(layer, fl) /\ GrowingTo(fl, got)
      /\ out = IF n > 0 /\ a1 > T THEN a1 - T ELSE 0
  BY DEF FlightInv, FlightOf
<1>4. /\ T \in Nat /\ T > 2
      /\ \A i \in 1 .. n : /\ fl[i].age < T + Len(fl[i].slices)
                           /\ fl[i].age \in Nat /\ Len(fl[i].slices) \in Nat
      /\ \A i, j \in 1 .. n : i < j => fl[i].age > fl[j].age + Len(fl[i].slices)
  <2>1. \A i \in 1 .. n : fl[i].age \in Nat /\ Len(fl[i].slices) \in Nat
    BY <1>3, FlightParts, PacketParts
  <2> QED  BY <1>3, <2>1, FlightParts
<1>5. /\ oHead.valid <=> n > 0 /\ a1 >= T
      /\ oHead.valid => (oHead.tail <=> a1 - T = Len(fl[1].slices) - 1)
  BY <1>3, OutputIs
<1>6. out' = IF oHead.valid THEN IF oHead.tail THEN 0 ELSE out + 1 ELSE out
  BY DEF ClockEdge, OutNext
<1>7. \A i \in 1 .. b - g : i + g \in 1 .. n /\ fl2[i].age = fl[i + g].age + 1
  BY WholeAfter
<1>8. oPhv.valid => fl2[n2].age = got + 1
  BY SentAfter
<1>9. got > 0 => fl[n].age = got /\ n > 0
  BY <1>3 DEF GrowingTo
<1> HIDE DEF b, g, n, n2
<1>10. n2 > 0 => \/ 1 + g \in 1 .. n /\ a2 = fl[1 + g].age + 1
                 \/ 1 + g > n /\ a2 = 1
  <2> SUFFICES ASSUME n2 > 0 PROVE \/ 1 + g \in 1 .. n /\ a2 = fl[1 + g].age + 1
                                   \/ 1 + g > n /\ a2 = 1
    OBVIOUS
  <2>1. CASE b - g > 0
    <3>1. 1 \in 1 .. b - g
      BY <1>1, <2>1
    <3> QED  BY <1>7, <3>1
  <2>2. CASE ~(b - g > 0)
    <3>1. n2 = 1 /\ oPhv.valid /\ b = g
      BY <1>1, <1>2, <2>2
    <3>2. a2 = got + 1
      BY <1>8, <3>1
    <3>3. CASE got = 0
      BY <1>1, <3>1, <3>2, <3>3
    <3>4. CASE got > 0
      <4>1. 1 + g = n /\ n \in 1 .. n
        BY <1>1, <3>1, <3>4
      <4> QED  BY <1>9, <3>2, <3>4, <4>1
    <3> QED  BY <1>1, <3>3, <3>4
  <2> QED  BY <2>1, <2>2
<1>11. CASE g = 1
  <2>1. out' = 0 /\ n > 0 /\ a1 - T = Len(fl[1].slices) - 1
    BY <1>2, <1>5, <1>6, <1>11
  <2>2. ASSUME n2 > 0 PROVE a2 <= T
    <3>1. CASE 1 + g \in 1 .. n /\ a2 = fl[1 + g].age + 1
      <4>1. 2 \in 1 .. n /\ a2 = fl[2].age + 1 /\ 1 \in 1 .. n
        BY <1>1, <1>11, <2>1, <3>1
      <4>2. a1 > fl[2].age + Len(fl[1].slices)
        BY <1>4, <4>1
      <4>3. a1 \in Nat /\ fl[2].age \in Nat /\ Len(fl[1].slices) \in Nat /\ T \in Nat
        BY <1>4, <4>1
      <4> QED  BY <2>1, <4>1, <4>2, <4>3
    <3>2. CASE a2 = 1
      BY <1>4, <3>2
    <3> QED  BY <1>10, <2>2, <3>1, <3>2
  <2>3. n2 > 0 => a2 \in Nat
    BY <1>4, <1>10
  <2> HIDE DEF a2
  <2>4. ~(n2 > 0 /\ a2 > T)
    BY <1>4, <2>2, <2>3
  <2> QED  BY <2>1, <2>4 DEF n2, a2
<1>12. CASE g = 0
  <2>1. n > 0 => 1 \in 1 .. n /\ a1 \in Nat
    BY <1>1, <1>4
  <2>2. n > 0 => n2 > 0
    BY <1>1, <1>2, <1>12
  <2>3. n > 0 => a2 = a1 + 1
    BY <1>1, <1>10, <1>12, <2>1, <2>2
  <2>4. CASE n > 0 /\ a1 >= T
    <3>1. out' = out + 1
      BY <1>2, <1>5, <1>6, <1>12, <2>4
    <3>2. out = a1 - T
      BY <1>3, <1>4, <2>1, <2>4
    <3>3. out' = a2 - T /\ a2 > T
      BY <1>4, <2>1, <2>3, <2>4, <3>1, <3>2
    <3> QED  BY <2>2, <2>4, <3>3 DEF n2
  <2>5. CASE ~(n > 0 /\ a1 >= T)
    <3>1. out' = 0
      <4>1. ~(n > 0 /\ a1 > T)
        BY <1>4, <2>1, <2>5
      <4>2. ~oHead.valid
        BY <1>5, <2>5
      <4> QED  BY <1>3, <1>6, <4>1, <4>2
    <3>2. ~(n2 > 0 /\ a2 > T)
      <4>1. CASE n > 0
        BY <1>4, <2>1, <2>3, <2>5, <4>1
      <4>2. CASE ~(n > 0)
        <5>1. n2 > 0 => a2 = 1
          BY <1>1, <1>10, <1>12, <4>2
        <5> QED  BY <1>4, <5>1
      <4> QED  BY <4>1, <4>2
    <3> QED  BY <3>1, <3>2 DEF n2
  <2> QED  BY <2>4, <2>5
<1> QED  BY <1>2, <1>11, <1>12

LEMMA FlightEdge ==
  ASSUME PartsInv, NEW overtaken \in BOOLEAN, NEW new, NEW more, ClockEdge(overtaken, new, more),
         NEW fl, FlightInv(fl)
  PROVE  \E fl2 : FlightOf(layer', line', due', got', out', fl2)
<1>1. TopP!HeadsOf(layer, fl) /\ TopP!MetasOf(layer, fl) /\ Growing(fl)
  BY DEF FlightInv, FlightOf, Growing
<1>2. PICK fl2 : TopP!HeadsOf(layer', fl2) /\ TopP!MetasOf(layer', fl2) /\ Follows(fl, fl2)
  BY <1>1, FlightStep DEF PartsInv
<1> DEFINE b == Whole(fl)
           g == Leaving
           n2 == Len(fl2)
           d == Len(due)
           e == SentTail
           m == Len(new)
           b2 == WholeOf(fl2, got')
           d2 == Len(due')
<1>3. /\ g \in Nat /\ b \in Nat /\ g <= b /\ n2 \in Nat /\ got \in Nat /\ Gone = g
      /\ got > 0 => oPhv.valid
      /\ Len(line) = b + d /\ Stay = (b - g) + d
      /\ b2 = (b - g) + e /\ n2 = (b - g) + Bit(oPhv.valid)
  BY <1>2, Counts
<1>4. /\ d \in Nat /\ e \in Nat /\ e <= d /\ m \in {0, 1}
      /\ oPhv.valid => d >= 1
      /\ d2 = (d - e) + m
      /\ \A j \in 1 .. d - e : due'[j] = due[j + e]
      /\ m = 1 => due'[(d - e) + 1] = new[1].words
      /\ got' = IF oPhv.valid THEN IF oPhv.tail THEN 0 ELSE got + 1 ELSE got
  BY DueAfter DEF PartsInv
<1>5. /\ Len(line') = Stay + m
      /\ \A j \in 1 .. Stay : Kept(line[j + g], line'[j]) /\ line[j + g] \in Parcel
      /\ m = 1 => line'[Stay + 1] = new[1]
  BY <1>3, LineAfter DEF PartsInv
<1>6. /\ e \in {0, 1} /\ (e = 1 <=> oPhv.valid /\ oPhv.tail)
      /\ Bit(oPhv.valid) = IF oPhv.valid THEN 1 ELSE 0
  BY DEF SentTail, Bit
<1>7. /\ \A j \in 1 .. d : line[b + j].words = due[j]
      /\ \A i \in 1 .. b : Len(fl[i].slices) = NumSlices(line[i])
  BY DEF FlightInv, FlightOf, Whole
<1>8. ASSUME NEW i \in 1 .. b - g
      PROVE  Pair(fl2[i], line[i + g]) /\ Len(fl2[i].slices) = NumSlices(line[i + g])
  BY <1>2, WholeAfter
<1>9. oPhv.valid => /\ n2 = (b - g) + 1
                    /\ fl2[n2].age = got + 1 /\ Len(fl2[n2].slices) = got + 1
                    /\ oPhv.tail => got + 1 = NumSlices(line[b + 1])
                    /\ Pair(fl2[n2], line[b + 1])
  BY <1>2, SentAfter
<1>10. out' = IF n2 > 0 /\ fl2[1].age > T THEN fl2[1].age - T ELSE 0
  BY <1>2, OutAfter
<1>11. GrowingTo(fl2, got')
  <2>1. ASSUME got' > 0 PROVE oPhv.valid /\ got' = got + 1
    BY <1>3, <1>4, <2>1
  <2> QED  BY <1>3, <1>9, <2>1 DEF GrowingTo
<1> HIDE DEF b, g, n2, d, e, m, b2, d2
<1>12. Len(line') = b2 + d2
  BY <1>3, <1>4, <1>5
<1>13. ASSUME NEW j \in 1 .. d2 PROVE line'[b2 + j].words = due'[j]
  <2>1. CASE j <= d - e
    <3>1. b2 + j \in 1 .. Stay /\ (b2 + j) + g = b + (j + e) /\ j + e \in 1 .. d /\ j \in 1 .. d - e
      BY <1>3, <1>4, <2>1
    <3>2. line'[b2 + j].words = line[b + (j + e)].words
      BY <1>5, <3>1 DEF Kept
    <3> QED  BY <1>4, <1>7, <3>1, <3>2
  <2>2. CASE ~(j <= d - e)
    <3>1. m = 1 /\ j = (d - e) + 1 /\ b2 + j = Stay + 1
      BY <1>3, <1>4, <2>2
    <3> QED  BY <1>4, <1>5, <3>1
  <2> QED  BY <2>1, <2>2
<1>14. ASSUME NEW i \in 1 .. n2 PROVE i \in 1 .. Stay
  BY <1>3, <1>4, <1>6
<1>15. ASSUME NEW i \in 1 .. n2 PROVE i \in 1 .. b - g \/ (oPhv.valid /\ i = n2 /\ i + g = b + 1)
  BY <1>3, <1>6, <1>9
<1>16. ASSUME NEW i \in 1 .. n2 PROVE Pair(fl2[i], line'[i])
  <2>1. Pair(fl2[i], line[i + g])
    BY <1>8, <1>9, <1>15
  <2>2. Kept(line[i + g], line'[i])
    BY <1>5, <1>14
  <2> QED  BY <2>1, <2>2, PairKept
<1>17. ASSUME NEW i \in 1 .. b2 PROVE Len(fl2[i].slices) = NumSlices(line'[i])
  <2>1. i \in 1 .. n2
    BY <1>3, <1>6
  <2>2. NumSlices(line'[i]) = NumSlices(line[i + g])
    BY <1>5, <1>14, <2>1, FromParts
  <2>3. CASE i \in 1 .. b - g
    BY <1>8, <2>2, <2>3
  <2>4. CASE ~(i \in 1 .. b - g)
    <3>1. oPhv.valid /\ i = n2 /\ i + g = b + 1
      BY <1>15, <2>1, <2>4
    <3>2. e = 1
      BY <1>3, <1>6, <2>4
    <3> QED  BY <1>6, <1>9, <2>2, <3>1, <3>2
  <2> QED  BY <2>3, <2>4
<1>18. FlightOf(layer', line', due', got', out', fl2)
  BY <1>2, <1>10, <1>11, <1>12, <1>13, <1>16, <1>17 DEF FlightOf, b2, d2, n2
<1> QED  BY <1>18

(* No packet is in flight or in line.                                      *)
LEMMA EmptyFlight ==
  ASSUME TopP!HeadsOf(layer, <<>>), TopP!MetasOf(layer, <<>>)
  PROVE  FlightOf(layer, <<>>, <<>>, 0, 0, <<>>)
<1> DEFINE s == <<>>
<1>1. Len(s) = 0
  OBVIOUS
<1> HIDE DEF s
<1>2. WholeOf(s, 0) = 0 /\ GrowingTo(s, 0)
  BY <1>1 DEF WholeOf, GrowingTo
<1>3. TopP!HeadsOf(layer, s) /\ TopP!MetasOf(layer, s)
  BY DEF s
<1>4. FlightOf(layer, s, s, 0, 0, s)
  BY <1>1, <1>2, <1>3 DEF FlightOf
<1> QED  BY <1>4 DEF s

LEMMA StreamStep ==
  ASSUME PartsInv, MarksInv, IdleInv, StreamInv, [Next]_vars
  PROVE  StreamInv'
<1>1. ASSUME NEW overtaken \in BOOLEAN, NEW new, NEW more, ClockEdge(overtaken, new, more)
      PROVE  StreamInv'
  <2>1. PICK fl : FlightInv(fl)
    BY <1>1 DEF ClockEdge, StreamInv
  <2>2. \E fl2 : FlightOf(layer', line', due', got', out', fl2)
    BY <1>1, <2>1, FlightEdge
  <2> QED  BY <2>2 DEF StreamInv, FlightInv
<1>2. PhvP!TypeOK /\ TypesInv /\ conf \in BOOLEAN /\ whole \in BOOLEAN
  BY DEF PartsInv, PhvP!TypeOK
<1>3. CASE Pause
  BY <1>1, <1>2, <1>3, Edges
<1>4. ASSUME NEW t \in Tokens, NEW isConf \in BOOLEAN, HeadWord(t, isConf) PROVE StreamInv'
  BY <1>1, <1>2, <1>4, Edges
<1>5. ASSUME NEW t \in Tokens, NEW tail \in BOOLEAN, BodyWord(t, tail) PROVE StreamInv'
  <2>1. \E new, more : ClockEdge(conf /\ whole, new, more)
    BY <1>2, <1>5, Edges
  <2> DEFINE o == conf /\ whole
  <2>2. o \in BOOLEAN /\ \E new, more : ClockEdge(o, new, more)
    BY <2>1
  <2> HIDE DEF o
  <2> QED  BY <1>1, <2>2
<1>6. CASE ResetClock
  BY <1>6 DEF ResetClock, StreamInv
<1>7. CASE ResetEnds
  <2>1. /\ layer' = layer /\ line' = line /\ due' = due /\ got' = got /\ out' = out
        /\ resetting
        /\ \A k \in Layers : /\ ~layer[k].head.valid /\ ~layer[k].sh.preHead.valid
                             /\ ~layer[k].sh.head.valid
    BY <1>7 DEF ResetEnds, phvVars, topVars, history
  <2>2. FlightOf(layer, <<>>, <<>>, 0, 0, <<>>)
    BY <2>1, EmptyLayers, EmptyFlight
  <2>3. FlightOf(layer', line', due', got', out', <<>>)
    BY <2>1, <2>2 DEF IdleInv
  <2> QED  BY <2>3 DEF StreamInv, FlightInv
<1>8. CASE UNCHANGED vars
  BY <1>8 DEF vars, phvVars, topVars, history, StreamInv, FlightInv
<1> QED  BY <1>3, <1>4, <1>5, <1>6, <1>7, <1>8 DEF Next

LEMMA StreamInit == Init => MarksInv /\ LinkInv /\ IdleInv /\ QuietInv /\ StreamInv
<1> SUFFICES ASSUME Init PROVE MarksInv /\ LinkInv /\ IdleInv /\ QuietInv /\ StreamInv
  OBVIOUS
<1>1. /\ ~oRule.valid /\ rx = <<>> /\ due = <<>> /\ got = 0 /\ line = <<>> /\ out = 0
      /\ ~resetting
  BY DEF Init, Phv!Init, Phv!NoWord
<1>2. PICK c \in Configs :
        layer = [k \in Layers |-> Top!ZeroLayer(c.tables[k], c.tables[k][RULE_NUM - 1])]
  BY DEF Init
<1>3. Top!ZeroSlice = ZeroSlice
  BY DEF Top!ZeroSlice, ZeroSlice, Top!ZeroData, ZeroData, Top!Zero, Zero, Top!UnitIds, UnitIds
<1>4. ASSUME NEW k \in Layers
      PROVE  /\ layer[k].head = ZeroSlice /\ layer[k].meta = ZeroSlice
             /\ layer[k].sh.preHead = ZeroSlice /\ layer[k].sh.preMeta = ZeroSlice
             /\ layer[k].sh.head = ZeroSlice /\ layer[k].sh.meta = ZeroSlice
             /\ layer[k].sh.startBit = FALSE /\ layer[k].wren = {}
  BY <1>2, <1>3 DEF Top!ZeroLayer
<1>5. ZeroSlice.valid = FALSE /\ ZeroSlice.start = FALSE /\ ZeroSlice.tail = FALSE
  BY DEF ZeroSlice
<1>6. MarksInv
  BY <1>4, <1>5 DEF MarksInv, LayerMarks, Marks, Beside
<1>7. LinkInv /\ IdleInv
  <2> DEFINE h == layer[1].head
  <2>1. h.valid = FALSE /\ h.tail = FALSE
    BY <1>4, <1>5, FirstLayer
  <2>2. ~(got > 0)
    BY <1>1
  <2> HIDE DEF h
  <2>3. LinkInv
    BY <2>1, <2>2, <1>1 DEF LinkInv, h
  <2>4. IdleInv
    BY <1>1 DEF IdleInv
  <2> QED  BY <2>3, <2>4
<1>8. QuietInv
  BY <1>1, <1>4 DEF QuietInv, NoneQuiet
<1>9. FlightOf(layer, <<>>, <<>>, 0, 0, <<>>)
  BY <1>4, <1>5, <1>6, EmptyLayers, EmptyFlight
<1> QED  BY <1>1, <1>6, <1>7, <1>8, <1>9 DEF StreamInv, FlightInv

(* What holds of Gen_PHV_and_Conf_Parser holds here, and with it the       *)
(* invariant of the whole stream.                                          *)
PhvInv == PhvP!TypeOK /\ PhvP!BacklogInv /\ PhvP!FlagsInv /\ PhvP!ConfInv
          /\ PhvP!PacketsInOrder /\ PhvP!SlicesInside
OwnInv == MarksInv /\ LinkInv /\ IdleInv /\ ConfigInv /\ QuietInv /\ StreamInv

LEMMA StreamHolds ==
  ASSUME PhvP!Fits
  PROVE  Spec => [](PhvInv /\ TypesInv /\ OwnInv)
<1>1. PhvP!Spec => []PhvP!BacklogInv
  BY PhvP!Backlog, GenHolds
<1>2. PhvP!Spec => []PhvP!FlagsInv
  BY PhvP!Flags, GenHolds
<1>3. PhvP!Spec => []PhvP!ConfInv
  BY PhvP!ConfInvariant, GenHolds
<1>4. PhvP!Spec => [](PhvP!PacketsInOrder /\ PhvP!SlicesInside)
  BY PhvP!Sending, GenHolds
<1>5. Spec => [](PhvInv /\ TypesInv)
  <2>1. ((PhvP!TypeOK /\ TypesInv) /\ PhvP!BacklogInv /\ PhvP!FlagsInv /\ PhvP!ConfInv
         /\ (PhvP!PacketsInOrder /\ PhvP!SlicesInside)) => (PhvInv /\ TypesInv)
    BY DEF PhvInv
  <2> QED  BY <1>1, <1>2, <1>3, <1>4, <2>1, Types, Implements, PTL
<1>6. Init => OwnInv
  BY ConfigInit, StreamInit DEF OwnInv
<1>7. PhvInv /\ TypesInv /\ (PhvInv /\ TypesInv)' /\ OwnInv /\ [Next]_vars => OwnInv'
  <2> SUFFICES ASSUME PhvInv, TypesInv, (PhvInv /\ TypesInv)', OwnInv, [Next]_vars PROVE OwnInv'
    OBVIOUS
  <2>1. /\ PhvP!TypeOK /\ PhvP!TypeOK' /\ PhvP!BacklogInv /\ PhvP!FlagsInv /\ PhvP!ConfInv
        /\ PhvP!PacketsInOrder
    BY DEF PhvInv
  <2>2. MarksInv /\ LinkInv /\ IdleInv /\ ConfigInv /\ QuietInv /\ StreamInv
    BY DEF OwnInv
  <2>3. MarksInv'
    BY <2>1, <2>2, MarksStep
  <2>4. LinkInv' /\ IdleInv'
    BY <2>1, <2>2, LinkStep
  <2>5. ConfigInv'
    BY <2>1, <2>2, ConfigStep
  <2>6. QuietInv'
    BY <2>1, <2>2, QuietStep
  <2>7. StreamInv'
    BY <2>1, <2>2, StreamStep DEF PartsInv
  <2> QED  BY <2>3, <2>4, <2>5, <2>6, <2>7 DEF OwnInv
<1> QED  BY <1>5, <1>6, <1>7, PTL DEF Spec

-----------------------------------------------------------------------------
(* What leaves.  A packet in flight agrees with the reference wherever its *)
(* slices have come.                                                       *)
LEMMA InsideSame ==
  ASSUME NEW q \in Parcel, NEW s \in Seq(Data),
         \A x \in Nat : x < LengthOf(q) /\ x < TopP!Row(Len(s)) => Flat(s, x) = UnitAt(q, x),
         NEW n \in Nat, n < Len(s) \/ Len(s) = NumSlices(q),
         NEW y \in Nat, y < LengthOf(q), y < TopP!Row(n) + CANDI_NUM
  PROVE  Flat(s, y) = Flat(SlicesOf(q), y)
<1> DEFINE l == Len(s)
<1>1. l \in Nat
  OBVIOUS
<1>2. n < l \/ l = NumSlices(q)
  OBVIOUS
<1>3. LengthOf(q) \in Nat /\ LengthOf(q) <= TopP!Row(NumSlices(q)) /\ TopP!Row(NumSlices(q)) \in Nat
  BY Lengths
<1> HIDE DEF l
<1>4. n < l => TopP!Row(n) + CANDI_NUM <= TopP!Row(l)
  BY ONLY <1>1, n \in Nat, TopP!RowLemma, WidthAssumption, NumAssumption, DeparserAssumption, TopHolds
<1>5. TopP!Row(l) \in Nat /\ TopP!Row(n) \in Nat /\ CANDI_NUM \in Nat
  BY ONLY <1>1, n \in Nat, TopP!RowLemma, UnitsLemma, WidthAssumption, NumAssumption,
          DeparserAssumption, TopHolds
<1>6. y < TopP!Row(l)
  BY <1>2, <1>3, <1>4, <1>5
<1>7. Flat(s, y) = UnitAt(q, y)
  BY <1>6 DEF l
<1> QED  BY <1>7, SlicesFlat

(* The packet at the output is the first one in line.                      *)
LEMMA OldestIs ==
  ASSUME PhvInv, TypesInv, OwnInv, oHead.valid, ~resetting, NEW fl, FlightInv(fl)
  PROVE  /\ line # <<>> /\ line[1] \in Parcel
         /\ Len(fl) \in Nat /\ 1 \in 1 .. Len(fl)
         /\ TopP!PacketOK(fl[1]) /\ Pair(fl[1], line[1])
         /\ out \in Nat /\ fl[1].age = T + out
         /\ Len(fl[1].infos) = NUM_LAYER + 1
         /\ Len(fl[1].slices) = fl[1].age \/ Len(fl[1].slices) = NumSlices(line[1])
         /\ out = Len(fl[1].slices) - 1 <=> out = NumSlices(line[1]) - 1
<1>1. /\ PhvP!TypeOK /\ PhvP!PacketsInOrder /\ PhvP!SlicesInside /\ LinkInv
  BY DEF PhvInv, OwnInv
<1>2. /\ TopP!HeadsOf(layer, fl) /\ GrowingTo(fl, got)
      /\ Len(line) = WholeOf(fl, got) + Len(due)
      /\ \A j \in 1 .. Len(due) : line[WholeOf(fl, got) + j].words = due[j]
      /\ \A i \in 1 .. WholeOf(fl, got) : Len(fl[i].slices) = NumSlices(line[i])
      /\ \A i \in 1 .. Len(fl) : Pair(fl[i], line[i])
      /\ out = IF Len(fl) > 0 /\ fl[1].age > T THEN fl[1].age - T ELSE 0
  BY DEF FlightInv, FlightOf
<1>3. /\ Len(fl) \in Nat /\ T \in Nat /\ T > 2
      /\ \A i \in 1 .. Len(fl) : TopP!PacketOK(fl[i])
  BY <1>2, FlightParts
<1>4. Len(fl) > 0 /\ fl[1].age >= T
  BY <1>2, OutputIs
<1>5. 1 \in 1 .. Len(fl)
  BY <1>3, <1>4
<1>6. TopP!PacketOK(fl[1]) /\ Pair(fl[1], line[1])
  BY <1>2, <1>3, <1>5
<1>7. fl[1].age \in Nat /\ Len(fl[1].slices) \in Nat /\ Len(fl[1].infos) \in Nat
  BY <1>6, PacketParts
<1>8. out \in Nat /\ fl[1].age = T + out
  BY <1>2, <1>3, <1>4, <1>7
<1>9. Len(fl[1].infos) = NUM_LAYER + 1
  <2>1. TopP!LookupAge(NUM_LAYER) + 2 = T /\ TopP!LookupAge(NUM_LAYER) \in Nat
    BY FirstLayer, SameSets, TopP!LayerAges, WidthAssumption, NumAssumption, DeparserAssumption,
       TopHolds DEF T
  <2>2. TopP!LookupAge(NUM_LAYER) < fl[1].age
    BY <1>3, <1>4, <1>7, <2>1
  <2>3. NUM_LAYER + 1 <= Len(fl[1].infos) /\ Len(fl[1].infos) \in 1 .. NUM_LAYER + 1
    BY <1>6, <2>2, FirstLayer, SameSets DEF TopP!PacketOK
  <2> QED  BY <1>7, <2>3, LayerNumber
<1>10. got \in Nat /\ Len(due) \in Nat /\ line \in Seq(Parcel)
  BY <1>1 DEF PhvP!TypeOK, TypesInv
<1>11. CASE got > 0 /\ Len(fl) = 1
  <2>1. fl[1].age = got /\ Len(fl[1].slices) = got
    BY <1>2, <1>11 DEF GrowingTo
  <2>2. WholeOf(fl, got) = 0
    BY <1>11 DEF WholeOf
  <2>3. oPhv.valid
    BY <1>1, <1>11 DEF LinkInv
  <2>4. due # <<>> /\ got + 1 <= PhvP!NumSlices(due[1])
    BY <1>1, <2>3 DEF PhvP!PacketsInOrder, PhvP!SlicesInside
  <2>5. Len(due) > 0
    BY <1>1, <1>10, <2>4 DEF PhvP!TypeOK
  <2>6. Len(line) > 0 /\ line[1].words = due[1]
    BY <1>2, <1>10, <2>2, <2>5
  <2>7. line # <<>> /\ line[1] \in Parcel
    BY <1>10, <2>6
  <2>8. got + 1 <= NumSlices(line[1]) /\ NumSlices(line[1]) \in Nat
    BY <2>4, <2>6, <2>7, Lengths DEF NumSlices
  <2>9. ~(out = got - 1) /\ ~(out = NumSlices(line[1]) - 1)
    BY <1>3, <1>8, <1>10, <2>1, <2>8
  <2> QED  BY <1>3, <1>5, <1>6, <1>8, <1>9, <2>1, <2>7, <2>9
<1>12. CASE ~(got > 0 /\ Len(fl) = 1)
  <2>1. WholeOf(fl, got) \in Nat /\ 1 <= WholeOf(fl, got)
    <3> DEFINE n == Len(fl)
               w == WholeOf(fl, got)
    <3>1. w = IF got = 0 THEN n ELSE n - 1
      BY DEF WholeOf
    <3>2. n \in Nat /\ n > 0 /\ got \in Nat /\ ~(got > 0 /\ n = 1)
      BY <1>3, <1>4, <1>10, <1>12
    <3> HIDE DEF n, w
    <3>3. w \in Nat /\ 1 <= w
      BY <3>1, <3>2
    <3> QED  BY <3>3 DEF w
  <2>2. Len(line) > 0 /\ Len(fl[1].slices) = NumSlices(line[1])
    BY <1>2, <1>10, <2>1
  <2>3. line # <<>> /\ line[1] \in Parcel
    BY <1>10, <2>2
  <2> QED  BY <1>3, <1>5, <1>6, <1>8, <1>9, <2>2, <2>3
<1> QED  BY <1>11, <1>12

(* The reference parse of a packet whose parse is told: its last position, *)
(* and the fields that its headers name.                                   *)
End == NUM_LAYER + 1
FieldAt(q, k, j) == Flat(SlicesOf(q), HeadPos(InfosOf(q), k) + InfosOf(q)[k].keyOffset[j])
NamedAt(q, k, j, u) ==
  InfosOf(q)[k].keyOffset_v[j] /\ MetaPos(InfosOf(q), k) + j = u

LEMMA HeadAgrees ==
  ASSUME PhvInv, TypesInv, OwnInv, oHead.valid, ~resetting, NEW fl, FlightInv(fl),
         line[1].quiet, HeadersInside(line[1], InfosOf(line[1]))
  PROVE  /\ fl[1].infos \in Seq(LookupRst) /\ InfosOf(line[1]) \in Seq(LookupRst)
         /\ Len(InfosOf(line[1])) = End /\ Len(fl[1].infos) = End
         /\ \A k \in Layers : fl[1].infos[k] = InfosOf(line[1])[k]
         /\ \A k \in 1 .. End : /\ HeadPos(fl[1].infos, k) = HeadPos(InfosOf(line[1]), k)
                                /\ MetaPos(fl[1].infos, k) = MetaPos(InfosOf(line[1]), k)
                                /\ HeadPos(InfosOf(line[1]), k) \in Nat
                                /\ MetaPos(InfosOf(line[1]), k) \in Nat
                                /\ HeadPos(InfosOf(line[1]), k) <= TopP!Row(k - 1)
<1> DEFINE q == line[1]
           p == fl[1]
           a == InfosOf(q)
           b == p.infos
<1>1. q \in Parcel /\ TopP!PacketOK(p) /\ Pair(p, q) /\ Len(b) = End
  BY OldestIs DEF End
<1>2. b \in Seq(LookupRst)
  BY <1>1, PacketParts
<1>3. a \in Seq(LookupRst) /\ Len(a) = End
  BY <1>1, InfosLemma DEF End
<1>4. \A m \in 1 .. Len(b) : b[m] = a[m]
  BY <1>1 DEF Pair, ParsedLike
<1>5. End \in Nat /\ \A k \in Layers : k \in 1 .. End
  BY LayerNumber DEF End, Layers
<1> HIDE DEF p, q, a, b
<1>6. \A k \in 1 .. End : k \in 1 .. Len(a) + 1 /\ k \in 1 .. Len(b) + 1
  BY <1>1, <1>3, <1>5
<1>7. \A k \in 1 .. Len(b) + 1 : HeadPos(b, k) = HeadPos(a, k) /\ MetaPos(b, k) = MetaPos(a, k)
  <2>1. Len(b) <= Len(a) /\ \A m \in 1 .. Len(b) : a[m] = b[m]
    BY <1>1, <1>3, <1>4, <1>5
  <2>2. b \in Seq(TopP!LookupRst) /\ a \in Seq(TopP!LookupRst)
    BY <1>2, <1>3, SameSets
  <2>3. \A k \in 1 .. Len(b) + 1 : /\ TopP!HeadPos(a, k) = TopP!HeadPos(b, k)
                                   /\ TopP!MetaPos(a, k) = TopP!MetaPos(b, k)
    BY ONLY <2>1, <2>2, TopP!PositionsKept, WidthAssumption, NumAssumption, DeparserAssumption, TopHolds
  <2> QED  BY <2>3, SameRow
<1>8. \A k \in 1 .. Len(a) + 1 : /\ HeadPos(a, k) \in Nat /\ HeadPos(a, k) <= TopP!Row(k - 1)
                                 /\ MetaPos(a, k) \in Nat
  <2>1. a \in Seq(TopP!LookupRst)
    BY <1>3, SameSets
  <2>2. \A k \in 1 .. Len(a) + 1 :
          /\ TopP!HeadPos(a, k) \in Nat /\ TopP!HeadPos(a, k) <= TopP!Row(k - 1)
          /\ TopP!MetaPos(a, k) \in Nat
    BY ONLY <2>1, TopP!Positions, WidthAssumption, NumAssumption, DeparserAssumption, TopHolds
  <2> QED  BY <2>2, SameRow
<1>9. \A k \in Layers : b[k] = a[k]
  BY <1>1, <1>4, <1>5
<1>10. \A k \in 1 .. End : /\ HeadPos(b, k) = HeadPos(a, k) /\ MetaPos(b, k) = MetaPos(a, k)
                           /\ HeadPos(a, k) \in Nat /\ MetaPos(a, k) \in Nat
                           /\ HeadPos(a, k) <= TopP!Row(k - 1)
  BY <1>6, <1>7, <1>8
<1> QED  BY <1>1, <1>2, <1>3, <1>9, <1>10 DEF p, q, a, b

(* The slice that leaves holds the packet's own words from where its       *)
(* headers end.                                                            *)
LEMMA DataLeaves ==
  ASSUME PhvInv, TypesInv, OwnInv, oHead.valid, ~resetting, NEW fl, FlightInv(fl),
         line[1].quiet, HeadersInside(line[1], InfosOf(line[1])),
         NEW u \in UnitIds,
         HeadPos(InfosOf(line[1]), End) + out * CANDI_NUM + u < LengthOf(line[1])
  PROVE  oHead.data[u] =
         Flat(SlicesOf(line[1]), HeadPos(InfosOf(line[1]), End) + out * CANDI_NUM + u)
<1> DEFINE q == line[1]
           p == fl[1]
           h == HeadPos(InfosOf(q), End)
           r == TopP!Row(out)
           n == NUM_LAYER + out
           l == Len(p.slices)
           y == h + out * CANDI_NUM + u
<1>1. /\ q \in Parcel /\ TopP!PacketOK(p) /\ Pair(p, q) /\ out \in Nat /\ p.age = T + out
      /\ l = p.age \/ l = NumSlices(q)
  BY OldestIs
<1>2. p.slices \in Seq(Data) /\ l \in Nat
  BY <1>1, PacketParts
<1>3. NUM_LAYER \in Nat /\ End \in 1 .. End /\ End - 1 = NUM_LAYER /\ T \in Nat /\ NUM_LAYER < T
  BY LayerNumber DEF End, T, TopP!Latency
<1>4. HeadPos(p.infos, End) = h /\ h \in Nat /\ h <= TopP!Row(NUM_LAYER)
  BY <1>3, HeadAgrees
<1>5. oHead.data = Window(p.slices, HeadPos(p.infos, NUM_LAYER + 1) + TopP!Row(p.age - T))
  BY OutputIs DEF FlightInv, FlightOf
<1> HIDE DEF p, q, h
<1>6. p.age - T = out
  BY <1>1, <1>3
<1>7. /\ r = out * CANDI_NUM /\ r \in Nat /\ CANDI_NUM \in Nat /\ u \in Nat /\ u < CANDI_NUM
      /\ TopP!Row(NUM_LAYER) \in Nat /\ TopP!Row(n) = TopP!Row(NUM_LAYER) + r /\ n \in Nat
  <2>1. /\ r \in Nat /\ TopP!Row(NUM_LAYER) \in Nat /\ TopP!Row(n) = TopP!Row(NUM_LAYER) + r
    BY ONLY <1>1, <1>3, TopP!RowLemma, WidthAssumption, NumAssumption, DeparserAssumption, TopHolds
  <2> QED  BY <1>1, <1>3, <2>1, UnitsLemma DEF UnitIds, TopP!Row
<1> HIDE DEF r
<1>8. HeadPos(p.infos, NUM_LAYER + 1) + TopP!Row(p.age - T) = h + r /\ h + r \in Nat
  BY <1>4, <1>6, <1>7 DEF End, r
<1>9. oHead.data[u] = Flat(p.slices, h + r + u)
  BY <1>5, <1>7, <1>8, WindowUnit
<1>10. y = h + r + u /\ y \in Nat /\ y < LengthOf(q) /\ y < TopP!Row(n) + CANDI_NUM
  <2>1. y = h + r + u /\ y < LengthOf(q)
    BY <1>7 DEF h, q, r
  <2> HIDE DEF y
  <2>2. h + r + u \in Nat /\ h + r + u < TopP!Row(n) + CANDI_NUM
    BY <1>4, <1>7
  <2> QED  BY <2>1, <2>2
<1> HIDE DEF y, l, n
<1>11. n < l \/ l = NumSlices(q)
  BY <1>1, <1>3 DEF n
<1>12. Flat(p.slices, y) = Flat(SlicesOf(q), y)
  <2> DEFINE s == p.slices
  <2>1. s \in Seq(Data) /\ (n < Len(s) \/ Len(s) = NumSlices(q))
        /\ \A x \in Nat : x < LengthOf(q) /\ x < TopP!Row(Len(s)) => Flat(s, x) = UnitAt(q, x)
    BY <1>1, <1>2, <1>11 DEF Pair, UnitsOf, l
  <2> HIDE DEF s
  <2>2. Flat(s, y) = Flat(SlicesOf(q), y)
    BY <1>1, <1>7, <1>10, <2>1, InsideSame
  <2> QED  BY <2>2 DEF s
<1> QED  BY <1>9, <1>10, <1>12 DEF y, h, q

(* The fields of a packet that leaves are those of the reference.          *)
LEMMA FieldLeaves ==
  ASSUME PhvInv, TypesInv, OwnInv, oHead.valid, ~resetting, NEW fl, FlightInv(fl),
         line[1].quiet, HeadersInside(line[1], InfosOf(line[1])),
         NEW k \in Layers, NEW j \in KeyIds, InfosOf(line[1])[k].keyOffset_v[j]
  PROVE  Flat(fl[1].slices, HeadPos(fl[1].infos, k) + fl[1].infos[k].keyOffset[j]) =
         FieldAt(line[1], k, j)
<1> DEFINE q == line[1]
           p == fl[1]
           a == InfosOf(q)
           h == HeadPos(a, k)
           o == a[k].keyOffset[j]
           l == Len(p.slices)
           s == p.slices
<1>1. /\ q \in Parcel /\ TopP!PacketOK(p) /\ Pair(p, q) /\ out \in Nat /\ p.age = T + out
      /\ l = p.age \/ l = NumSlices(q)
  BY OldestIs
<1>2. s \in Seq(Data) /\ l \in Nat
  BY <1>1, PacketParts
<1>3. NUM_LAYER \in Nat /\ k \in Nat /\ k - 1 \in Nat /\ k <= NUM_LAYER /\ k \in 1 .. End
      /\ T \in Nat /\ NUM_LAYER < T
  BY LayerNumber DEF End, Layers, T, TopP!Latency
<1>4. HeadPos(p.infos, k) = h /\ h \in Nat /\ h <= TopP!Row(k - 1) /\ p.infos[k] = a[k]
  BY <1>3, HeadAgrees
<1>5. o \in UnitIds
  <2>1. a \in Seq(LookupRst) /\ Len(a) = End
    BY HeadAgrees
  <2> HIDE DEF a
  <2>2. a[k] \in LookupRst
    BY <1>3, <2>1
  <2> QED  BY <2>2 DEF LookupRst
<1>6. h + o < LengthOf(q)
  BY DEF HeadersInside
<1> HIDE DEF p, q, h, o, a, l
<1>7. TopP!Row(k - 1) \in Nat
  BY ONLY <1>3, TopP!RowLemma, WidthAssumption, NumAssumption, DeparserAssumption, TopHolds
<1>8. o \in Nat /\ o < CANDI_NUM /\ CANDI_NUM \in Nat
  BY <1>5, UnitsLemma DEF UnitIds
<1>9. h + o \in Nat /\ h + o < TopP!Row(k - 1) + CANDI_NUM
  BY <1>4, <1>7, <1>8
<1>10. k - 1 < l \/ l = NumSlices(q)
  BY <1>1, <1>3
<1>11. Flat(s, h + o) = Flat(SlicesOf(q), h + o)
  <2>1. s \in Seq(Data) /\ (k - 1 < Len(s) \/ Len(s) = NumSlices(q))
        /\ \A x \in Nat : x < LengthOf(q) /\ x < TopP!Row(Len(s)) => Flat(s, x) = UnitAt(q, x)
    BY <1>1, <1>2, <1>10 DEF Pair, UnitsOf, l
  <2> HIDE DEF s
  <2> QED  BY <1>1, <1>3, <1>6, <1>9, <2>1, InsideSame
<1>12. FieldAt(q, k, j) = Flat(SlicesOf(q), h + o)
  BY DEF FieldAt, h, o, a
<1> QED  BY <1>4, <1>11, <1>12 DEF q, p, o

(* Beside the start slice leave the fields that the headers name.          *)
LEMMA FieldsLeave ==
  ASSUME PhvInv, TypesInv, OwnInv, oHead.valid, ~resetting, NEW fl, FlightInv(fl),
         line[1].quiet, HeadersInside(line[1], InfosOf(line[1])), NEW u \in UnitIds
  PROVE  TopP!Gathered(fl[1], End, u) =
         UNION {FieldAt(line[1], kj[1], kj[2]) :
                  kj \in {lj \in Layers \X KeyIds : NamedAt(line[1], lj[1], lj[2], u)}}
<1> DEFINE q == line[1]
           p == fl[1]
           a == InfosOf(q)
           b == p.infos
           F(kj) == FieldAt(q, kj[1], kj[2])
           S == {lj \in Layers \X KeyIds : NamedAt(q, lj[1], lj[2], u)}
           at(n, j) == MetaPos(b, n) + j
           got1(n, j) == Flat(p.slices, HeadPos(b, n) + b[n].keyOffset[j])
           on(n, j) == b[n].keyOffset_v[j]
<1>1. ASSUME NEW x
      PROVE  x \in TopP!Gathered(p, End, u) <=> \E n \in Layers : x \in TopP!Field(p, n, u)
  <2>1. \A n : n \in 1 .. End - 1 <=> n \in Layers
    BY LayerNumber DEF Layers, End
  <2> HIDE DEF p
  <2> QED  BY <2>1 DEF TopP!Gathered
<1>2. ASSUME NEW n \in Layers
      PROVE  /\ b[n] = a[n] /\ MetaPos(b, n) = MetaPos(a, n) /\ MetaPos(b, n) \in Nat
  <2>1. n \in 1 .. End
    BY LayerNumber DEF Layers, End
  <2> QED  BY <2>1, HeadAgrees
<1>3. ASSUME NEW n \in Layers, NEW j \in KeyIds
      PROVE  /\ on(n, j) /\ at(n, j) = u <=> NamedAt(q, n, j, u)
             /\ NamedAt(q, n, j, u) => got1(n, j) = FieldAt(q, n, j)
  <2>1. on(n, j) /\ at(n, j) = u <=> NamedAt(q, n, j, u)
    BY <1>2 DEF NamedAt
  <2>2. NamedAt(q, n, j, u) => got1(n, j) = FieldAt(q, n, j)
    BY FieldLeaves DEF NamedAt
  <2> QED  BY <2>1, <2>2
<1> HIDE DEF a
<1>4. ASSUME NEW x, NEW n \in Layers
      PROVE  x \in TopP!Field(p, n, u) <=>
               \E j \in KeyIds : on(n, j) /\ at(n, j) = u /\ x \in got1(n, j)
  <2> DEFINE j0 == u - MetaPos(b, n)
  <2>1. \A j \in KeyIds : at(n, j) = u <=> j = j0
    <3>1. u \in Int /\ \A j \in KeyIds : j \in Int
      BY NumAssumption, WidthAssumption DEF UnitIds, KeyIds
    <3> DEFINE m == MetaPos(b, n)
    <3>2. m \in Nat
      BY <1>2
    <3> HIDE DEF m
    <3>3. \A j \in KeyIds : m + j = u <=> j = u - m
      BY <3>1, <3>2
    <3> QED  BY <3>3 DEF m
  <2>2. x \in TopP!Field(p, n, u) <=> j0 \in KeyIds /\ on(n, j0) /\ x \in got1(n, j0)
    <3>1. TopP!MetaPos(b, n) = MetaPos(b, n) /\ TopP!HeadPos(b, n) = HeadPos(b, n)
          /\ TopP!KeyIds = KeyIds /\ TopP!Zero = {}
          /\ \A c, i : TopP!Flat(c, i) = Flat(c, i)
      BY SameRow, SameSets DEF Zero
    <3> HIDE DEF p
    <3> QED  BY <3>1 DEF TopP!Field
  <2> HIDE DEF at, got1, on, j0
  <2> QED  BY <2>1, <2>2
<1> HIDE DEF at, got1, on
<1>5. \A x : x \in TopP!Gathered(p, End, u) <=>
        \E n \in Layers, j \in KeyIds : NamedAt(q, n, j, u) /\ x \in FieldAt(q, n, j)
  BY <1>1, <1>3, <1>4
<1> HIDE DEF p, q
<1>6. \A x : x \in UNION {F(kj) : kj \in S} <=>
        \E n \in Layers, j \in KeyIds : NamedAt(q, n, j, u) /\ x \in FieldAt(q, n, j)
  <2>1. ASSUME NEW n \in Layers, NEW j \in KeyIds
        PROVE  /\ <<n, j>> \in Layers \X KeyIds
               /\ <<n, j>> \in S <=> NamedAt(q, n, j, u)
               /\ F(<<n, j>>) = FieldAt(q, n, j)
    OBVIOUS
  <2>2. \A kj \in S : \E n \in Layers, j \in KeyIds : kj = <<n, j>>
    OBVIOUS
  <2> HIDE DEF F, S
  <2>3. \A x : x \in UNION {F(kj) : kj \in S} <=> \E kj \in S : x \in F(kj)
    OBVIOUS
  <2>4. ASSUME NEW x, NEW kj \in S, x \in F(kj)
        PROVE  \E n \in Layers, j \in KeyIds : NamedAt(q, n, j, u) /\ x \in FieldAt(q, n, j)
    <3>1. PICK n \in Layers, j \in KeyIds : kj = <<n, j>>
      BY <2>2
    <3>2. NamedAt(q, n, j, u) /\ F(kj) = FieldAt(q, n, j)
      BY <2>1, <3>1
    <3> QED  BY <2>4, <3>2
  <2>5. ASSUME NEW x, NEW n \in Layers, NEW j \in KeyIds,
               NamedAt(q, n, j, u), x \in FieldAt(q, n, j)
        PROVE  \E kj \in S : x \in F(kj)
    BY <2>1, <2>5
  <2> QED  BY <2>3, <2>4, <2>5
<1>7. TopP!Gathered(p, End, u) = UNION {F(kj) : kj \in S}
  BY <1>5, <1>6
<1> QED  BY <1>7 DEF p, q

LEMMA MetaLeaves ==
  ASSUME PhvInv, TypesInv, OwnInv, oHead.valid, ~resetting, NEW fl, FlightInv(fl),
         line[1].quiet, HeadersInside(line[1], InfosOf(line[1])),
         oHead.start, MetaPos(InfosOf(line[1]), End) < CANDI_NUM
  PROVE  /\ oMetadata.offset = MetaPos(InfosOf(line[1]), End)
         /\ \A u \in UnitIds : oMetadata.data[u] = TopP!Gathered(fl[1], End, u)
<1>1. 1 \in 1 .. Len(fl) /\ TopP!HeadsOf(layer, fl) /\ TopP!MetasOf(layer, fl)
  BY OldestIs DEF FlightInv, FlightOf
<1>2. fl[1].age = T
  BY <1>1, OutputIs
<1>3. TopP!LookupAge(NUM_LAYER) + 2 = T
  BY TopP!LayerAges, WidthAssumption, NumAssumption, DeparserAssumption, TopHolds DEF T
<1>4. TopP!MetaOf(oMetadata, T, End, fl)
  BY <1>1, <1>3, FirstLayer, SameSets DEF TopP!MetasOf, TopP!MetaHolds, oMetadata, End
<1>5. MetaPos(fl[1].infos, End) = MetaPos(InfosOf(line[1]), End)
  <2>1. End \in 1 .. End
    BY LayerNumber DEF End
  <2> QED  BY <2>1, HeadAgrees
<1>6. TopP!MetaPos(fl[1].infos, End) = MetaPos(fl[1].infos, End) /\ TopP!UnitIds = UnitIds
  BY SameRow, SameSets
<1> QED  BY <1>1, <1>2, <1>4, <1>5, <1>6 DEF TopP!MetaOf

(* Words to metadata: every packet that leaves Parser_Top is the one that  *)
(* arrived first, whole and in order, and if no configuration word         *)
(* overtook it, it is moved by its own headers, parsed by the rules that   *)
(* had been told when its first word arrived, and beside its start are the *)
(* fields those headers name.  It holds while the FIFO of the words is not *)
(* overrun.                                                                *)
THEOREM Parsed ==
  ASSUME PhvP!Fits
  PROVE  Spec => []ParsedAsTold
<1>1. PhvInv /\ TypesInv /\ OwnInv => ParsedAsTold
  <2> SUFFICES ASSUME PhvInv, TypesInv, OwnInv, oHead.valid, ~resetting PROVE ParsedAsTold
    BY DEF ParsedAsTold
  <2>1. PICK fl : FlightInv(fl)
    BY DEF OwnInv, StreamInv
  <2> DEFINE q == line[1]
             a == InfosOf(q)
             s == SlicesOf(q)
             at(u) == HeadPos(a, End) + out * CANDI_NUM + u
             S(u) == {kj \in Layers \X KeyIds : NamedAt(q, kj[1], kj[2], u)}
  <2>2. line # <<>>
    BY <2>1, OldestIs
  <2>3. (oHead.start <=> out = 0) /\ (oHead.tail <=> out = Len(s) - 1)
    <3>1. /\ q \in Parcel /\ out \in Nat /\ fl[1].age = T + out
          /\ out = Len(fl[1].slices) - 1 <=> out = NumSlices(q) - 1
      BY <2>1, OldestIs
    <3>2. /\ oHead.start <=> fl[1].age = T
          /\ oHead.tail <=> fl[1].age - T = Len(fl[1].slices) - 1
      BY <2>1, OutputIs DEF FlightInv, FlightOf
    <3>3. T \in Nat
      BY LayerNumber DEF T, TopP!Latency
    <3>4. Len(s) = NumSlices(q)
      BY <3>1, SlicesFlat
    <3>5. fl[1].age - T = out /\ (fl[1].age = T <=> out = 0)
      BY <3>1, <3>3
    <3> QED  BY <3>1, <3>2, <3>4, <3>5
  <2>4. ASSUME q.quiet, HeadersInside(q, a), NEW u \in UnitIds, at(u) < LengthOf(q)
        PROVE  oHead.data[u] = Flat(s, at(u))
    BY <2>1, <2>4, DataLeaves
  <2>5. ASSUME q.quiet, HeadersInside(q, a), oHead.start, MetaPos(a, End) < CANDI_NUM
        PROVE  /\ oMetadata.offset = MetaPos(a, End)
               /\ \A u \in UnitIds :
                    oMetadata.data[u] = UNION {FieldAt(q, kj[1], kj[2]) : kj \in S(u)}
    BY <2>1, <2>5, MetaLeaves, FieldsLeave
  <2> QED  BY <2>2, <2>3, <2>4, <2>5 DEF ParsedAsTold, FieldAt, NamedAt, End
<1> QED  BY <1>1, StreamHolds, PTL
==============================================================================
