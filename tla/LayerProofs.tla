---------------------------- MODULE LayerProofs ----------------------------
(* Theorems about the two parts of a layer, each by itself: its rule path  *)
(* (RuleTable), for every width and every number of rules, and its         *)
(* Shift_Head (HeadStream), for slices of any width, packets of any length *)
(* and any shifts.                                                         *)
EXTENDS RuleTable, HeadStream, TLAPS

LEMMA ModLemma ==
  ASSUME NEW a \in Nat, NEW n \in Nat \ {0}
  PROVE  a % n \in 0 .. n - 1
  OBVIOUS

LEMMA CandiLemma == TypeCandiNum \in Nat \ {0}
  BY WidthAssumption DEF TypeCandiNum

LEMMA StagedType ==
  ASSUME NEW s \in TypeRule, NEW w \in ConfWord
  PROVE  Staged(s, w) \in TypeRule
<1>1. w.kind = "rule" => w.valid \in BOOLEAN
  BY DEF ConfWord
<1>2. w.kind = "type" => w.data \in Type /\ w.mask \in Type
  BY DEF ConfWord
<1>3. w.kind = "typeOffset" => w.offset % TypeCandiNum \in TypeOffsets
  BY ModLemma, CandiLemma DEF ConfWord, TypeOffsets
<1>4. w.kind = "keyOffset" => w.valid \in BOOLEAN
  BY DEF ConfWord
<1>5. w.kind \in {"keyOffset", "headShift", "metaShift"} => w.offset % CANDI_NUM \in UnitIds
  BY ModLemma, WidthAssumption DEF ConfWord, UnitIds
<1>6. 0 \in UnitIds
  BY WidthAssumption DEF UnitIds
<1> QED  BY <1>1, <1>2, <1>3, <1>4, <1>5, <1>6 DEF Staged, TypeRule

-----------------------------------------------------------------------------
(* The registers of the rule path keep their widths and o_typeRule_wren of *)
(* Rule_Conf stays at most one-hot, whatever words the host writes.        *)
THEOREM TypeCorrect == Spec => []TypeOK
<1>1. Init => TypeOK
  <2> SUFFICES ASSUME Init PROVE TypeOK
    OBVIOUS
  <2>1. PICK r \in PowerUp : table = [i \in RuleIds |-> [r EXCEPT !.valid = FALSE]]
    BY DEF Init
  <2>2. [r EXCEPT !.valid = FALSE] \in TypeRule
    BY ConfAssumption DEF TypeRule
  <2> QED  BY <2>1, <2>2, ConfAssumption DEF Init, TypeOK
<1>2. TypeOK /\ [Next]_vars => TypeOK'
  <2> SUFFICES ASSUME TypeOK, [Next]_vars PROVE TypeOK'
    OBVIOUS
  <2>1. LookupClock => table' \in [RuleIds -> TypeRule]
    BY DEF TypeOK, LookupClock, Written
  <2>2. CASE Idle
    BY <2>1, <2>2 DEF TypeOK, Idle
  <2>3. CASE Reset
    <3>1. \A r \in TypeRule : [r EXCEPT !.valid = FALSE] \in TypeRule
      BY DEF TypeRule
    <3> QED  BY <2>3, <3>1 DEF TypeOK, Reset, Invalidated
  <2>4. ASSUME NEW w \in ConfInputs, WriteField(w) PROVE TypeOK'
    <3>1. stage' \in TypeRule /\ shadow' \in TypeRule
      BY <2>4, StagedType, ConfAssumption DEF TypeOK, WriteField
    <3> QED  BY <2>1, <2>4, <3>1 DEF TypeOK, WriteField, FieldsOf
  <2>5. ASSUME NEW w \in ConfInputs, WriteRule(w) PROVE TypeOK'
    <3>1. stage' \in TypeRule /\ shadow' \in TypeRule
      BY <2>5, StagedType, ConfAssumption DEF TypeOK, WriteRule
    <3>2. wren' \in SUBSET RuleIds /\ \A i, k \in wren' : i = k
      BY <2>5 DEF WriteRule, Committing
    <3> QED  BY <2>1, <2>5, <3>1, <3>2 DEF TypeOK, WriteRule
  <2>6. CASE UNCHANGED vars
    BY <2>6 DEF TypeOK, vars
  <2> QED  BY <2>2, <2>3, <2>4, <2>5, <2>6 DEF Next
<1> QED  BY <1>1, <1>2, PTL DEF Spec

-----------------------------------------------------------------------------
(* A word writes its field alike into any two staging registers and leaves *)
(* the other fields of both alone.                                         *)
LEMMA StagedAgrees ==
  ASSUME TypeOK, GivenFieldsAgree, NEW w \in ConfWord,
         stage' = Staged(stage, w), shadow' = Staged(shadow, w),
         given' = given \cup FieldsOf(w)
  PROVE  GivenFieldsAgree'
<1> USE DEF GivenFieldsAgree, Staged, FieldsOf, Fields, TypeOK, TypeRule
<1>1. ASSUME NEW i \in TypeIds, <<"type", i>> \in given'
      PROVE  stage'.typeData[i] = shadow'.typeData[i] /\ stage'.typeMask[i] = shadow'.typeMask[i]
  BY <1>1
<1>2. ASSUME NEW i \in TypeIds, <<"typeOffset", i>> \in given'
      PROVE  stage'.typeOffset[i] = shadow'.typeOffset[i]
  BY <1>2
<1>3. ASSUME NEW j \in KeyIds, <<"keyOffset", j>> \in given'
      PROVE  /\ stage'.keyOffset_v[j] = shadow'.keyOffset_v[j]
             /\ stage'.keyOffset[j] = shadow'.keyOffset[j]
             /\ stage'.keyReplaceOffset[j] = shadow'.keyReplaceOffset[j]
  BY <1>3
<1>4. <<"headShift", 0>> \in given' => stage'.headShift = shadow'.headShift
  OBVIOUS
<1>5. <<"metaShift", 0>> \in given' => stage'.metaShift = shadow'.metaShift
  OBVIOUS
<1> QED  BY <1>1, <1>2, <1>3, <1>4, <1>5

(* A draft whose every field the host wrote since its last commit is that  *)
(* draft and nothing of the one before it, for every number of fields.     *)
THEOREM DraftOwnership == Spec => []CompleteDraftIsOwn
<1>1. Init => GivenFieldsAgree
  BY DEF Init, GivenFieldsAgree
<1>2. TypeOK /\ GivenFieldsAgree /\ [Next]_vars => GivenFieldsAgree'
  <2> SUFFICES ASSUME TypeOK, GivenFieldsAgree, [Next]_vars PROVE GivenFieldsAgree'
    OBVIOUS
  <2>1. CASE Idle \/ Reset \/ UNCHANGED vars
    BY <2>1 DEF Idle, Reset, vars, GivenFieldsAgree
  <2>2. ASSUME NEW w \in ConfInputs, WriteField(w) PROVE GivenFieldsAgree'
    BY <2>2, StagedAgrees, ConfAssumption DEF WriteField
  <2>3. ASSUME NEW w \in ConfInputs, WriteRule(w) PROVE GivenFieldsAgree'
    BY <2>3 DEF WriteRule, GivenFieldsAgree
  <2> QED  BY <2>1, <2>2, <2>3 DEF Next
<1>3. TypeOK /\ GivenFieldsAgree => CompleteDraftIsOwn
  <2> SUFFICES ASSUME TypeOK, GivenFieldsAgree, given = Fields, NEW b \in BOOLEAN
               PROVE  [stage EXCEPT !.valid = b] = [shadow EXCEPT !.valid = b]
    BY DEF CompleteDraftIsOwn
  <2>1. /\ stage.typeData = shadow.typeData /\ stage.typeMask = shadow.typeMask
        /\ stage.typeOffset = shadow.typeOffset
    BY DEF TypeOK, TypeRule, GivenFieldsAgree, Fields
  <2>2. /\ stage.keyOffset_v = shadow.keyOffset_v /\ stage.keyOffset = shadow.keyOffset
        /\ stage.keyReplaceOffset = shadow.keyReplaceOffset
    BY DEF TypeOK, TypeRule, GivenFieldsAgree, Fields
  <2>3. stage.headShift = shadow.headShift /\ stage.metaShift = shadow.metaShift
    BY DEF GivenFieldsAgree, Fields
  <2> QED  BY <2>1, <2>2, <2>3 DEF TypeOK, TypeRule
<1> QED  BY <1>1, <1>2, <1>3, TypeCorrect, PTL DEF Spec

-----------------------------------------------------------------------------
(* The rule store's copies of the operators of RuleOps are those operators.*)
LEMMA StoreOps ==
  /\ Store!RuleIds = RuleIds /\ Store!TypeRule = TypeRule /\ Store!NoRule = NoRule
  /\ \A r : Store!Shown(r) = Shown(r)
  /\ \A s, w : Store!Staged(s, w) = Staged(s, w)
<1>1. /\ Store!RuleIds = RuleIds /\ Store!NoRule = NoRule /\ Store!UnitIds = UnitIds
      /\ Store!TypeIds = TypeIds /\ Store!KeyIds = KeyIds /\ Store!Type = Type
      /\ Store!TypeCandiNum = TypeCandiNum /\ Store!TypeOffsetIdMod = TypeOffsetIdMod
      /\ Store!TypeOffsets = TypeOffsets
  BY DEF Store!RuleIds, RuleIds, Store!NoRule, NoRule, Store!UnitIds, UnitIds,
         Store!TypeIds, TypeIds, Store!KeyIds, KeyIds, Store!Type, Type, Store!Word, Word,
         Store!TypeCandiNum, TypeCandiNum, Store!TypeOffsetIdMod, TypeOffsetIdMod,
         Store!TypeOffsets, TypeOffsets
<1>2. Store!TypeRule = TypeRule
  BY <1>1 DEF Store!TypeRule, TypeRule
<1>3. \A r : Store!Shown(r) = Shown(r)
  BY <1>1 DEF Store!Shown, Shown
<1>4. \A s, w : Store!Staged(s, w) = Staged(s, w)
  BY <1>1, ZenonT(40) DEF Store!Staged, Staged
<1> QED  BY <1>1, <1>2, <1>3, <1>4

(* The registers implement the rule store: every commit is atomic, lookups *)
(* see it one clock later and as a whole, and a reset forgets all rules.   *)
THEOREM StoreRefinement == Spec => ImplementsStore
<1> DEFINE rules == [i \in RuleIds |-> Shown(Written(table, wren, stage)[i])]
           seen == [i \in RuleIds |-> Shown(table[i])]
<1>1. Init => Store!Init
  <2> SUFFICES ASSUME Init PROVE Store!Init
    OBVIOUS
  <2>1. stage \in TypeRule
    BY ConfAssumption DEF Init
  <2>2. \A i \in RuleIds : table[i].valid = FALSE
    BY ConfAssumption DEF Init, TypeRule
  <2>3. rules = [i \in RuleIds |-> NoRule] /\ seen = rules
    BY <2>2 DEF Init, Written, Shown
  <2> QED  BY <2>1, <2>3, StoreOps DEF Store!Init
<1>2. TypeOK /\ [Next]_vars => [Store!Next]_(Store!vars)
  <2> SUFFICES ASSUME TypeOK, [Next]_vars PROVE [Store!Next]_(Store!vars)
    OBVIOUS
  <2>1. LookupClock => seen' = rules
    BY DEF LookupClock, Written
  <2>2. (LookupClock /\ wren' = {}) => rules' = rules
    BY DEF LookupClock, Written
  <2>3. CASE Idle
    <3>1. Store!Idle
      BY <2>1, <2>2, <2>3 DEF Idle, Store!Idle
    <3> QED  BY <3>1 DEF Store!Next
  <2>4. CASE Reset
    <3>1. \A i \in RuleIds : table'[i].valid = FALSE
      BY <2>4 DEF Reset, Invalidated, TypeOK, TypeRule
    <3>2. rules' = [i \in RuleIds |-> NoRule] /\ seen' = rules'
      BY <3>1, <2>4 DEF Reset, Written, Shown
    <3>3. Store!Reset
      BY <2>4, <3>2, StoreOps DEF Reset, Store!Reset
    <3> QED  BY <3>3 DEF Store!Next
  <2>5. ASSUME NEW w \in ConfInputs, WriteField(w) PROVE Store!Next
    <3>1. Store!Draft(w)
      BY <2>1, <2>2, <2>5, StoreOps DEF WriteField, Store!Draft
    <3> QED  BY <3>1 DEF Store!Next
  <2>6. ASSUME NEW w \in ConfInputs, WriteRule(w) PROVE Store!Next
    <3>1. stage' = Staged(stage, w)
      BY <2>6 DEF WriteRule
    <3>2. wren' = {w.id} \cap RuleIds /\ table' = Written(table, wren, stage)
      BY <2>6 DEF WriteRule, Committing, LookupClock
    <3>3. rules' = [i \in RuleIds |-> IF i = w.id THEN Shown(stage') ELSE rules[i]]
      BY <3>2 DEF Written
    <3>4. Store!Commit(w)
      BY <2>1, <2>6, <3>1, <3>3, StoreOps DEF WriteRule, Store!Commit
    <3> QED  BY <3>4 DEF Store!Next
  <2>7. CASE UNCHANGED vars
    BY <2>7 DEF vars, Store!vars
  <2> QED  BY <2>3, <2>4, <2>5, <2>6, <2>7 DEF Next
<1> QED  BY <1>1, <1>2, TypeCorrect, PTL DEF Spec, ImplementsStore, Store!Spec

-----------------------------------------------------------------------------
(* Shift_Head.                                                             *)
LEMMA ZeroSliceType == ZeroData \in Data /\ ZeroSlice \in Slice
  BY WidthAssumption DEF ZeroData, Data, Unit, Word, Zero, ZeroSlice, Slice, UnitIds

LEMMA HeadSliceType ==
  ASSUME NEW d \in Data, NEW b \in BOOLEAN, NEW t \in BOOLEAN
  PROVE  HeadSlice(d, b, t) \in Slice
  BY WidthAssumption DEF HeadSlice, Slice, UnitIds

(* The data movers of a layer return slices.                               *)
LEMMA MoverTypes ==
  /\ \A pre, next \in Data, s \in UnitIds : ShiftedData(pre, next, s) \in Data
  /\ \A d, e \in Data : MergeData(d, e) \in Data
  /\ \A f \in [KeyIds -> Unit], at \in UnitIds : PlaceFields(f, at) \in Data
<1>1. ASSUME NEW pre \in Data, NEW next \in Data, NEW s \in UnitIds
      PROVE  ShiftedData(pre, next, s) \in Data
  <2>1. \A u \in UnitIds : u + s < CANDI_NUM => u + s \in UnitIds
    BY WidthAssumption DEF UnitIds
  <2>2. \A u \in UnitIds : ~(u + s < CANDI_NUM) => u + s - CANDI_NUM \in UnitIds
    BY WidthAssumption DEF UnitIds
  <2> QED  BY <2>1, <2>2 DEF ShiftedData, Data
<1>2. ASSUME NEW d \in Data, NEW e \in Data PROVE MergeData(d, e) \in Data
  BY DEF MergeData, Data, Unit, Word
<1>3. ASSUME NEW f \in [KeyIds -> Unit], NEW at \in UnitIds
      PROVE  PlaceFields(f, at) \in Data
  BY DEF PlaceFields, Data, Unit, Word, Zero
<1> QED  BY <1>1, <1>2, <1>3

(* One clock of Shift_Head keeps the widths of its registers.              *)
LEMMA ClockType ==
  ASSUME NEW s \in ShiftHeadRegs, NEW h \in Slice, NEW m \in Slice,
         NEW hs \in UnitIds, NEW ms \in UnitIds, NEW f \in [KeyIds -> Unit]
  PROVE  ShiftHeadClock(s, h, m, hs, ms, f) \in ShiftHeadRegs
<1>1. NextHead(s, h) \in Slice
  BY MoverTypes DEF NextHead, ShiftHeadRegs, Slice
<1>2. NextMeta(s) \in Slice
  BY MoverTypes DEF NextMeta, ShiftHeadRegs, Slice
<1>3. NextMetaShift(s, h, m, ms) \in UnitIds
  <2>1. MetaShiftSum(s, h, m, ms) \in UnitIds
    <3>1. (IF h.start THEN ms ELSE s.metaShift) + m.offset \in Nat
      BY DEF ShiftHeadRegs, Slice, UnitIds
    <3> QED  BY <3>1, ModLemma, WidthAssumption DEF MetaShiftSum, UnitIds
  <2> QED  BY <2>1 DEF NextMetaShift, ShiftHeadRegs
<1>4. StartBitMetaTag(s, m) \in BOOLEAN
  BY DEF StartBitMetaTag
<1>5. PlaceFields(f, m.offset) \in Data
  BY MoverTypes DEF Slice
<1> QED  BY <1>1, <1>2, <1>3, <1>4, <1>5 DEF ShiftHeadClock, ShiftHeadRegs

-----------------------------------------------------------------------------
(* The registers of Shift_Head keep their widths.                          *)
THEOREM HeadTypeCorrect == HeadSpec => []HeadTypeOK
<1>1. HeadInit => HeadTypeOK
  <2> SUFFICES ASSUME HeadInit PROVE HeadTypeOK
    OBVIOUS
  <2>1. sh \in ShiftHeadRegs
    BY ZeroSliceType, InputAssumption DEF HeadInit, ShiftHeadRegs
  <2>2. request \in Requests
    BY ZeroSliceType, WidthAssumption DEF HeadInit, Requests, UnitIds, Unit, Word, Zero
  <2> QED  BY <2>1, <2>2 DEF HeadInit, HeadTypeOK
<1>2. HeadTypeOK /\ [HeadNext]_headVars => HeadTypeOK'
  <2> SUFFICES ASSUME HeadTypeOK, [HeadNext]_headVars PROVE HeadTypeOK'
    OBVIOUS
  <2>1. ASSUME NEW hs \in UnitIds, NEW ms \in UnitIds, NEW field \in FieldInputs,
               Gap(hs, ms, field)
        PROVE  HeadTypeOK'
    BY <2>1, ClockType, ZeroSliceType, InputAssumption DEF Gap, HeadTypeOK
  <2>2. ASSUME NEW hs \in UnitIds, NEW ms \in UnitIds, NEW field \in FieldInputs,
               NEW d \in DataInputs, NEW tail \in BOOLEAN, NEW meta \in MetaInputs,
               StartSlice(d, tail, meta, hs, ms, field)
        PROVE  HeadTypeOK'
    <3>1. meta \in Slice /\ d \in Data /\ field \in [KeyIds -> Unit]
      BY InputAssumption DEF MetaSlices
    <3>2. request' \in Requests
      BY <2>2, <3>1 DEF StartSlice, Requests
    <3>3. sh' \in ShiftHeadRegs
      BY <2>2, <3>1, ClockType, HeadSliceType DEF StartSlice, HeadTypeOK
    <3>4. slices' \in Seq(Data)
      BY <2>2, <3>1 DEF StartSlice
    <3> QED  BY <3>2, <3>3, <3>4 DEF HeadTypeOK
  <2>3. ASSUME NEW hs \in UnitIds, NEW ms \in UnitIds, NEW field \in FieldInputs,
               NEW d \in DataInputs, NEW tail \in BOOLEAN,
               NextSlice(d, tail, hs, ms, field)
        PROVE  HeadTypeOK'
    <3>1. d \in Data /\ field \in [KeyIds -> Unit]
      BY InputAssumption
    <3>2. sh' \in ShiftHeadRegs
      BY <2>3, <3>1, ClockType, HeadSliceType, ZeroSliceType DEF NextSlice, HeadTypeOK
    <3>3. slices' \in Seq(Data)
      BY <2>3, <3>1 DEF NextSlice, HeadTypeOK
    <3> QED  BY <2>3, <3>2, <3>3 DEF NextSlice, HeadTypeOK
  <2>4. CASE UNCHANGED headVars
    BY <2>4 DEF HeadTypeOK, headVars
  <2> QED  BY <2>1, <2>2, <2>3, <2>4 DEF HeadNext
<1> QED  BY <1>1, <1>2, PTL DEF HeadSpec
-----------------------------------------------------------------------------
(* What the head registers hold between the packets' slices: the input     *)
(* register has the last slice of the history, or a gap's zeros.           *)
StreamInv ==
  /\ sh.preHead.valid => /\ slices # <<>>
                         /\ sh.preHead.data = slices[Len(slices)]
                         /\ sh.preHead.start <=> Len(slices) = 1
                         /\ sh.headShift = request.headShift
  /\ ~sh.preHead.valid => sh.preHead = ZeroSlice
  /\ StreamShifted

(* The slice that reaches the output register on a clock is the shifted    *)
(* window of its packet, if what follows it in the stream is its packet's  *)
(* next slice, or the gap behind its tail.                                 *)
LEMMA HeadStep ==
  ASSUME HeadTypeOK, HeadTypeOK', StreamInv,
         NEW in \in Slice,
         sh'.head = NextHead(sh, in), sh'.preHead = in,
         sh.preHead.valid => request' = request,
         \/ in = ZeroSlice /\ slices' = slices
         \/ in.valid /\ ~sh.preHead.valid
         \/ in.valid /\ sh.preHead.valid /\ slices' = Append(slices, in.data)
  PROVE  StreamShifted'
<1> SUFFICES ASSUME sh'.head.valid PROVE StreamShifted'
  BY DEF StreamShifted
<1>0. PICK n \in Nat, s \in Int : n = Len(slices) /\ s = request.headShift
  BY DEF HeadTypeOK, Requests, UnitIds
<1>1. sh.preHead.valid /\ sh.preHead \in Slice
  BY DEF NextHead, HeadTypeOK, ShiftHeadRegs, ZeroSlice
<1>2. n \in Nat \ {0} /\ s \in UnitIds /\ sh.headShift = s /\ slices \in Seq(Data)
  BY <1>0, <1>1 DEF HeadTypeOK, StreamInv, Requests
<1>3. /\ sh'.head.data = ShiftedData(slices[n], in.data, s)
      /\ sh'.head.start <=> n = 1
  BY <1>0, <1>1, <1>2 DEF NextHead, StreamInv, Slice
<1>4. request'.headShift = s
  BY <1>0, <1>1
<1>5. CASE in = ZeroSlice /\ slices' = slices
  <2>1. OutIndex' = n /\ Len(slices') = n
    BY <1>0, <1>5 DEF OutIndex, ZeroSlice
  <2>2. \A u \in UnitIds : sh'.head.data[u] = UnitAt(slices', n, u + s)
    BY SMTT(20), <1>0, <1>2, <1>3, <1>5, <2>1, WidthAssumption
       DEF UnitAt, ShiftedData, UnitIds, ZeroSlice, ZeroData
  <2> QED  BY <1>0, <1>2, <1>3, <1>4, <2>1, <2>2 DEF StreamShifted
<1>6. CASE in.valid /\ slices' = Append(slices, in.data)
  <2>1. /\ OutIndex' = n /\ Len(slices') = n + 1
        /\ slices'[n] = slices[n] /\ slices'[n + 1] = in.data
    BY <1>0, <1>2, <1>6 DEF OutIndex, Slice
  <2>2. \A u \in UnitIds : sh'.head.data[u] = UnitAt(slices', n, u + s)
    BY <1>2, <1>3, <2>1, WidthAssumption DEF UnitAt, ShiftedData, UnitIds
  <2> QED  BY <1>0, <1>2, <1>3, <1>4, <2>1, <2>2 DEF StreamShifted
<1> QED  BY <1>1, <1>5, <1>6

(* Every packet leaves Shift_Head moved to the left by its own head shift, *)
(* whole and with nothing of its neighbours.                               *)
THEOREM Stream == HeadSpec => []StreamShifted
<1>1. HeadInit => StreamInv
  BY DEF HeadInit, StreamInv, StreamShifted, ZeroSlice
<1>2. HeadTypeOK /\ HeadTypeOK' /\ StreamInv /\ [HeadNext]_headVars => StreamInv'
  <2> SUFFICES ASSUME HeadTypeOK, HeadTypeOK', StreamInv, [HeadNext]_headVars PROVE StreamInv'
    OBVIOUS
  <2>1. ASSUME NEW hs \in UnitIds, NEW ms \in UnitIds, NEW field \in FieldInputs,
               Gap(hs, ms, field)
        PROVE  StreamInv'
    <3>1. sh'.head = NextHead(sh, ZeroSlice) /\ sh'.preHead = ZeroSlice
      BY <2>1 DEF Gap, ShiftHeadClock
    <3>2. StreamShifted'
      BY <2>1, <3>1, HeadStep, ZeroSliceType DEF Gap
    <3> QED  BY <3>1, <3>2 DEF StreamInv, ZeroSlice
  <2>2. ASSUME NEW hs \in UnitIds, NEW ms \in UnitIds, NEW field \in FieldInputs,
               NEW d \in DataInputs, NEW tail \in BOOLEAN, NEW meta \in MetaInputs,
               StartSlice(d, tail, meta, hs, ms, field)
        PROVE  StreamInv'
    <3> DEFINE in == HeadSlice(d, TRUE, tail)
    <3>1. /\ in \in Slice /\ in.valid /\ in.start /\ in.data = d
      BY HeadSliceType, InputAssumption DEF HeadSlice
    <3>2. /\ sh'.head = NextHead(sh, in) /\ sh'.preHead = in
          /\ sh'.headShift = hs
      BY <2>2, <3>1 DEF StartSlice, ShiftHeadClock
    <3>3. StreamShifted'
      BY <2>2, <3>1, <3>2, HeadStep DEF StartSlice
    <3>4. slices' = <<d>> /\ request'.headShift = hs
      BY <2>2 DEF StartSlice
    <3> QED  BY <3>1, <3>2, <3>3, <3>4 DEF StreamInv
  <2>3. ASSUME NEW hs \in UnitIds, NEW ms \in UnitIds, NEW field \in FieldInputs,
               NEW d \in DataInputs, NEW tail \in BOOLEAN,
               NextSlice(d, tail, hs, ms, field)
        PROVE  StreamInv'
    <3> DEFINE in == HeadSlice(d, FALSE, tail)
    <3>1. /\ in \in Slice /\ in.valid /\ ~in.start /\ in.data = d
      BY HeadSliceType, InputAssumption DEF HeadSlice
    <3>2. /\ sh'.head = NextHead(sh, in) /\ sh'.preHead = in
          /\ sh'.headShift = sh.headShift
      BY <2>3, <3>1 DEF NextSlice, ShiftHeadClock
    <3>3. StreamShifted'
      BY <2>3, <3>1, <3>2, HeadStep DEF NextSlice
    <3>4. slices' = Append(slices, d) /\ Len(slices') = Len(slices) + 1
          /\ slices'[Len(slices')] = d /\ Len(slices) \in Nat \ {0} /\ request' = request
      BY <2>3, InputAssumption DEF NextSlice, HeadTypeOK, StreamInv
    <3>5. slices' # <<>> /\ Len(slices') # 1
      BY <3>4
    <3>6. sh'.headShift = request'.headShift
      BY <2>3, <3>2, <3>4 DEF NextSlice, StreamInv
    <3>7. sh'.preHead.valid /\ ~sh'.preHead.start
      BY <3>1, <3>2
    <3>8. sh'.preHead.data = slices'[Len(slices')]
      BY <3>1, <3>2, <3>4
    <3> QED  BY <3>3, <3>5, <3>6, <3>7, <3>8 DEF StreamInv
  <2>4. CASE UNCHANGED headVars
    BY <2>4 DEF headVars, StreamInv, StreamShifted, OutIndex, UnitAt
  <2> QED  BY <2>1, <2>2, <2>3, <2>4 DEF HeadNext
<1>3. StreamInv => StreamShifted
  BY DEF StreamInv
<1> QED  BY <1>1, <1>2, <1>3, HeadTypeCorrect, PTL DEF HeadSpec

-----------------------------------------------------------------------------
(* The metadata registers: the request's slice is one clock old beside the *)
(* start slice, with its fields and its new offset computed; beside any    *)
(* other slice there is no metadata.                                       *)
MetaInv ==
  /\ sh.preMeta.valid <=> (sh.preHead.valid /\ sh.preHead.start)
  /\ sh.startBit <=> sh.preMeta.valid
  /\ ~sh.preMeta.valid => sh.preMeta = ZeroSlice
  /\ sh.preMeta.valid =>
       /\ sh.preMeta = request.meta
       /\ sh.metaShift = (request.meta.offset + request.metaShift) % CANDI_NUM
       /\ sh.extMeta = PlaceFields(request.field, request.meta.offset)
  /\ MetaExtended

(* The fields placed at an offset are the only change to a metadata slice. *)
LEMMA PlacedFields ==
  ASSUME NEW d \in Data, NEW f \in [KeyIds -> Unit], NEW at \in UnitIds
  PROVE  /\ \A u \in UnitIds : u < at => MergeData(d, PlaceFields(f, at))[u] = d[u]
         /\ \A j \in KeyIds : at + j \in UnitIds =>
              MergeData(d, PlaceFields(f, at))[at + j] = d[at + j] \cup f[j]
<1>1. ASSUME NEW u \in UnitIds, u < at PROVE MergeData(d, PlaceFields(f, at))[u] = d[u]
  <2>1. u - at \notin KeyIds
    BY <1>1, NumAssumption, WidthAssumption DEF KeyIds, UnitIds
  <2> QED  BY <2>1 DEF MergeData, PlaceFields, Zero
<1>2. ASSUME NEW j \in KeyIds, at + j \in UnitIds
      PROVE  MergeData(d, PlaceFields(f, at))[at + j] = d[at + j] \cup f[j]
  <2>1. (at + j) - at = j
    BY NumAssumption, WidthAssumption DEF KeyIds, UnitIds
  <2> QED  BY <1>2, <2>1 DEF MergeData, PlaceFields
<1> QED  BY <1>1, <1>2

LEMMA MetaStep ==
  ASSUME HeadTypeOK, MetaInv,
         sh'.head.valid = sh.preHead.valid, sh'.head.start = sh.preHead.start,
         sh'.meta = NextMeta(sh),
         sh.preMeta.valid => request' = request
  PROVE  MetaExtended'
<1>1. sh'.meta.valid = sh.preMeta.valid
  BY DEF NextMeta, HeadTypeOK, ShiftHeadRegs, Slice
<1>2. CASE ~sh.preMeta.valid
  BY <1>1, <1>2 DEF MetaInv, MetaExtended
<1>3. CASE sh.preMeta.valid
  <2> DEFINE r == request
  <2>1. /\ r.meta \in Slice /\ r.field \in [KeyIds -> Unit] /\ request' = r
        /\ r.meta.data \in Data /\ r.meta.offset \in UnitIds
    BY <1>3 DEF HeadTypeOK, Requests, Slice
  <2>2. /\ sh'.meta.offset = (r.meta.offset + r.metaShift) % CANDI_NUM
        /\ sh'.meta.data = MergeData(r.meta.data, PlaceFields(r.field, r.meta.offset))
    BY <1>3, <2>1 DEF MetaInv, NextMeta, Slice
  <2> QED  BY <1>1, <1>3, <2>1, <2>2, PlacedFields DEF MetaInv, MetaExtended
<1> QED  BY <1>2, <1>3

(* Every packet's metadata leaves Shift_Head beside its start slice with   *)
(* this layer's fields appended and nothing before them changed.           *)
THEOREM Metadata == HeadSpec => []MetaExtended
<1>1. HeadInit => MetaInv
  BY DEF HeadInit, MetaInv, MetaExtended, ZeroSlice
<1>2. HeadTypeOK /\ MetaInv /\ [HeadNext]_headVars => MetaInv'
  <2> SUFFICES ASSUME HeadTypeOK, MetaInv, [HeadNext]_headVars PROVE MetaInv'
    OBVIOUS
  <2>1. \A h \in Slice : /\ NextHead(sh, h).valid = sh.preHead.valid
                         /\ NextHead(sh, h).start = sh.preHead.start
    BY DEF NextHead, HeadTypeOK, ShiftHeadRegs, Slice
  <2>2. ~StartBitMetaTag(sh, ZeroSlice)
    BY DEF StartBitMetaTag, ZeroSlice
  <2>3. ASSUME NEW hs \in UnitIds, NEW ms \in UnitIds, NEW field \in FieldInputs,
               Gap(hs, ms, field)
        PROVE  MetaInv'
    <3>1. /\ sh'.preHead = ZeroSlice /\ sh'.preMeta = ZeroSlice /\ ~sh'.startBit
          /\ sh'.head = NextHead(sh, ZeroSlice) /\ sh'.meta = NextMeta(sh)
          /\ request' = request
      BY <2>2, <2>3 DEF Gap, ShiftHeadClock
    <3>2. MetaExtended'
      BY <2>1, <3>1, MetaStep, ZeroSliceType
    <3> QED  BY <3>1, <3>2 DEF MetaInv, ZeroSlice
  <2>4. ASSUME NEW hs \in UnitIds, NEW ms \in UnitIds, NEW field \in FieldInputs,
               NEW d \in DataInputs, NEW tail \in BOOLEAN, NEW meta \in MetaInputs,
               StartSlice(d, tail, meta, hs, ms, field)
        PROVE  MetaInv'
    <3> DEFINE in == HeadSlice(d, TRUE, tail)
    <3>1. /\ in \in Slice /\ in.valid /\ in.start
          /\ meta \in Slice /\ meta.valid /\ meta.tail
      BY HeadSliceType, InputAssumption DEF HeadSlice, MetaSlices
    <3>2. /\ sh'.preHead = in /\ sh'.preMeta = meta /\ sh'.startBit
          /\ sh'.head = NextHead(sh, in) /\ sh'.meta = NextMeta(sh)
          /\ sh'.metaShift = (ms + meta.offset) % CANDI_NUM
          /\ sh'.extMeta = PlaceFields(field, meta.offset)
      BY <2>4, <3>1
         DEF StartSlice, ShiftHeadClock, StartBitMetaTag, NextMetaShift, MetaShiftSum
    <3>3. ms + meta.offset = meta.offset + ms
      BY <3>1 DEF Slice, UnitIds
    <3>4. request' = [meta |-> meta, headShift |-> hs, metaShift |-> ms, field |-> field]
          /\ ~sh.preHead.valid
      BY <2>4 DEF StartSlice
    <3>5. MetaExtended'
      BY <2>1, <3>1, <3>2, <3>4, MetaStep DEF MetaInv
    <3> QED  BY <3>1, <3>2, <3>3, <3>4, <3>5 DEF MetaInv
  <2>5. ASSUME NEW hs \in UnitIds, NEW ms \in UnitIds, NEW field \in FieldInputs,
               NEW d \in DataInputs, NEW tail \in BOOLEAN,
               NextSlice(d, tail, hs, ms, field)
        PROVE  MetaInv'
    <3> DEFINE in == HeadSlice(d, FALSE, tail)
    <3>1. in \in Slice /\ in.valid /\ ~in.start
      BY HeadSliceType, InputAssumption DEF HeadSlice
    <3>2. /\ sh'.preHead = in /\ sh'.preMeta = ZeroSlice /\ ~sh'.startBit
          /\ sh'.head = NextHead(sh, in) /\ sh'.meta = NextMeta(sh)
          /\ request' = request
      BY <2>2, <2>5 DEF NextSlice, ShiftHeadClock
    <3>3. MetaExtended'
      BY <2>1, <3>1, <3>2, MetaStep
    <3>4. ~sh'.preMeta.valid
      BY <3>2 DEF ZeroSlice
    <3>5. ~sh'.preHead.start
      BY <3>1, <3>2
    <3> QED  BY <3>2, <3>3, <3>4, <3>5 DEF MetaInv
  <2>6. CASE UNCHANGED headVars
    BY <2>6 DEF headVars, MetaInv, MetaExtended
  <2> QED  BY <2>3, <2>4, <2>5, <2>6 DEF HeadNext
<1>3. MetaInv => MetaExtended
  BY DEF MetaInv
<1> QED  BY <1>1, <1>2, <1>3, HeadTypeCorrect, PTL DEF HeadSpec
=============================================================================
