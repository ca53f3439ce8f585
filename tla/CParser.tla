------------------------------- MODULE CParser -------------------------------
(***************************************************************************)
(* The parser in C (parser.c): parser_layer, called once for each layer    *)
(* with the variables of its caller, on the rules in parse_rules.  The     *)
(* fields of a rule are named as in RuleOps, so that the hardware's match  *)
(* (HitRules) can be asked about the same rules.                           *)
(*                                                                         *)
(* main() calls layer 0 only; calls for the layers behind it, with the     *)
(* same variables and the next layerID, are what the parameters passed by  *)
(* pointer and the array parse_rules[NUM_LAYER] are for.                   *)
(***************************************************************************)
EXTENDS RuleOps, Sequences, FiniteSetsExt

CONSTANTS
  NUM_LAYER,   \* layers of parse_rules
  HeadLen,     \* units of head (100)
  MetaLen,     \* units of meta (20)
  Heads,       \* what head may hold
  Programs,    \* what parse_rules may hold
  Callers      \* what the caller's variables may hold at first

CRule == [valid : BOOLEAN, typeData : [TypeIds -> Type], typeMask : [TypeIds -> Type],
          typeOffset : [TypeIds -> Nat], keyOffset : [KeyIds -> Nat],
          headShift : Nat, metaShift : Nat]

ASSUME CAssumption ==
  /\ NUM_LAYER \in Nat \ {0} /\ HeadLen \in Nat \ {0} /\ MetaLen \in Nat \ {0}
  /\ Heads \subseteq [0 .. HeadLen - 1 -> Unit]
  /\ Programs \subseteq [0 .. NUM_LAYER - 1 -> [RuleIds -> CRule]]
  /\ Callers \subseteq [typeOffset : [TypeIds -> Nat], keyOffset : [KeyIds -> Nat],
                        headShift : Nat, metaShift : Nat]

VARIABLES
  parse_rules,
  head, pHead,              \* the packet, and the unit pHead points to
  meta,
  caller,                   \* type_offset, key_offset: arrays of the caller
  head_shift, meta_shift,   \* the caller's variables that are passed by pointer
  calls                     \* history: what each call so far was given and took

varsC == <<parse_rules, head, pHead, meta, caller, head_shift, meta_shift, calls>>

InitC ==
  /\ parse_rules \in Programs /\ head \in Heads
  /\ \E c \in Callers : /\ caller = [typeOffset |-> c.typeOffset, keyOffset |-> c.keyOffset]
                        /\ head_shift = c.headShift /\ meta_shift = c.metaShift
  /\ pHead = 0
  /\ meta = [u \in 0 .. MetaLen - 1 |-> Zero]
  /\ calls = <<>>

-----------------------------------------------------------------------------
(* type_data: the low bits of the unit (the offset counts units here, and  *)
(* type fields in the hardware).                                           *)
TypeData == [i \in TypeIds |-> head[pHead + caller.typeOffset[i]] \cap (0 .. TYPE_WIDTH - 1)]
KeyFieldData == [j \in KeyIds |-> head[pHead + caller.keyOffset[j]]]

(* The rules that hit.  The comparison is "data != mask & type", which C   *)
(* reads as "(data != mask) & type": a rule is ruled out only by a type    *)
(* field that is odd, under a mask that is not the data.                   *)
Hits(table, type) ==
  {i \in RuleIds :
     /\ table[i].valid
     /\ \A j \in TypeIds : ~(table[i].typeData[j] # table[i].typeMask[j] /\ 0 \in type[j])}

(* Mutation of ShiftedHead: the shift that this call looked up.            *)
ShiftedHeadByHit(hits, table) ==
  pHead + (IF hits = {} THEN head_shift ELSE table[Max(hits)].headShift)

(* Every call moves the head by the shift that the call before looked up.  *)
ShiftedHead(hits, table) == pHead + head_shift

(* Mutation of NextMetaShift: the fields' number is added to the shift.    *)
NextMetaShiftPastFields(hits, table) ==
  meta_shift + KEY_FILED_NUM
    + SumSet({0} \cup {table[i].metaShift : i \in hits})

(* The loop runs over all rules: the last hit decides the head shift, but  *)
(* the meta shifts of all of them add up.  A miss leaves both.             *)
NextHeadShift(hits, table) == IF hits = {} THEN head_shift ELSE table[Max(hits)].headShift
NextMetaShift(hits, table) ==
  MapThenSumSet(LAMBDA i : table[i].metaShift, hits) + meta_shift

(* Mutation of FieldPlace: the fields go where this call's rule leads.     *)
FieldPlaceAfterLookup(hits, table) == NextMetaShift(hits, table)

(* The first unit of meta that a call writes.                              *)
FieldPlace(hits, table) == meta_shift

(* parser_layer.  All key fields are copied, whatever the rule: there is   *)
(* no valid bit.  The offsets of the rule that hit are assigned to the     *)
(* function's own copies of the two pointers and are lost on return.       *)
ParserLayer(layerID) ==
  LET table == parse_rules[layerID]
      hits == Hits(table, TypeData)
      at == FieldPlace(hits, table)
  IN  /\ pHead' = ShiftedHead(hits, table)
      /\ meta' = [u \in 0 .. MetaLen - 1 |->
                    IF u - at \in KeyIds THEN KeyFieldData[u - at] ELSE meta[u]]
      /\ head_shift' = NextHeadShift(hits, table)
      /\ meta_shift' = NextMetaShift(hits, table)
      /\ calls' = Append(calls, [type |-> TypeData, keys |-> KeyFieldData,
                                 from |-> pHead, by |-> head_shift, at |-> meta_shift])
      /\ UNCHANGED <<parse_rules, head, caller>>

NextC == Len(calls) < NUM_LAYER /\ ParserLayer(Len(calls))

SpecC == InitC /\ [][NextC]_varsC

-----------------------------------------------------------------------------
(* Types, and that a call that is still to be made stays inside head and   *)
(* meta, which nothing in the program checks.                              *)
TypeOK ==
  /\ meta \in [0 .. MetaLen - 1 -> Unit]
  /\ Len(calls) < NUM_LAYER =>
       /\ \A i \in TypeIds : pHead + caller.typeOffset[i] \in 0 .. HeadLen - 1
       /\ \A j \in KeyIds : /\ pHead + caller.keyOffset[j] \in 0 .. HeadLen - 1
                            /\ meta_shift + j \in 0 .. MetaLen - 1

(* Room for every call: no rule moves the head by more than H units, no    *)
(* rules of a layer that may hit together move the metadata by more than   *)
(* M, and one call less than there are layers, each moving that far,       *)
(* leaves room for the fields that the caller asks for.                    *)
MetaSum(table, hits) == MapThenSumSet(LAMBDA i : table[i].metaShift, hits)

Roomy(H, M) ==
  /\ \A p \in Programs, k \in 0 .. NUM_LAYER - 1 :
       /\ \A i \in RuleIds : p[k][i].headShift <= H
       /\ \A hits \in SUBSET RuleIds : MetaSum(p[k], hits) \in 0 .. M
  /\ \A c \in Callers :
       /\ c.headShift <= H
       /\ \A i \in TypeIds : (NUM_LAYER - 1) * H + c.typeOffset[i] < HeadLen
       /\ \A j \in KeyIds : /\ (NUM_LAYER - 1) * H + c.keyOffset[j] < HeadLen
                            /\ c.metaShift + (NUM_LAYER - 1) * M + j < MetaLen

Called == 1 .. Len(calls)
TableOf(n) == parse_rules[n - 1]

(* meta after any number of calls: each unit holds the field of the last   *)
(* call that wrote it and is zero if none did, so that a layer whose meta  *)
(* shift is smaller than the number of fields loses fields to the next one *)
(* and to no other.                                                        *)
LastWriterWins ==
  \A u \in 0 .. MetaLen - 1 :
    LET writers == {n \in Called : u - calls[n].at \in KeyIds}
    IN  meta[u] = IF writers = {} THEN Zero
                  ELSE LET n == Max(writers) IN calls[n].keys[u - calls[n].at]

(* What a call hands on.  The next one starts where the shift that this    *)
(* call was given leads.  Where exactly one rule hits, here and in         *)
(* Lookup_Type, it moves the head and places its fields by that rule's     *)
(* shifts, as the next layer of the hardware does.  Where no rule hits it  *)
(* moves the head once more by the shift that this call was given, and its *)
(* fields take the place of this call's.                                   *)
ShiftsHandedOn ==
  \A n \in Called : n + 1 \in Called =>
    LET hits == Hits(TableOf(n), calls[n].type)
    IN  /\ calls[n + 1].from = calls[n].from + calls[n].by
        /\ hits = {} => /\ calls[n + 1].by = calls[n].by
                        /\ calls[n + 1].at = calls[n].at
        /\ \A i \in RuleIds :
             hits = {i} /\ HitRules(TableOf(n), calls[n].type) = {i} =>
               /\ calls[n + 1].by = TableOf(n)[i].headShift
               /\ calls[n + 1].at = TableOf(n)[i].metaShift + calls[n].at

(* What readme.md says of the program, "parser simulation in c program":   *)
(* a rule hits where it hits in the parser, on the masked type fields.     *)
HitsAsParser ==
  \A n \in Called : Hits(TableOf(n), calls[n].type) = HitRules(TableOf(n), calls[n].type)
=============================================================================
