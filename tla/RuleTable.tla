------------------------------ MODULE RuleTable ------------------------------
(***************************************************************************)
(* The rule path of one layer: Rule_Conf in front of the rule registers of *)
(* Lookup_Type.  Every action but Reset is a clock edge, on which all the  *)
(* registers move together; a commit word therefore raises o_typeRule_wren *)
(* on one edge and the rule RAM takes the staged rule on the next, while   *)
(* the host may already be writing the next rule.  Reset is asynchronous.  *)
(***************************************************************************)
EXTENDS RuleOps

CONSTANTS
  ConfInputs,    \* the configuration words the host writes
  PowerUp,       \* what the registers without a reset may hold at power-up
  Junk           \* any rule: what "shadow" is refilled with

ASSUME ConfAssumption ==
  /\ ConfInputs \subseteq ConfWord
  /\ PowerUp \subseteq TypeRule
  /\ Junk \in TypeRule

VARIABLES
  stage,    \* o_type_rule of Rule_Conf
  wren,     \* o_typeRule_wren: the rules being committed
  table,    \* r_type_rule of Lookup_Type
  given,    \* history: the fields the host wrote since its last commit
  shadow    \* history: a staging register that forgets at every commit

regs == <<stage, wren, table>>
vars == <<stage, wren, table, given, shadow>>

-----------------------------------------------------------------------------
(* The fields of a rule that configuration words write, and the one that a *)
(* word writes.                                                            *)
Fields == {<<"type", i>> : i \in TypeIds} \cup {<<"typeOffset", i>> : i \in TypeIds}
            \cup {<<"keyOffset", j>> : j \in KeyIds}
            \cup {<<"headShift", 0>>, <<"metaShift", 0>>}

FieldsOf(w) ==
  {f \in Fields : /\ f[1] = w.kind
                  /\ f[1] \in {"type", "keyOffset"} => f[2] = w.id
                  /\ f[1] = "typeOffset" => f[2] = w.id % TypeOffsetIdMod}

-----------------------------------------------------------------------------
Init ==
  /\ stage \in PowerUp
  /\ wren = {}
  /\ \E r \in PowerUp : table = [i \in RuleIds |-> [r EXCEPT !.valid = FALSE]]
  /\ given = {}
  /\ shadow = Junk

(* The rule registers on every clock edge.                                 *)
LookupClock == table' = Written(table, wren, stage)

(* A clock without a configuration word for this layer.                    *)
Idle ==
  /\ LookupClock
  /\ wren' = {}
  /\ UNCHANGED <<stage, given, shadow>>

(* Mutation of WriteField: a word on the clock after a commit is ignored.  *)
WriteFieldUnlessCommitting(w) ==
  /\ w.kind # "rule"
  /\ LookupClock
  /\ wren' = {}
  /\ stage' = IF wren = {} THEN Staged(stage, w) ELSE stage
  /\ given' = given \cup FieldsOf(w)
  /\ shadow' = Staged(shadow, w)

(* A clock with a word that writes a field of the staged rule.             *)
WriteField(w) ==
  /\ w.kind # "rule"
  /\ LookupClock
  /\ wren' = {}
  /\ stage' = Staged(stage, w)
  /\ given' = given \cup FieldsOf(w)
  /\ shadow' = Staged(shadow, w)

(* A clock with the word that commits the staged rule.                     *)
WriteRule(w) ==
  /\ w.kind = "rule"
  /\ LookupClock
  /\ wren' = Committing(w)
  /\ stage' = Staged(stage, w)
  /\ given' = {}
  /\ shadow' = Junk

(* Mutation of Reset: the pulse is not cleared.                            *)
ResetKeepsPulse ==
  /\ table' = Invalidated(table)
  /\ UNCHANGED <<stage, wren, given, shadow>>

(* i_rst_n falls: the pulse and the valid bits clear, the rest stays.      *)
Reset ==
  /\ table' = Invalidated(table)
  /\ wren' = {}
  /\ UNCHANGED <<stage, given, shadow>>

Next == Idle \/ Reset \/ \E w \in ConfInputs : WriteField(w) \/ WriteRule(w)

Spec == Init /\ [][Next]_vars

-----------------------------------------------------------------------------
(* Every register holds a value of its width; the write enable is at most  *)
(* one-hot (Rule_Conf raises one bit of o_typeRule_wren per commit word).  *)
TypeOK ==
  /\ stage \in TypeRule /\ shadow \in TypeRule
  /\ wren \in SUBSET RuleIds
  /\ \A i, k \in wren : i = k
  /\ table \in [RuleIds -> TypeRule]
  /\ given \in SUBSET Fields

(* A draft whose every field the host has written owes nothing to the rule *)
(* drafted before it: whatever the staging register of Rule_Conf (which    *)
(* neither a commit nor a reset clears) held when the draft began, the     *)
(* staged rule is the one of a register that held anything else.  A draft  *)
(* that skips a field inherits it, so this names what the host must write. *)
CompleteDraftIsOwn ==
  given = Fields =>
    \A b \in BOOLEAN : [stage EXCEPT !.valid = b] = [shadow EXCEPT !.valid = b]

(* The field-wise strengthening of CompleteDraftIsOwn.                     *)
GivenFieldsAgree ==
  /\ \A i \in TypeIds :
       /\ <<"type", i>> \in given => /\ stage.typeData[i] = shadow.typeData[i]
                                     /\ stage.typeMask[i] = shadow.typeMask[i]
       /\ <<"typeOffset", i>> \in given => stage.typeOffset[i] = shadow.typeOffset[i]
  /\ \A j \in KeyIds : <<"keyOffset", j>> \in given =>
       /\ stage.keyOffset_v[j] = shadow.keyOffset_v[j]
       /\ stage.keyOffset[j] = shadow.keyOffset[j]
       /\ stage.keyReplaceOffset[j] = shadow.keyReplaceOffset[j]
  /\ <<"headShift", 0>> \in given => stage.headShift = shadow.headShift
  /\ <<"metaShift", 0>> \in given => stage.metaShift = shadow.metaShift

-----------------------------------------------------------------------------
(* The rule store this path implements: a rule is committed as soon as its *)
(* commit word is accepted, and seen when the rule RAM holds it.           *)
Store == INSTANCE RuleStore WITH
           draft <- stage,
           rules <- [i \in RuleIds |-> Shown(Written(table, wren, stage)[i])],
           seen <- [i \in RuleIds |-> Shown(table[i])]

(* Commits are atomic: the registers of Rule_Conf and Lookup_Type          *)
(* implement RuleStore.                                                    *)
ImplementsStore == Store!Spec
=============================================================================
