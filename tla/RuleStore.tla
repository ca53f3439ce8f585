------------------------------ MODULE RuleStore ------------------------------
(***************************************************************************)
(* What the rule path of a layer promises to the host that writes          *)
(* configuration words and to the packets that are looked up.  The host    *)
(* drafts a rule and commits it under a rule number; the commit is one     *)
(* indivisible event.  Lookups see the committed rules one clock later,    *)
(* each as a whole, and never see a draft.                                 *)
(***************************************************************************)
EXTENDS RuleOps

CONSTANTS ConfInputs   \* the configuration words the host writes

VARIABLES
  draft,   \* the rule being drafted
  rules,   \* the committed rules
  seen     \* the rules a lookup sees

vars == <<draft, rules, seen>>

Init ==
  /\ draft \in TypeRule
  /\ rules = [i \in RuleIds |-> NoRule]
  /\ seen = rules

(* A clock without a word, or with a word for another layer.               *)
Idle ==
  /\ seen' = rules
  /\ UNCHANGED <<draft, rules>>

Draft(w) ==
  /\ w.kind # "rule"
  /\ draft' = Staged(draft, w)
  /\ seen' = rules
  /\ UNCHANGED rules

(* A word of kind "rule" commits the draft (or deletes the rule, when it   *)
(* says the rule is invalid); a number that names no rule commits nothing. *)
Commit(w) ==
  /\ w.kind = "rule"
  /\ draft' = Staged(draft, w)
  /\ rules' = [i \in RuleIds |-> IF i = w.id THEN Shown(draft') ELSE rules[i]]
  /\ seen' = rules

(* Reset forgets every rule, the one just committed included, but not the  *)
(* draft.                                                                  *)
Reset ==
  /\ rules' = [i \in RuleIds |-> NoRule]
  /\ seen' = rules'
  /\ UNCHANGED draft

Next == Idle \/ Reset \/ \E w \in ConfInputs : Draft(w) \/ Commit(w)

Spec == Init /\ [][Next]_vars
=============================================================================
