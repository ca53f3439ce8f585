--------------------------- MODULE MCStreamParser ---------------------------
(* Instances of StreamParser: slices of two words of two one-bit units, a  *)
(* layer 0 and a rule that the words of a configuration packet change.     *)
EXTENDS StreamParser

Info(t, key, hs, ms) ==
  [typeOffset |-> [i \in TypeIds |-> t], keyOffset_v |-> [j \in KeyIds |-> TRUE],
   keyOffset |-> [j \in KeyIds |-> key], headShift |-> hs, metaShift |-> ms]

Rule(valid, data, info) ==
  [valid |-> valid, typeData |-> [i \in TypeIds |-> data], typeMask |-> [i \in TypeIds |-> {0}],
   typeOffset |-> info.typeOffset, keyOffset_v |-> info.keyOffset_v, keyOffset |-> info.keyOffset,
   keyReplaceOffset |-> [j \in KeyIds |-> 0],
   headShift |-> info.headShift, metaShift |-> info.metaShift]

MCConfigs ==
  {[info0 |-> Info(0, 1, 1, 1),
    tables |-> [k \in Layers |-> [i \in RuleIds |-> Rule(valid, {0}, Info(1, 0, 1, 1))]]] :
     valid \in BOOLEAN}

(* What each word means in a configuration packet: commit rule 0 of layer  *)
(* 1, or do not move the head in layer 0.                                  *)
Tok(d, w) == [data |-> [n \in 0 .. 1 |-> d[n + 1]], rule |-> w]

MCTokens ==
  {Tok(<<{0}, {}>>, [layer |-> 1, kind |-> "rule", id |-> 0, valid |-> TRUE]),
   Tok(<<{}, {0}>>, [layer |-> 0, kind |-> "headShift", id |-> 0, offset |-> 0])}
=============================================================================
