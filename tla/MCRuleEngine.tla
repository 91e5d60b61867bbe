---------------------------- MODULE MCRuleEngine ----------------------------
(* Three rule sets with up to two dependencies each, in either order.  One *)
(* alone holds any tree of up to MaxRules rules; several hold a rule each. *)
EXTENDS RuleEngine

CONSTANT MaxRules

MaxDependencies == 2
Lists == UNION {[1..m -> Name] : m \in 0..MaxDependencies}

\* What a rule would do says nothing of one whose filter does not match.
SmallRule ==
  {r \in [depth : 0..(MaxRules - 1),
          add : SUBSET Capability, remove : SUBSET Capability,
          outcome : {"match", "noMatch", "filterFails", "valueFails"}] :
     r.outcome \in {"noMatch", "filterFails"} => r.add = {} /\ r.remove = {}}

SmallTrees ==
  {t \in UNION {[1..n -> SmallRule] : n \in 0..MaxRules} : WellFormed(t)}

\* A rule that adds, removes or does not apply.
OneRule ==
  {<<r>> : r \in {r \in SmallRule :
     /\ r.depth = 0
     /\ \/ r.outcome = "match" /\ r.add = Capability \ r.remove
        \/ r.outcome = "noMatch"}}

FewContents(S) == IF S = {1} THEN [S -> SmallTrees] ELSE [S -> OneRule]
=============================================================================
