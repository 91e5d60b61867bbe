---------------------------- MODULE MCNodeTable ----------------------------
(* NodeTable with small sets: the objects are interchangeable.             *)
EXTENDS NodeTable, TLC

OnlyOne == {1}
OneTwo  == {1, 2}

Interchangeable ==
  UNION {Permutations(S) : S \in {Addr, DevObj, NodeObj, Proc}}
=============================================================================
