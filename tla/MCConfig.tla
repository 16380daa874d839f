-------------------------------- MODULE MCConfig --------------------------------
(***************************************************************************)
(* Instances of Config for TLC: two entries, three values of which one is  *)
(* refused, files that add, change, remove and break entries, and a secret *)
(* that overrides one.                                                     *)
(***************************************************************************)
EXTENDS Config, TLC

CONSTANTS n1, n2, d1, d2, bad

Entry(a, b) == [n \in Name |-> IF n = n1 THEN a ELSE b]

MCContents ==
  {Entry(d1, NoData), Entry(d2, NoData), Entry(d1, d2), Entry(bad, d1), Garbage}

MCSecrets == {Entry(d2, NoData), Entry(NoData, d1)}

NoSecrets == {}

HandlerSymmetry == Permutations(Handler)
=============================================================================
