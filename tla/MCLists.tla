-------------------------------- MODULE MCLists --------------------------------
(***************************************************************************)
(* Instances of Lists for TLC: one appliance, two with datasets of their   *)
(* own, and two with the same default dataset.                             *)
(***************************************************************************)
EXTENDS Lists

CONSTANTS d, e, f

MCPath == [dataset: {d}, item: 1 .. 3] \cup [dataset: {e, f}, item: 1 .. 2]

Appliance(dataset, has) ==
  [zone |-> Empty, defaultDataset |-> dataset, v13Compatibility |-> FALSE, has |-> has]

One  == [n1 |-> Appliance(d, {d})]
Two  == [n1 |-> Appliance(e, {e}), n2 |-> Appliance(f, {f})]
Same == [n1 |-> Appliance(e, {e}), n2 |-> Appliance(e, {e})]

MCConfigs == {One, Two, Same}
TwoAppliances == {Two}
=============================================================================
