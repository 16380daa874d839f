------------------------------ MODULE MCPlacement ------------------------------
(***************************************************************************)
(* An instance of Placement for TLC: three appliances, two of them in one  *)
(* zone and with the same dataset, and one of a former version 1.3.        *)
(***************************************************************************)
EXTENDS Placement, TLC

MCcfg ==
  [n1 |-> Entry("z1", <<"d">>, FALSE),
   n2 |-> Entry("z1", <<"d">>, FALSE),
   n3 |-> Entry("z3", <<"e">>, TRUE)]

MCDatasets == [n1 |-> {<<"d">>}, n2 |-> {<<"d">>, <<"f">>}, n3 |-> {<<"e">>, <<"d">>}]

MCOldVolumes == [n1 |-> {}, n2 |-> {}, n3 |-> {<<"e", "old">>}]

(* A pod that may run in z1 only, and one that would rather run in z3. *)
OnlyZ1   == pickAvailabilityZone([preferred |-> <<Empty>>, requisite |-> <<"z1">>])
RatherZ3 == pickAvailabilityZone([preferred |-> <<"z3">>, requisite |-> <<"z1", "z3">>])

(* A volume wherever there is space; one under an entry and in a zone; one *)
(* in a zone; copies of volumes with IDs of both versions.                 *)
MCRequests ==
  {Creation("any", Empty, Empty, Empty, Empty), Deletion("any"),
   Creation("named", "n2", OnlyZ1, <<"f">>, Empty), Deletion("named"),
   Creation("zone", Empty, RatherZ3, Empty, Empty),
   Creation("copy", "n1", Empty, <<"d">>, <<<<"e", "old">>>>),
   Creation("both", Empty, "z1", Empty, <<"n3", <<"e", "old">>>>),
   Creation("nowhere", Empty, "z2", Empty, Empty)}

HandlerSymmetry == Permutations(Handler)
=============================================================================
