--------------------------- MODULE MCControllerServer ---------------------------
(***************************************************************************)
(* Instances of ControllerServer for TLC: the sets of requests that the CO *)
(* may make.  Each run gives one of them to the constant Requests.         *)
(***************************************************************************)
EXTENDS ControllerServer, TLC

CONSTANTS v1, v2, v3, s1, acl1, acl2

(* One volume from its creation, asked for with two sizes, over its        *)
(* expansions to its deletion.                                             *)
OneVolume ==
  {CreateVolumeReq(v1, 1, acl1), CreateVolumeReq(v1, 4, acl1),
   ExpandReq(v1, 2), ExpandReq(v1, 3), DeleteVolumeReq(v1)}

(* Every way to copy an existing volume, against the deletion of what is   *)
(* copied.                                                                 *)
Copies ==
  {CreateSnapshotReq(v1, s1), RestoreReq(v2, v1, s1, 1, acl1),
   CloneReq(v3, v1, 1, NoShare), DeleteVolumeReq(v1), DeleteSnapshotReq(v1, s1)}

(* Requests that do not stand in each other's way. *)
Harmless ==
  {CreateVolumeReq(v1, 1, acl1), CloneReq(v2, v1, 0, NoShare),
   CreateSnapshotReq(v1, s1), DeleteVolumeReq(v2)}

(* The same snapshot name for two volumes. *)
SameSnapshotName == {CreateSnapshotReq(v1, s1), CreateSnapshotReq(v2, s1)}

HandlerSymmetry == Permutations(Handler)
=============================================================================
