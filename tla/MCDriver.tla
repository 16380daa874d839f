-------------------------------- MODULE MCDriver --------------------------------
(***************************************************************************)
(* Instances of Driver for TLC.  The volume v1 was made by hand and is     *)
(* published on two nodes, read-write and read-only, the way the           *)
(* configuration says: over SMB, or over NFS.  v2 is created, published    *)
(* over NFS with parameters of its own, and deleted; its access list lets  *)
(* the node b, where it is published, read only.                           *)
(***************************************************************************)
EXTENDS Driver

CONSTANTS v1, v2, t1, t2, t3, a, b, acl1

MCRequests == {CreateVolumeReq(v2, 1, acl1), DeleteVolumeReq(v2)}

MCParameters ==
  [v \in Volume |->
     IF v = v1 THEN <<>>
     ELSE [mountFsType |-> "nfs", mountPointPermissions |-> "0750", dataIp |-> "ip2",
           mountOptions |-> {"vers=4"}]]

Login == {"username=admin", "password=123"}

MCcfgSMB ==
  [dataIP |-> "ip1", mountOptions |-> Login, mountFsType |-> "cifs",
   mountPointPermissions |-> Unset]

MCcfgNFS ==
  [dataIP |-> "ip1", mountOptions |-> {}, mountFsType |-> Unset,
   mountPointPermissions |-> Unset]

MCReaders == {<<acl1, b>>}

MCVolumeAt == [t \in Target |-> IF t = t3 THEN v2 ELSE v1]
MCNodeOf   == [t \in Target |-> IF t = t1 THEN a ELSE b]
MCFlags    == [t \in Target |-> IF t = t2 THEN Login \cup {"vers=3"} ELSE {}]
=============================================================================
