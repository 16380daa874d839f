-------------------------------- MODULE Driver --------------------------------
(***************************************************************************)
(* The whole driver at work: the controller service and the node services  *)
(* of the cluster on one appliance (pkg/driver/driver.go runs either, or   *)
(* both, in a process).  They share nothing but the appliance, and what    *)
(* the CO passes on: the volume context that CreateVolume answers comes    *)
(* back in NodePublishVolume.                                              *)
(*                                                                         *)
(* The CO lets pods use a volume from the answer to CreateVolume until     *)
(* DeleteVolume, which it does not ask for while a target path of the      *)
(* volume is in use.                                                       *)
(***************************************************************************)
EXTENDS ControllerServer, Sequences

CONSTANTS
  Parameters,  \* the parameters of the StorageClass of each volume
  Target, Worker, VolumeAt, NodeOf, ReadOnly, Flags, cfg, Mode, DefaultMode,
  Unset, Everyone, Readers, NodeCallsTimeOut

VARIABLES smb, acl, mode, dirs, mounts, work, status, late

(* CreateVolume: the volume context it answers.  A volume that was made by *)
(* hand has none.                                                          *)
VolumeContext(v) ==
  LET p(key) == IF key \in DOMAIN Parameters[v] THEN Parameters[v][key] ELSE Unset
  IN IF v \in Existing THEN <<>>
     ELSE [key \in {"dataIp", "mountOptions", "mountFsType", "mountPointPermissions"} |->
             IF key = "mountPointPermissions" /\ p(key) = Unset
               THEN cfg.mountPointPermissions ELSE p(key)]

Context == [v \in Volume |-> VolumeContext(v)]

N == INSTANCE NodeServer WITH usable <- {v \in Volume : Known(v) /\ ~Retired(v)}

nodeVars == <<smb, acl, mode, dirs, mounts, work, status, late>>

driverVars == <<vars, nodeVars>>

ASSUME DriverConstantsOK ==
  /\ VolumeAt \in [Target -> Volume]
  /\ ReadOnly \subseteq Target
  /\ DefaultMode \in Mode
  /\ Everyone \in AccessList
  /\ \A t \in Target : <<Everyone, NodeOf[t]>> \notin Readers
  /\ NodeCallsTimeOut \in BOOLEAN

DriverInit == Init /\ N!NodeInit

InUse(v) ==
  \E t \in Target : VolumeAt[t] = v /\ status[t] \notin {"new", "unpublished"}

(* A filesystem takes its SMB share, ACL and directory with it. *)
ControllerStep ==
  /\ Next
  /\ \A v \in Volume : Retired(v)' /\ ~Retired(v) => ~InUse(v)
  /\ smb' = smb \cap nef'.vols
  /\ acl' = [v \in Volume |-> IF v \in nef'.vols THEN acl[v] ELSE Unset]
  /\ mode' = [v \in Volume |-> IF v \in nef'.vols THEN mode[v] ELSE Unset]
  /\ UNCHANGED <<dirs, mounts, work, status, late>>

NodeStep == N!NodeNext /\ UNCHANGED <<call, answer, asked>>

DriverNext == ControllerStep \/ NodeStep

DriverSpec == DriverInit /\ [][DriverNext]_driverVars

(* As long as a worker can move, or a call can be repeated that was not    *)
(* answered OK, one of them does.                                          *)
NodeProgress ==
  /\ \/ \E w \in Worker : N!Step(w) \/ N!Reply(w)
     \/ \E t \in Target, w \in Worker : N!PublishAgain(t, w) \/ N!UnpublishAgain(t, w)
  /\ UNCHANGED <<call, answer, asked>>

FairDriverSpec == DriverSpec /\ WF_driverVars(NodeProgress)

-----------------------------------------------------------------------------
(* Properties: those of the two services, about what they do together. *)

NodeTypeOK          == N!NodeTypeOK
PublishedIsUsable   == N!PublishedIsUsable
UnpublishedIsGone   == N!UnpublishedIsGone
ACLApplied          == N!ACLApplied
CallsConverge       == N!CallsConverge

(* "dataIp: NexentaStor data IP or HA VIP for mounting shares", README.md  *)
(* 221: a volume is mounted from the address its StorageClass gives.       *)
MountedFromDataIp ==
  \A t \in Target :
    \A i \in DOMAIN mounts[t] :
      "dataIp" \in DOMAIN Parameters[VolumeAt[t]] =>
        mounts[t][i].address = Parameters[VolumeAt[t]].dataIp
=============================================================================
