------------------------------ MODULE NodeServer ------------------------------
(***************************************************************************)
(* The CSI node service (pkg/driver/nodeServer.go): NodePublishVolume      *)
(* shares a volume unless it is shared and mounts it at a target path of   *)
(* a node, NodeUnpublishVolume unmounts it.  One instance of the service   *)
(* runs on each node; the nodes meet only on the appliance.                *)
(*                                                                         *)
(* A call runs in a worker of its own, takes no lock, and makes one call   *)
(* to the appliance or to the operating system after the other, one action *)
(* each.  The kubelet repeats a call until it is answered OK, and may give *)
(* up publishing at any time; what it publishes is unpublished before its  *)
(* target path is forgotten.  The kubelet never publishes at the target    *)
(* path of another pod.                                                    *)
(*                                                                         *)
(* Failures, at most MaxFaults in a behaviour: a call fails; a call to the *)
(* appliance takes effect but its reply is lost; the service crashes on a  *)
(* node; and, with NodeCallsTimeOut, the kubelet gives up on a call while  *)
(* its worker, which ignores the context, runs on.                         *)
(*                                                                         *)
(* Not modelled here: the configuration and its refresh, volume IDs, the   *)
(* choice of the appliance, staging (Unimplemented), NodeGetVolumeStats.   *)
(* Every access list admits every node, if only to read.                   *)
(*                                                                         *)
(* "Mistake:" marks variants that only show that the properties notice     *)
(* plausible bugs.                                                         *)
(***************************************************************************)
EXTENDS Naturals, Sequences

CONSTANTS
  Volume,
  Target,            \* the target paths
  Worker,            \* the calls that may be in progress at a time
  VolumeAt,          \* the volume each target path is for
  NodeOf,            \* the node of each target path
  ReadOnly,          \* the target paths that are asked for read-only
  Flags,             \* the mount flags of the request for each target path
  Context,           \* the volume context of each volume
  cfg,               \* the appliance's entry of the configuration
  Mode,              \* the permissions that are octal numbers
  DefaultMode,       \* 0777
  Unset,             \* a parameter that is absent or empty
  NoShare,           \* no NFS share
  Everyone,          \* the access list of a share made without one
  Readers,           \* the pairs of an access list and a node that may only read
  MaxFaults,         \* bound on the number of failures
  NodeCallsTimeOut   \* whether the kubelet's deadlines may expire

VARIABLES
  nef,     \* the appliance: its filesystems vols and their NFS shares share
  usable,  \* the volumes that pods may use
  smb,     \* the filesystems that are shared over SMB
  acl,     \* the ACL that was set on each filesystem
  mode,    \* the permissions that were set on each filesystem's directory
  dirs,    \* the target paths that exist
  mounts,  \* the mounts at each target path, the last one on top
  work,    \* what each worker is doing
  status,  \* what the kubelet knows of each target path
  late,    \* the target paths a publication of which has timed out
  faults   \* the number of failures so far

nodeVars == <<smb, acl, mode, dirs, mounts, work, status, late>>

Publishing   == {"GetFilesystem", "CreateShare", "SetFilesystemACL",
                 "GetSmbShareName", "CheckTarget", "Mount", "Chmod"}
Unpublishing == {"CheckMounted", "RemoveUnmounted", "Unmount", "Remove"}

Idle == [target |-> Unset, pc |-> "idle", ok |-> FALSE, live |-> FALSE]

NodeInit ==
  /\ smb = {}
  /\ acl = [v \in Volume |-> Unset]
  /\ mode = [v \in Volume |-> Unset]
  /\ dirs = {}
  /\ mounts = [t \in Target |-> <<>>]
  /\ work = [w \in Worker |-> Idle]
  /\ status = [t \in Target |-> "new"]
  /\ late = {}

-----------------------------------------------------------------------------
(* What a request asks for *)

ContextOf(v, key) == IF key \in DOMAIN Context[v] THEN Context[v][key] ELSE Unset

FirstSet(a, b) == IF a # Unset THEN a ELSE b

(* Regular expressions for mount options are sets of options. *)
AppendIfRegexpNotExist(options, re, value) ==
  IF options \cap re = {} THEN options \cup {value} ELSE options

Vers     == {"vers=3", "vers=4"}
Timeo    == {"timeo=100", "timeo=600"}
Username == {"username=admin"}
Password == {"password=123"}

MountOptions(t) ==
  LET o == IF Flags[t] # {} THEN Flags[t]
           ELSE FirstSet(ContextOf(VolumeAt[t], "mountOptions"), cfg.mountOptions)
  IN IF t \in ReadOnly THEN AppendIfRegexpNotExist(o, {"ro"}, "ro") ELSE o

(* NFS v3 without locks, unless a version is given.  The expression for    *)
(* nolock does not match it, but the option changes nothing when repeated. *)
NfsOptions(options) ==
  LET o == AppendIfRegexpNotExist(options, Vers, "vers=3")
      p == IF "vers=3" \in o THEN o \cup {"nolock"} ELSE o
  IN AppendIfRegexpNotExist(p, Timeo, "timeo=100")

FsType(t) ==
  FirstSet(ContextOf(VolumeAt[t], "mountFsType"), FirstSet(cfg.mountFsType, "nfs"))

DataIP(t) == FirstSet(ContextOf(VolumeAt[t], "dataIP"), cfg.dataIP)

Supported(t) ==
  \/ FsType(t) = "nfs"
  \/ /\ FsType(t) = "cifs"
     /\ MountOptions(t) \cap Username # {} /\ MountOptions(t) \cap Password # {}

MountPoint(t) ==
  [vol     |-> VolumeAt[t], type |-> FsType(t), address |-> DataIP(t),
   options |-> IF FsType(t) = "nfs" THEN NfsOptions(MountOptions(t))
               ELSE MountOptions(t)]

GetMountPointPermissions(t) ==
  FirstSet(ContextOf(VolumeAt[t], "mountPointPermissions"), DefaultMode)

Shared(t) ==
  LET v == VolumeAt[t] IN
  IF FsType(t) = "nfs" THEN nef.share[v] # NoShare ELSE v \in smb

(* The NFS share lets the node of the target path read only. *)
ReadOnlyShare(t) ==
  FsType(t) = "nfs" /\ <<nef.share[VolumeAt[t]], NodeOf[t]>> \in Readers

(* Requests that every node can serve. *)
Servable(t) == Supported(t) /\ GetMountPointPermissions(t) \in Mode

-----------------------------------------------------------------------------
(* The kubelet *)

Call(t, w, pc, s) ==
  /\ work[w] = Idle
  /\ work' = [work EXCEPT ![w] = [target |-> t, pc |-> pc, ok |-> FALSE,
                                  live |-> TRUE]]
  /\ status' = [status EXCEPT ![t] = s]
  /\ UNCHANGED <<nef, smb, acl, mode, dirs, mounts, late, faults>>

PublishFirst(t, w) ==
  /\ status[t] = "new" /\ VolumeAt[t] \in usable
  /\ Call(t, w, "GetFilesystem", "publishing")

PublishAgain(t, w) ==
  status[t] = "publishFailed" /\ Call(t, w, "GetFilesystem", "publishing")

UnpublishFirst(t, w) ==
  /\ status[t] \in {"publishFailed", "published"}
  /\ Call(t, w, "CheckMounted", "unpublishing")

UnpublishAgain(t, w) ==
  status[t] = "unpublishFailed" /\ Call(t, w, "CheckMounted", "unpublishing")

-----------------------------------------------------------------------------
(* The steps of a worker *)

At(w, pc) == work[w].pc = pc

Goto(w, pc) ==
  /\ work' = [work EXCEPT ![w].pc = pc]
  /\ UNCHANGED faults

Finish(w, ok) ==
  /\ work' = [work EXCEPT ![w].pc = "reply", ![w].ok = ok]
  /\ UNCHANGED faults

Fault == faults < MaxFaults /\ faults' = faults + 1

FailWith(w, ok) ==
  Fault /\ work' = [work EXCEPT ![w].pc = "reply", ![w].ok = ok]

(* The call took effect: the worker goes on, or the reply is lost. *)
Applied(w, pc) == Goto(w, pc) \/ FailWith(w, FALSE)

(* Once the filesystem is shared. *)
AfterShare(t) == IF FsType(t) = "cifs" THEN "GetSmbShareName" ELSE "CheckTarget"

(* resolveNS and GetFilesystem: whether the volume is shared is read here, *)
(* and acted on by the steps that follow.                                  *)
GetFilesystem(w) ==
  LET t == work[w].target IN
  /\ At(w, "GetFilesystem")
  /\ UNCHANGED <<nef, smb, acl, mode, dirs, mounts>>
  /\ \/ /\ VolumeAt[t] \in nef.vols /\ Supported(t)
        /\ Goto(w, IF Shared(t) THEN AfterShare(t) ELSE "CreateShare")
     \/ /\ VolumeAt[t] \notin nef.vols \/ ~Supported(t)
        /\ Finish(w, FALSE)

(* The appliance refuses a second share: another node came first. *)
CreateShare(w) ==
  LET t == work[w].target
      v == VolumeAt[t]
  IN
  /\ At(w, "CreateShare")
  /\ UNCHANGED <<acl, mode, dirs, mounts>>
  /\ \/ /\ v \in nef.vols /\ ~Shared(t) /\ FsType(t) = "nfs"
        /\ nef' = [nef EXCEPT !.share[v] = Everyone]
        /\ Applied(w, "SetFilesystemACL")
        /\ UNCHANGED smb
     \/ /\ v \in nef.vols /\ ~Shared(t) /\ FsType(t) = "cifs"
        /\ smb' = smb \cup {v}
        /\ Applied(w, "SetFilesystemACL")
        /\ UNCHANGED nef
     \/ /\ v \notin nef.vols \/ Shared(t)
        /\ Finish(w, FALSE)
        /\ UNCHANGED <<nef, smb>>

SetFilesystemACL(w) ==
  LET t == work[w].target
      v == VolumeAt[t]
  IN
  /\ At(w, "SetFilesystemACL")
  /\ UNCHANGED <<nef, smb, mode, dirs, mounts>>
  /\ \/ /\ v \in nef.vols
        /\ acl' = [acl EXCEPT ![v] = IF t \in ReadOnly THEN "ro" ELSE "rw"]
        /\ Applied(w, AfterShare(t))
     \/ /\ v \notin nef.vols
        /\ Finish(w, FALSE)
        /\ UNCHANGED acl

GetSmbShareName(w) ==
  LET t == work[w].target IN
  /\ At(w, "GetSmbShareName")
  /\ \/ VolumeAt[t] \in smb    /\ Goto(w, "CheckTarget")
     \/ VolumeAt[t] \notin smb /\ Finish(w, FALSE)
  /\ UNCHANGED <<nef, smb, acl, mode, dirs, mounts>>

-----------------------------------------------------------------------------
(* doMount, and the rest of NodePublishVolume *)

(* Mistake: "already a mount point" ends the call. *)
CheckTargetDone(w) ==
  LET t == work[w].target IN
  /\ At(w, "CheckTarget")
  /\ IF mounts[t] # <<>> THEN Finish(w, TRUE) ELSE Goto(w, "Mount")
  /\ dirs' = dirs \cup {t}
  /\ UNCHANGED <<nef, smb, acl, mode, mounts>>

(* A target path that is missing is made.  One that is a mount point       *)
(* already counts as mounted, whatever is mounted there and how.           *)
CheckTarget(w) ==
  LET t == work[w].target IN
  /\ At(w, "CheckTarget")
  /\ dirs' = dirs \cup {t}
  /\ Goto(w, IF mounts[t] # <<>> THEN "Chmod" ELSE "Mount")
  /\ UNCHANGED <<nef, smb, acl, mode, mounts>>

Mount(w) ==
  LET t == work[w].target IN
  /\ At(w, "Mount")
  /\ UNCHANGED <<nef, smb, acl, mode, dirs>>
  /\ \/ /\ t \in dirs /\ VolumeAt[t] \in nef.vols /\ Shared(t)
        /\ mounts' = [mounts EXCEPT ![t] = Append(@, MountPoint(t))]
        /\ Goto(w, "Chmod")
     \/ /\ ~(t \in dirs /\ VolumeAt[t] \in nef.vols /\ Shared(t))
        /\ Finish(w, FALSE)
        /\ UNCHANGED mounts

(* The permissions are parsed once the volume is mounted.  Those of the    *)
(* target path are those of the volume's directory while it is mounted.    *)
(* A share that the node may only read refuses to change them, which does  *)
(* not fail the call.                                                      *)
Chmod(w) ==
  LET t == work[w].target
      v == VolumeAt[t]
      m == GetMountPointPermissions(t)
      reaches == t \in dirs /\ (mounts[t] # <<>> => v \in nef.vols)
  IN
  /\ At(w, "Chmod")
  /\ UNCHANGED <<nef, smb, acl, dirs, mounts>>
  /\ \/ /\ m \in Mode /\ "ro" \notin MountOptions(t) /\ reaches
        /\ mode' = IF mounts[t] # <<>> /\ ~ReadOnlyShare(t)
                     THEN [mode EXCEPT ![v] = m] ELSE mode
        /\ Finish(w, TRUE)
     \/ /\ m \in Mode /\ "ro" \in MountOptions(t)
        /\ Finish(w, TRUE)
        /\ UNCHANGED mode
     \/ /\ m \notin Mode \/ ("ro" \notin MountOptions(t) /\ ~reaches)
        /\ Finish(w, FALSE)
        /\ UNCHANGED mode

-----------------------------------------------------------------------------
(* NodeUnpublishVolume *)

(* Mistake: a target path that is missing is an error. *)
CheckMountedMissing(w) ==
  LET t == work[w].target IN
  /\ At(w, "CheckMounted")
  /\ \/ t \notin dirs /\ Finish(w, FALSE)
     \/ t \in dirs /\ mounts[t] = <<>> /\ Goto(w, "RemoveUnmounted")
     \/ mounts[t] # <<>> /\ Goto(w, "Unmount")
  /\ UNCHANGED <<nef, smb, acl, mode, dirs, mounts>>

CheckMounted(w) ==
  LET t == work[w].target IN
  /\ At(w, "CheckMounted")
  /\ \/ t \notin dirs /\ Finish(w, TRUE)
     \/ t \in dirs /\ mounts[t] = <<>> /\ Goto(w, "RemoveUnmounted")
     \/ mounts[t] # <<>> /\ Goto(w, "Unmount")
  /\ UNCHANGED <<nef, smb, acl, mode, dirs, mounts>>

(* Mistake: the target path is removed without a look at what is in it. *)
RemoveUnmountedAll(w) ==
  /\ At(w, "RemoveUnmounted")
  /\ dirs' = dirs \ {work[w].target}
  /\ Finish(w, TRUE)
  /\ UNCHANGED <<nef, smb, acl, mode, mounts>>

(* An error of os.Remove is logged only. *)
RemoveUnmounted(w) ==
  LET t == work[w].target IN
  /\ At(w, "RemoveUnmounted")
  /\ dirs' = IF mounts[t] = <<>> THEN dirs \ {t} ELSE dirs
  /\ Finish(w, TRUE)
  /\ UNCHANGED <<nef, smb, acl, mode, mounts>>

Unmount(w) ==
  LET t == work[w].target IN
  /\ At(w, "Unmount")
  /\ UNCHANGED <<nef, smb, acl, mode, dirs>>
  /\ \/ /\ mounts[t] # <<>>
        /\ mounts' = [mounts EXCEPT ![t] = SubSeq(@, 1, Len(@) - 1)]
        /\ Goto(w, "Remove")
     \/ /\ mounts[t] = <<>>
        /\ Finish(w, FALSE)
        /\ UNCHANGED mounts

(* A directory that another mount lies under is busy. *)
Remove(w) ==
  LET t == work[w].target IN
  /\ At(w, "Remove")
  /\ UNCHANGED <<nef, smb, acl, mode, mounts>>
  /\ \/ mounts[t] = <<>> /\ dirs' = dirs \ {t} /\ Finish(w, TRUE)
     \/ mounts[t] # <<>> /\ Finish(w, FALSE) /\ UNCHANGED dirs

-----------------------------------------------------------------------------
(* Mistake: a failure of the first check is taken for a missing path. *)
FailureCodeUnchecked(w) == work[w].pc \in {"CheckMounted", "RemoveUnmounted"}

FailureCode(w) == At(w, "RemoveUnmounted")

StepFails(w) ==
  /\ work[w].pc \in Publishing \cup Unpublishing
  /\ FailWith(w, FailureCode(w))
  /\ UNCHANGED <<nef, smb, acl, mode, dirs, mounts>>

Step(w) ==
  /\ \/ GetFilesystem(w) \/ CreateShare(w) \/ SetFilesystemACL(w)
     \/ GetSmbShareName(w)
     \/ CheckTarget(w) \/ Mount(w) \/ Chmod(w)
     \/ CheckMounted(w) \/ RemoveUnmounted(w) \/ Unmount(w) \/ Remove(w)
     \/ StepFails(w)
  /\ UNCHANGED <<status, late>>

(* What the kubelet learns when the call it waits for ends. *)
Outcome(t, ok) ==
  CASE status[t] = "publishing"   -> IF ok THEN "published" ELSE "publishFailed"
    [] status[t] = "unpublishing" -> IF ok THEN "unpublished" ELSE "unpublishFailed"

Reply(w) ==
  LET c == work[w] IN
  /\ At(w, "reply")
  /\ work' = [work EXCEPT ![w] = Idle]
  /\ status' = IF c.live THEN [status EXCEPT ![c.target] = Outcome(c.target, c.ok)]
               ELSE status
  /\ UNCHANGED <<nef, smb, acl, mode, dirs, mounts, late, faults>>

(* The kubelet's deadline expires.  No worker looks at its context. *)
Timeout(w) ==
  LET t == work[w].target IN
  /\ NodeCallsTimeOut
  /\ work[w].live
  /\ Fault
  /\ work' = [work EXCEPT ![w].live = FALSE]
  /\ late' = IF status[t] = "publishing" THEN late \cup {t} ELSE late
  /\ status' = [status EXCEPT ![t] = Outcome(t, FALSE)]
  /\ UNCHANGED <<nef, smb, acl, mode, dirs, mounts>>

(* The service restarts on the node n; what is mounted stays. *)
Crash(n) ==
  LET W == {w \in Worker : work[w] # Idle /\ NodeOf[work[w].target] = n}
      L == {work[w].target : w \in {u \in W : work[u].live}}
  IN
  /\ W # {}
  /\ Fault
  /\ work' = [w \in Worker |-> IF w \in W THEN Idle ELSE work[w]]
  /\ status' = [t \in Target |-> IF t \in L THEN Outcome(t, FALSE) ELSE status[t]]
  /\ UNCHANGED <<nef, smb, acl, mode, dirs, mounts, late>>

NodeNext ==
  \/ \E t \in Target, w \in Worker :
       \/ PublishFirst(t, w)   \/ PublishAgain(t, w)
       \/ UnpublishFirst(t, w) \/ UnpublishAgain(t, w)
  \/ \E w \in Worker : Step(w) \/ Reply(w) \/ Timeout(w)
  \/ \E t \in Target : Crash(NodeOf[t])

-----------------------------------------------------------------------------
(* Properties *)

MountPoints == {MountPoint(t) : t \in Target}

Calls ==
  [target: Target, pc: Publishing \cup Unpublishing \cup {"reply"},
   ok: BOOLEAN, live: BOOLEAN]

(* Every variable has its type, and only what exists is mounted on. *)
NodeTypeOK ==
  /\ smb \subseteq nef.vols
  /\ acl \in [Volume -> {Unset, "ro", "rw"}]
  /\ mode \in [Volume -> Mode \cup {Unset}]
  /\ dirs \subseteq Target
  /\ mounts \in [Target -> Seq(MountPoints)]
  /\ \A t \in Target : mounts[t] # <<>> => t \in dirs
  /\ work \in [Worker -> Calls \cup {Idle}]
  /\ status \in [Target -> {"new", "publishing", "publishFailed", "published",
                            "unpublishing", "unpublishFailed", "unpublished"}]
  /\ late \subseteq Target

(* A pod is told that its volume is there only when it is: the volume is   *)
(* mounted, still on the appliance and shared; a read-only target has only *)
(* read-only mounts; and any other has the permissions asked for, whether  *)
(* this call mounted the volume or found it mounted by one that failed,    *)
(* unless the share lets its node read only.                               *)
PublishedIsUsable ==
  \A t \in Target : status[t] = "published" =>
    /\ mounts[t] # <<>> /\ VolumeAt[t] \in nef.vols /\ Shared(t)
    /\ t \in ReadOnly =>
         \A i \in DOMAIN mounts[t] : "ro" \in mounts[t][i].options
    /\ "ro" \notin MountOptions(t) /\ ~ReadOnlyShare(t) =>
         mode[VolumeAt[t]] = GetMountPointPermissions(t)

(* What NodeUnpublishVolume reported gone is mounted no more, by whichever *)
(* try, and stays so: the CO deletes the volume after that.  Its directory *)
(* may stay behind, since RemoveUnmounted only logs an error of os.Remove. *)
(* (A publication that has timed out may run on behind the unpublication,  *)
(* and mount the volume for good.)                                         *)
UnpublishedIsGone ==
  \A t \in Target \ late : status[t] = "unpublished" => mounts[t] = <<>>

(* "apply NS filesystem ACL (gets applied only for new volumes, not for    *)
(* already shared pre-provisioned volumes)", nodeServer.go 325 and 389: a  *)
(* published volume that the node service shared has an ACL, unless a      *)
(* publication is about to set it.                                         *)
ACLApplied ==
  \A t \in Target :
    LET v == VolumeAt[t] IN
    /\ status[t] = "published"
    /\ ~\E w \in Worker : At(w, "SetFilesystemACL") /\ VolumeAt[work[w].target] = v
    =>
    IF FsType(t) = "nfs" THEN nef.share[v] = Everyone => acl[v] # Unset
    ELSE acl[v] # Unset

(* Repeated calls succeed in the end, however they failed: a publication   *)
(* takes what an earlier try shared, made or mounted, an unpublication     *)
(* what an earlier one has left.  As a target path is used once, it is     *)
(* enough that again and again nothing is under way or failed.             *)
Settled(t) == status[t] \in {"new", "published", "unpublished"}

CallsConverge == []<>(\A t \in {u \in Target : Servable(u)} : Settled(t))
=============================================================================
