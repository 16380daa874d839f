----------------------------- MODULE Driver_proofs -----------------------------
(***************************************************************************)
(* Proofs about the whole driver at work, for every value of its           *)
(* constants: what the kubelet is told is true on the node and on the      *)
(* appliance, and the nodes do not disturb what the controller promised.   *)
(***************************************************************************)
EXTENDS Driver, TimelyController_proofs

-----------------------------------------------------------------------------
(* The layers of the invariant.                                            *)

(* The kubelet waits for one call for a target path, and a worker that it  *)
(* waits for does what it waits for.  A publication that nobody waits for  *)
(* has timed out; an unpublication comes after every publication.          *)
WorkersOK ==
  /\ \A w \in Worker : work[w].live =>
       /\ status[work[w].target] \in {"publishing", "unpublishing"}
       /\ work[w].pc \in N!Publishing => status[work[w].target] = "publishing"
  /\ \A u, w \in Worker :
       work[u].live /\ work[w].live /\ u # w => work[u].target # work[w].target
  /\ \A w \in Worker :
       work[w].pc \in N!Publishing => work[w].live \/ work[w].target \in late
  /\ \A w \in Worker :
       work[w].pc \in N!Unpublishing =>
         status[work[w].target] \in {"unpublishing", "unpublishFailed", "unpublished"}

(* A worker is about to answer, or has answered, that nothing is mounted.  *)
Released(t) ==
  \/ status[t] = "unpublished"
  \/ \E w \in Worker :
       /\ work[w].target = t
       /\ \/ work[w].pc = "RemoveUnmounted"
          \/ /\ work[w].pc = "reply" /\ work[w].ok /\ work[w].live
             /\ status[t] = "unpublishing"

(* Such a path is not mounted, unless a publication of it has timed out.   *)
ReleasedOK == \A t \in Target \ late : Released(t) => mounts[t] = <<>>

(* What holds of the nodes whatever the controller does.                   *)
NodeInv == N!NodeTypeOK /\ WorkersOK /\ ReleasedOK

(* A volume that was made by hand stays until it is to be deleted.         *)
MadeByHand == \A v \in Existing : v \in nef.vols \/ Retired(v)

(* What is published was created, and is not to be deleted while in use.   *)
UsedOK ==
  /\ \A t \in Target : status[t] # "new" \/ mounts[t] # <<>> => Known(VolumeAt[t])
  /\ \A w \in Worker : work[w].pc # "idle" => Known(VolumeAt[work[w].target])
  /\ \A v \in Volume : InUse(v) => ~Retired(v)

(* A worker is about to answer, or has answered, that the volume is there. *)
Provided(t) ==
  \/ status[t] = "published"
  \/ \E w \in Worker :
       /\ work[w].target = t /\ work[w].pc = "reply" /\ work[w].ok /\ work[w].live
       /\ status[t] = "publishing"

(* The mounts at a target path are those of its own publications.  Those   *)
(* of a volume that stays are shared, and a publication takes the volume   *)
(* for mounted only when it is.                                            *)
MountsOK ==
  /\ \A t \in Target : \A i \in DOMAIN mounts[t] : mounts[t][i] = N!MountPoint(t)
  /\ \A t \in Target : mounts[t] # <<>> /\ ~Retired(VolumeAt[t]) => N!Shared(t)
  /\ \A w \in Worker : work[w].live /\ work[w].pc = "Chmod" => mounts[work[w].target] # <<>>

(* The permissions of the volume can be set through the target path.       *)
Writable(t) == "ro" \notin N!MountOptions(t) /\ ~N!ReadOnlyShare(t)

(* Such a path is mounted, with the permissions it was published with.     *)
ProvidedOK ==
  \A t \in Target : Provided(t) =>
    /\ mounts[t] # <<>>
    /\ Writable(t) => mode[VolumeAt[t]] = N!GetMountPointPermissions(t)

(* What holds of the nodes as the controller keeps its promises.           *)
PublishedInv == UsedOK /\ MountsOK /\ ProvidedOK

-----------------------------------------------------------------------------
(***************************************************************************)
(* The node services, each step on its own.                                *)
(***************************************************************************)

(* A step leaves the worker w, who goes on with its call, at pc with the   *)
(* answer ok.                                                              *)
Leaves(w, pc, ok) ==
  /\ work' \in [Worker -> N!Calls \cup {N!Idle}]
  /\ work'[w] \in N!Calls
  /\ work'[w].pc = pc /\ work'[w].ok = ok
  /\ work'[w].target = work[w].target /\ work'[w].live = work[w].live
  /\ \A u \in Worker \ {w} : work'[u] = work[u]
  /\ faults' \in 0 .. MaxFaults

(* A worker that is not idle. *)
LEMMA BusyWorker ==
  ASSUME N!NodeTypeOK, NEW w \in Worker, work[w].pc # "idle"
  PROVE  work[w] \in N!Calls /\ work[w].target \in Target
  BY DEF N!NodeTypeOK, N!Calls, N!Idle

(* Where a worker is after a step. *)
LEMMA Advances ==
  ASSUME N!NodeTypeOK, TypeOK, NEW w \in Worker, work[w] \in N!Calls,
         NEW pc \in N!Publishing \cup N!Unpublishing \cup {"reply"}, NEW ok \in BOOLEAN
  PROVE  /\ N!Goto(w, pc) => Leaves(w, pc, work[w].ok)
         /\ N!Finish(w, ok) => Leaves(w, "reply", ok)
         /\ N!FailWith(w, ok) => Leaves(w, "reply", ok)
<1> DEFINE c == [work[w] EXCEPT !.pc = pc]
<1> DEFINE d == [[work[w] EXCEPT !.pc = "reply"] EXCEPT !.ok = ok]
<1>1. /\ c \in N!Calls /\ c.pc = pc /\ c.ok = work[w].ok
      /\ c.target = work[w].target /\ c.live = work[w].live
  BY DEF N!Calls
<1>2. /\ d \in N!Calls /\ d.pc = "reply" /\ d.ok = ok
      /\ d.target = work[w].target /\ d.live = work[w].live
  BY DEF N!Calls
<1>3. ASSUME faults' = faults \/ (faults < MaxFaults /\ faults' = faults + 1)
      PROVE  faults' \in 0 .. MaxFaults
  BY <1>3, ConstantsOK DEF TypeOK
<1>4. ASSUME NEW e \in N!Calls, work' = [work EXCEPT ![w] = e]
      PROVE  /\ work' \in [Worker -> N!Calls \cup {N!Idle}] /\ work'[w] = e
             /\ \A u \in Worker \ {w} : work'[u] = work[u]
  BY <1>4 DEF N!NodeTypeOK
<1>5. ASSUME N!Goto(w, pc) PROVE Leaves(w, pc, work[w].ok)
  <2>1. work' = [work EXCEPT ![w] = c] /\ faults' = faults
    BY <1>5 DEF N!Goto
  <2> HIDE DEF c
  <2> QED BY <1>1, <1>3, <1>4, <2>1 DEF Leaves
<1>6. ASSUME N!Finish(w, ok) \/ N!FailWith(w, ok) PROVE Leaves(w, "reply", ok)
  <2>1. /\ work' = [work EXCEPT ![w] = d]
        /\ faults' = faults \/ (faults < MaxFaults /\ faults' = faults + 1)
    BY <1>6 DEF N!Finish, N!FailWith, N!Fault
  <2> HIDE DEF d
  <2> QED BY <1>2, <1>3, <1>4, <2>1 DEF Leaves
<1> QED BY <1>5, <1>6

(* What a worker for the target path t does to the rest, and what it may   *)
(* tell from it where it goes on.                                          *)
Shares(t) ==
  LET v == VolumeAt[t] IN
  /\ mounts' = mounts /\ dirs' = dirs /\ mode' = mode /\ acl' = acl
  /\ v \in nef.vols /\ ~N!Shared(t)
  /\ \/ /\ N!FsType(t) = "nfs" /\ smb' = smb
        /\ nef' = [nef EXCEPT !.share[v] = Everyone]
     \/ smb' = smb \cup {v} /\ nef' = nef

(* The ACL of the volume is set.                                           *)
Grants(t) ==
  /\ \E a \in {"ro", "rw"} : acl' = [acl EXCEPT ![VolumeAt[t]] = a]
  /\ UNCHANGED <<nef, smb, mode, dirs, mounts>>

(* The shared volume is mounted at the target path.                        *)
Mounts(t) ==
  /\ t \in dirs /\ VolumeAt[t] \in nef.vols /\ N!Shared(t)
  /\ mounts' = [mounts EXCEPT ![t] = Append(@, N!MountPoint(t))]
  /\ UNCHANGED <<nef, smb, acl, mode, dirs>>

(* The topmost mount is taken away.                                        *)
Unmounts(t) ==
  /\ mounts[t] # <<>>
  /\ mounts' = [mounts EXCEPT ![t] = SubSeq(@, 1, Len(@) - 1)]
  /\ UNCHANGED <<nef, smb, acl, mode, dirs>>

(* The permissions of the volume are set through the mount.                *)
Permits(t) ==
  /\ N!GetMountPointPermissions(t) \in Mode
  /\ mode' = [mode EXCEPT ![VolumeAt[t]] = N!GetMountPointPermissions(t)]
  /\ UNCHANGED <<nef, smb, acl, dirs, mounts>>

(* The directory of a target path without mounts is removed.               *)
Empties(t) == mounts[t] = <<>> /\ dirs' = dirs \ {t} /\ UNCHANGED <<nef, smb, acl, mode, mounts>>

(* The directory of the target path is made.                               *)
Makes(t) == dirs' = dirs \cup {t} /\ UNCHANGED <<nef, smb, acl, mode, mounts>>

(* Nothing but the place of the worker changes.                            *)
Idles == UNCHANGED <<nef, smb, acl, mode, dirs, mounts>>

(* A worker that answers OK has done what it was asked for. *)
Honest(w, t) ==
  \/ /\ work[w].pc = "Chmod" /\ mounts' = mounts /\ nef' = nef
     /\ mounts[t] # <<>> /\ Writable(t) =>
          mode'[VolumeAt[t]] = N!GetMountPointPermissions(t)
  \/ work[w].pc = "RemoveUnmounted" /\ mounts' = mounts
  \/ work[w].pc \in N!Unpublishing /\ mounts'[t] = <<>>

(* The whole of a step of a worker: its place, its effect, and what the    *)
(* place it reaches says of the mounts.                                    *)
Turn(w, t) ==
  /\ Leaves(w, work'[w].pc, work'[w].ok)
  /\ \/ /\ work[w].pc \in N!Publishing
        /\ Shares(t) \/ Grants(t) \/ Makes(t) \/ Mounts(t) \/ Permits(t) \/ Idles
        /\ work'[w].pc \in N!Publishing \cup {"reply"}
     \/ /\ work[w].pc \in N!Unpublishing
        /\ Unmounts(t) \/ Empties(t) \/ Idles
        /\ work'[w].pc \in N!Unpublishing \cup {"reply"}
  /\ work'[w].pc = "Chmod" => mounts'[t] # <<>>
  /\ work'[w].pc = "RemoveUnmounted" => mounts'[t] = <<>>
  /\ work'[w].pc = "reply" /\ work'[w].ok => Honest(w, t)

(* The steps that publish, up to the mount. *)
LEMMA ShareTurn ==
  ASSUME N!NodeTypeOK, TypeOK, NEW w \in Worker, NEW t \in Target, work[w].target = t,
         work[w] \in N!Calls,
         N!GetFilesystem(w) \/ N!CreateShare(w) \/ N!SetFilesystemACL(w) \/ N!GetSmbShareName(w)
  PROVE  Turn(w, t)
<1> DEFINE Next4 == {"CreateShare", "SetFilesystemACL", "GetSmbShareName", "CheckTarget"}
<1>1. ASSUME NEW pc \in Next4 \cup {"reply"}, NEW ok \in BOOLEAN, Leaves(w, pc, ok),
             pc = "reply" => ~ok, work[w].pc \in N!Publishing,
             Shares(t) \/ Grants(t) \/ Idles
      PROVE  Turn(w, t)
  BY <1>1 DEF Turn, Leaves, N!Publishing, Honest
<1>2. Next4 \subseteq N!Publishing /\ N!AfterShare(t) \in Next4 /\ work[w].ok \in BOOLEAN
  BY DEF N!Publishing, N!AfterShare, N!Calls
<1>3. ASSUME NEW pc \in Next4, N!Applied(w, pc) \/ N!Goto(w, pc) \/ N!Finish(w, FALSE)
      PROVE  \E q \in Next4 \cup {"reply"}, ok \in BOOLEAN :
               Leaves(w, q, ok) /\ (q = "reply" => ~ok)
  <2>1. pc # "reply" /\ pc \in N!Publishing
    BY <1>2
  <2> HIDE DEF Next4
  <2>2. Leaves(w, pc, work[w].ok) \/ Leaves(w, "reply", FALSE)
    BY <1>3, <2>1, Advances DEF N!Applied
  <2> QED BY <1>2, <1>3, <2>1, <2>2
<1>4. CASE N!GetFilesystem(w)
  <2>1. Idles /\ work[w].pc = "GetFilesystem"
    BY <1>4 DEF N!GetFilesystem, N!At, Idles
  <2>2. PICK pc \in Next4 : N!Goto(w, pc) \/ N!Finish(w, FALSE)
    BY <1>2, <1>4 DEF N!GetFilesystem
  <2> QED BY <1>1, <1>3, <2>1, <2>2 DEF N!Publishing
<1>5. CASE N!CreateShare(w)
  <2>1. Shares(t) \/ Idles
    BY <1>5 DEF N!CreateShare, Shares, Idles
  <2>2. work[w].pc = "CreateShare"
    BY <1>5 DEF N!CreateShare, N!At
  <2>3. N!Applied(w, "SetFilesystemACL") \/ N!Finish(w, FALSE)
    BY <1>5 DEF N!CreateShare
  <2> QED BY <1>1, <1>3, <2>1, <2>2, <2>3 DEF N!Publishing
<1>6. CASE N!SetFilesystemACL(w)
  <2>1. Grants(t) \/ Idles
    BY <1>6 DEF N!SetFilesystemACL, Grants, Idles
  <2>2. work[w].pc = "SetFilesystemACL"
    BY <1>6 DEF N!SetFilesystemACL, N!At
  <2>3. PICK pc \in Next4 : N!Applied(w, pc) \/ N!Finish(w, FALSE)
    BY <1>2, <1>6 DEF N!SetFilesystemACL
  <2> QED BY <1>1, <1>3, <2>1, <2>2, <2>3 DEF N!Publishing
<1>7. CASE N!GetSmbShareName(w)
  <2>1. Idles /\ work[w].pc = "GetSmbShareName"
    BY <1>7 DEF N!GetSmbShareName, N!At, Idles
  <2>2. N!Goto(w, "CheckTarget") \/ N!Finish(w, FALSE)
    BY <1>7 DEF N!GetSmbShareName
  <2> QED BY <1>1, <1>3, <2>1, <2>2 DEF N!Publishing
<1> QED BY <1>4, <1>5, <1>6, <1>7

(* The mount, and what follows it. *)
LEMMA MountTurn ==
  ASSUME N!NodeTypeOK, TypeOK, NEW w \in Worker, NEW t \in Target, work[w].target = t,
         work[w] \in N!Calls,
         N!CheckTarget(w) \/ N!Mount(w) \/ N!Chmod(w)
  PROVE  Turn(w, t)
<1> DEFINE Places == {"Mount", "Chmod", "reply"}
<1>1. \A pc \in Places, ok \in BOOLEAN :
        /\ N!Goto(w, pc) => Leaves(w, pc, work[w].ok)
        /\ N!Finish(w, ok) => Leaves(w, "reply", ok)
  BY Advances DEF N!Publishing
<1>2. CASE N!CheckTarget(w)
  <2>1. work[w].pc = "CheckTarget" /\ Makes(t)
    BY <1>2 DEF N!CheckTarget, N!At, Makes
  <2>2. \/ mounts[t] # <<>> /\ Leaves(w, "Chmod", work[w].ok)
        \/ Leaves(w, "Mount", work[w].ok)
    BY <1>1, <1>2 DEF N!CheckTarget
  <2> QED BY <2>1, <2>2 DEF Turn, Leaves, N!Publishing, Makes
<1>3. CASE N!Mount(w)
  <2>1. work[w].pc = "Mount"
    BY <1>3 DEF N!Mount, N!At
  <2>2. \/ Mounts(t) /\ Leaves(w, "Chmod", work[w].ok)
        \/ Idles /\ Leaves(w, "reply", FALSE)
    BY <1>1, <1>3 DEF N!Mount, Mounts, Idles
  <2>3. ASSUME Mounts(t) PROVE mounts'[t] # <<>>
    <3>1. mounts \in [Target -> Seq(N!MountPoints)] /\ N!MountPoint(t) \in N!MountPoints
      BY DEF N!NodeTypeOK, N!MountPoints
    <3>2. mounts'[t] = Append(mounts[t], N!MountPoint(t))
      BY <2>3, <3>1 DEF Mounts
    <3> QED BY <3>1, <3>2
  <2> QED BY <2>1, <2>2, <2>3 DEF Turn, Leaves, N!Publishing
<1>4. CASE N!Chmod(w)
  <2> DEFINE m == N!GetMountPointPermissions(t)
  <2>1. work[w].pc = "Chmod"
    BY <1>4 DEF N!Chmod, N!At
  <2>2. \/ Leaves(w, "reply", TRUE)
        \/ Leaves(w, "reply", FALSE) /\ Idles
    BY <1>1, <1>4 DEF N!Chmod, Idles
  <2>3. CASE /\ m \in Mode
             /\ mode' = IF mounts[t] # <<>> /\ ~N!ReadOnlyShare(t)
                          THEN [mode EXCEPT ![VolumeAt[t]] = m] ELSE mode
    <3>1. Permits(t) \/ (Idles /\ (mounts[t] = <<>> \/ N!ReadOnlyShare(t)))
      BY <1>4, <2>3 DEF N!Chmod, Permits, Idles
    <3>2. mode \in [Volume -> Mode \cup {Unset}] /\ VolumeAt[t] \in Volume
      BY DriverConstantsOK DEF N!NodeTypeOK
    <3>3. mounts[t] # <<>> /\ Writable(t) => mode'[VolumeAt[t]] = m
      BY <2>3, <3>2 DEF Writable
    <3>4. mounts' = mounts /\ nef' = nef
      BY <1>4 DEF N!Chmod
    <3> QED BY <2>1, <2>2, <3>1, <3>3, <3>4 DEF Turn, Leaves, N!Publishing, Honest
  <2>4. CASE "ro" \in N!MountOptions(t) /\ UNCHANGED mode
    <3>1. Idles
      BY <1>4, <2>4 DEF N!Chmod, Idles
    <3> QED BY <2>1, <2>2, <2>4, <3>1 DEF Turn, Leaves, N!Publishing, Honest, Idles, Writable
  <2>5. CASE Leaves(w, "reply", FALSE) /\ Idles
    BY <2>1, <2>5 DEF Turn, Leaves, N!Publishing
  <2>6. CASE N!Finish(w, FALSE) /\ UNCHANGED mode
    BY <1>1, <1>4, <2>5, <2>6 DEF N!Chmod, Idles
  <2> QED BY <1>4, <2>3, <2>4, <2>6 DEF N!Chmod
<1> QED BY <1>2, <1>3, <1>4

(* The steps that unpublish. *)
LEMMA UnmountTurn ==
  ASSUME N!NodeTypeOK, TypeOK, NEW w \in Worker, NEW t \in Target, work[w].target = t,
         work[w] \in N!Calls,
         N!CheckMounted(w) \/ N!RemoveUnmounted(w) \/ N!Unmount(w) \/ N!Remove(w)
  PROVE  Turn(w, t)
<1> DEFINE Places == {"RemoveUnmounted", "Unmount", "Remove", "reply"}
<1>1. \A pc \in Places, ok \in BOOLEAN :
        /\ N!Goto(w, pc) => Leaves(w, pc, work[w].ok)
        /\ N!Finish(w, ok) => Leaves(w, "reply", ok)
  BY Advances DEF N!Unpublishing
<1>2. t \notin dirs => mounts[t] = <<>>
  BY DEF N!NodeTypeOK
<1>3. CASE N!CheckMounted(w)
  <2>1. work[w].pc = "CheckMounted" /\ Idles /\ mounts' = mounts
    BY <1>3 DEF N!CheckMounted, N!At, Idles
  <2>2. \/ Leaves(w, "reply", TRUE) /\ mounts[t] = <<>>
        \/ Leaves(w, "RemoveUnmounted", work[w].ok) /\ mounts[t] = <<>>
        \/ Leaves(w, "Unmount", work[w].ok)
    BY <1>1, <1>2, <1>3 DEF N!CheckMounted
  <2> QED BY <2>1, <2>2 DEF Turn, Leaves, N!Unpublishing, Honest
<1>4. CASE N!RemoveUnmounted(w)
  <2>1. work[w].pc = "RemoveUnmounted" /\ mounts' = mounts
    BY <1>4 DEF N!RemoveUnmounted, N!At
  <2>2. Empties(t) \/ Idles
    BY <1>4 DEF N!RemoveUnmounted, Empties, Idles
  <2>3. Leaves(w, "reply", TRUE)
    BY <1>1, <1>4 DEF N!RemoveUnmounted
  <2> QED BY <2>1, <2>2, <2>3 DEF Turn, Leaves, N!Unpublishing, Honest
<1>5. CASE N!Unmount(w)
  <2>1. work[w].pc = "Unmount"
    BY <1>5 DEF N!Unmount, N!At
  <2>2. \/ Unmounts(t) /\ Leaves(w, "Remove", work[w].ok)
        \/ Idles /\ Leaves(w, "reply", FALSE)
    BY <1>1, <1>5 DEF N!Unmount, Unmounts, Idles
  <2> QED BY <2>1, <2>2 DEF Turn, Leaves, N!Unpublishing
<1>6. CASE N!Remove(w)
  <2>1. work[w].pc = "Remove"
    BY <1>6 DEF N!Remove, N!At
  <2>2. \/ Empties(t) /\ Leaves(w, "reply", TRUE)
        \/ Idles /\ Leaves(w, "reply", FALSE)
    BY <1>1, <1>6 DEF N!Remove, Empties, Idles
  <2> QED BY <2>1, <2>2 DEF Turn, Leaves, N!Unpublishing, Honest, Empties
<1> QED BY <1>3, <1>4, <1>5, <1>6

(* Every step of a worker. *)
LEMMA StepTurn ==
  ASSUME N!NodeTypeOK, TypeOK, NEW w \in Worker, N!Step(w)
  PROVE  /\ work[w] \in N!Calls /\ work[w].target \in Target
         /\ Turn(w, work[w].target)
         /\ status' = status /\ late' = late
<1>1. work[w].pc # "idle"
  BY DEF N!Step, N!StepFails, N!GetFilesystem, N!CreateShare, N!SetFilesystemACL,
    N!GetSmbShareName, N!CheckTarget, N!Mount, N!Chmod, N!CheckMounted,
    N!RemoveUnmounted, N!Unmount, N!Remove, N!At, N!Publishing, N!Unpublishing
<1>2. work[w] \in N!Calls /\ work[w].target \in Target
  BY <1>1, BusyWorker
<1>3. PICK t \in Target : t = work[w].target
  BY <1>2
<1>4. CASE N!StepFails(w)
  <2>1. Idles /\ mounts' = mounts
    BY <1>4 DEF N!StepFails, Idles
  <2>2. N!FailureCode(w) \in BOOLEAN /\ (N!FailureCode(w) => work[w].pc = "RemoveUnmounted")
    BY DEF N!FailureCode, N!At
  <2>3. Leaves(w, "reply", N!FailureCode(w))
    BY <1>2, <1>4, <2>2, Advances DEF N!StepFails
  <2>4. work[w].pc \in N!Publishing \cup N!Unpublishing
    BY <1>4 DEF N!StepFails
  <2> QED BY <1>2, <1>3, <2>1, <2>2, <2>3, <2>4 DEF Turn, Leaves, Honest, N!Step
<1> QED BY <1>2, <1>3, <1>4, ShareTurn, MountTurn, UnmountTurn DEF N!Step

-----------------------------------------------------------------------------
(***************************************************************************)
(* The node services keep their invariant.                                 *)
(***************************************************************************)

(* What is mounted, and where, after a step. *)
LEMMA TurnMounts ==
  ASSUME N!NodeTypeOK, NEW w \in Worker, NEW t \in Target, Turn(w, t)
  PROVE  /\ mounts' \in [Target -> Seq(N!MountPoints)]
         /\ dirs' \subseteq Target
         /\ \A u \in Target : mounts'[u] # <<>> => u \in dirs'
         /\ \A u \in Target \ {t} : mounts'[u] = mounts[u]
         /\ \A u \in Target : \A i \in DOMAIN mounts'[u] :
              \/ i \in DOMAIN mounts[u] /\ mounts'[u][i] = mounts[u][i]
              \/ mounts'[u][i] = N!MountPoint(u)
<1> DEFINE Kept == \A u \in Target : \A i \in DOMAIN mounts'[u] :
              \/ i \in DOMAIN mounts[u] /\ mounts'[u][i] = mounts[u][i]
              \/ mounts'[u][i] = N!MountPoint(u)
<1>1. /\ mounts \in [Target -> Seq(N!MountPoints)] /\ dirs \subseteq Target
      /\ \A u \in Target : mounts[u] # <<>> => u \in dirs
      /\ N!MountPoint(t) \in N!MountPoints
  BY DEF N!NodeTypeOK, N!MountPoints
<1>2. CASE Mounts(t)
  <2>1. /\ mounts' = [mounts EXCEPT ![t] = Append(mounts[t], N!MountPoint(t))]
        /\ dirs' = dirs /\ t \in dirs
    BY <1>2 DEF Mounts
  <2>2. Append(mounts[t], N!MountPoint(t)) \in Seq(N!MountPoints)
    BY <1>1
  <2>3. ASSUME NEW i \in DOMAIN Append(mounts[t], N!MountPoint(t))
        PROVE  \/ i \in DOMAIN mounts[t] /\ Append(mounts[t], N!MountPoint(t))[i] = mounts[t][i]
               \/ Append(mounts[t], N!MountPoint(t))[i] = N!MountPoint(t)
    BY <1>1, <2>3
  <2> QED BY <1>1, <2>1, <2>2, <2>3
<1>3. CASE Unmounts(t)
  <2> DEFINE s == SubSeq(mounts[t], 1, Len(mounts[t]) - 1)
  <2>1. mounts' = [mounts EXCEPT ![t] = s] /\ dirs' = dirs /\ mounts[t] # <<>>
    BY <1>3 DEF Unmounts
  <2>2. /\ s \in Seq(N!MountPoints)
        /\ \A i \in DOMAIN s : i \in DOMAIN mounts[t] /\ s[i] = mounts[t][i]
    BY <1>1, <2>1
  <2> HIDE DEF s
  <2> QED BY <1>1, <2>1, <2>2
<1>4. CASE mounts' = mounts /\ (dirs' = dirs \/ Makes(t) \/ Empties(t))
  <2>1. \/ dirs' = dirs \/ dirs' = dirs \cup {t}
        \/ dirs' = dirs \ {t} /\ mounts[t] = <<>>
    BY <1>4 DEF Makes, Empties
  <2> QED BY <1>1, <1>4, <2>1
<1> QED BY <1>2, <1>3, <1>4 DEF Turn, Shares, Grants, Makes, Permits, Empties, Idles

(* The appliance after a step. *)
LEMMA TurnAppliance ==
  ASSUME N!NodeTypeOK, TypeOK, NEW w \in Worker, NEW t \in Target, Turn(w, t)
  PROVE  /\ nef' \in NS!Appliance
         /\ nef'.vols = nef.vols /\ nef'.snaps = nef.snaps
         /\ \/ nef' = nef
            \/ /\ nef.share[VolumeAt[t]] = NoShare
               /\ nef' = NS!CreateNfsShare(nef, VolumeAt[t], Everyone)
         /\ smb \subseteq smb' /\ smb' \subseteq nef'.vols
         /\ acl' \in [Volume -> {Unset, "ro", "rw"}]
         /\ mode' \in [Volume -> Mode \cup {Unset}]
         /\ mode' = mode \/ mode' = [mode EXCEPT ![VolumeAt[t]] = N!GetMountPointPermissions(t)]
<1>1. /\ VolumeAt[t] \in Volume /\ Everyone \in AccessList
      /\ nef \in NS!Appliance /\ smb \subseteq nef.vols
      /\ acl \in [Volume -> {Unset, "ro", "rw"}] /\ mode \in [Volume -> Mode \cup {Unset}]
  BY DriverConstantsOK DEF TypeOK, N!NodeTypeOK
<1>2. CASE Shares(t)
  <2>1. nef' = nef \/ nef' = NS!CreateNfsShare(nef, VolumeAt[t], Everyone)
    BY <1>2 DEF Shares, NS!CreateNfsShare
  <2>2. nef' # nef => nef.share[VolumeAt[t]] = NoShare
    BY <1>2 DEF Shares, N!Shared
  <2>3. nef' \in NS!Appliance /\ nef'.vols = nef.vols /\ nef'.snaps = nef.snaps
    <3> DEFINE n == NS!CreateNfsShare(nef, VolumeAt[t], Everyone)
    <3>1. n \in NS!Appliance
      BY <1>1, ShareType
    <3>2. n.vols = nef.vols /\ n.snaps = nef.snaps
      BY <1>1, ShareFields
    <3> HIDE DEF n
    <3> QED BY <1>1, <2>1, <3>1, <3>2 DEF n
  <2> QED BY <1>1, <1>2, <2>1, <2>2, <2>3 DEF Shares
<1>3. CASE nef' = nef /\ smb' = smb
  BY <1>1, <1>3 DEF Turn, Shares, Grants, Makes, Mounts, Permits, Unmounts, Empties, Idles
<1> QED BY <1>2, <1>3 DEF Turn, Grants, Makes, Mounts, Permits, Unmounts, Empties, Idles

(* The types, whichever step. *)
LEMMA TurnType ==
  ASSUME N!NodeTypeOK, TypeOK, NEW w \in Worker, NEW t \in Target, Turn(w, t),
         status' = status, late' = late
  PROVE  N!NodeTypeOK'
<1>1. /\ smb' \subseteq nef'.vols
      /\ acl' \in [Volume -> {Unset, "ro", "rw"}] /\ mode' \in [Volume -> Mode \cup {Unset}]
  BY TurnAppliance
<1>2. /\ dirs' \subseteq Target /\ mounts' \in [Target -> Seq(N!MountPoints)]
      /\ \A u \in Target : mounts'[u] # <<>> => u \in dirs'
  BY TurnMounts
<1>3. work' \in [Worker -> N!Calls \cup {N!Idle}]
  BY DEF Turn, Leaves
<1> QED BY <1>1, <1>2, <1>3 DEF N!NodeTypeOK

(* A worker for a target path that is to be unpublished publishes it only  *)
(* when nobody waits for it any more.                                      *)
LEMMA NoPublisher ==
  ASSUME WorkersOK, NEW w \in Worker, work[w].pc \in N!Publishing,
         work[w].target \notin late
  PROVE  status[work[w].target] = "publishing"
  BY DEF WorkersOK

(* A step of a worker. *)
LEMMA TurnInv ==
  ASSUME NodeInv, TypeOK, NEW w \in Worker, NEW t \in Target, work[w].target = t,
         Turn(w, t), status' = status, late' = late
  PROVE  NodeInv'
<1>1. /\ work'[w].target = t /\ work'[w].live = work[w].live
      /\ \A u \in Worker \ {w} : work'[u] = work[u]
  BY DEF Turn, Leaves
<1>2. /\ N!Publishing \cap N!Unpublishing = {}
      /\ "reply" \notin N!Publishing \cup N!Unpublishing
      /\ "RemoveUnmounted" \in N!Unpublishing
  BY DEF N!Publishing, N!Unpublishing
<1>3. /\ work'[w].pc \in N!Publishing => work[w].pc \in N!Publishing
      /\ work'[w].pc \in N!Unpublishing => work[w].pc \in N!Unpublishing
  BY <1>2 DEF Turn
<1>4. WorkersOK'
  BY <1>1, <1>3 DEF NodeInv, WorkersOK
<1>5. ASSUME NEW u \in Target \ late, Released(u)'
      PROVE  mounts'[u] = <<>>
  <2>1. CASE u # t
    <3>1. Released(u)
      BY <1>1, <1>5, <2>1 DEF Released
    <3>2. mounts'[u] = mounts[u]
      BY <2>1, TurnMounts DEF NodeInv
    <3> QED BY <1>5, <3>1, <3>2 DEF NodeInv, ReleasedOK
  <2>2. CASE u = t /\ Released(t)
    <3>1. mounts[t] = <<>>
      BY <1>5, <2>2 DEF NodeInv, ReleasedOK
    <3>2. status[t] # "publishing"
      BY <1>2, <2>2 DEF Released, NodeInv, WorkersOK
    <3>3. work[w].pc \notin N!Publishing
      BY <1>5, <2>2, <3>2, NoPublisher DEF NodeInv
    <3>4. ~Unmounts(t)
      BY <3>1 DEF Unmounts
    <3> QED BY <2>2, <3>1, <3>3, <3>4 DEF Turn, Empties, Idles
  <2>3. CASE u = t /\ ~Released(t)
    <3>1. \/ work'[w].pc = "RemoveUnmounted"
          \/ work'[w].pc = "reply" /\ work'[w].ok /\ work'[w].live /\ status[t] = "unpublishing"
      BY <1>1, <1>5, <2>3 DEF Released
    <3>2. ASSUME work'[w].pc = "reply", work'[w].ok, work'[w].live, status[t] = "unpublishing"
          PROVE  mounts'[t] = <<>>
      <4>1. work[w].pc # "Chmod"
        BY <1>1, <3>2 DEF NodeInv, WorkersOK, N!Publishing
      <4>2. work[w].pc # "RemoveUnmounted"
        BY <2>3 DEF Released
      <4> QED BY <3>2, <4>1, <4>2 DEF Turn, Honest
    <3> QED BY <2>3, <3>1, <3>2 DEF Turn
  <2> QED BY <2>1, <2>2, <2>3
<1> QED BY <1>4, <1>5, TurnType DEF NodeInv, ReleasedOK

(* What the other steps of a node service change: a worker begins a call,  *)
(* ends it or is no longer waited for, and the kubelet knows of it.        *)
Begins(t) == status[t] # "new" \/ (Known(VolumeAt[t]) /\ ~Retired(VolumeAt[t]))

(* A step of the kubelet, a reply, a deadline or a restart: workers and    *)
(* statuses only.                                                          *)
Passes ==
  /\ UNCHANGED <<nef, smb, mode, mounts>>
  /\ \A w \in Worker :
       \/ /\ work'[w].target = work[w].target /\ work'[w].pc = work[w].pc
          /\ work'[w].live => work[w].live
       \/ work'[w].pc = "idle" /\ ~work'[w].live
       \/ work'[w].pc # "Chmod" /\ work'[w].target \in Target /\ Begins(work'[w].target)
  /\ \A t \in Target : status'[t] # "new" => Begins(t)
  /\ \A t \in Target :
       status'[t] \notin {"new", "unpublished"} =>
         status[t] \notin {"new", "unpublished"} \/ ~Retired(VolumeAt[t])
  /\ \A t \in Target : Provided(t)' => Provided(t)

(* What the kubelet learns when the call that it waits for ends. *)
LEMMA OutcomeFacts ==
  ASSUME NEW t \in Target, status[t] \in {"publishing", "unpublishing"}, NEW ok \in BOOLEAN
  PROVE  /\ N!Outcome(t, ok) \in {"published", "publishFailed", "unpublished",
                                  "unpublishFailed"}
         /\ N!Outcome(t, ok) \in {"published", "publishFailed"} <=> status[t] = "publishing"
         /\ N!Outcome(t, ok) \in {"published", "unpublished"} <=> ok
  BY DEF N!Outcome

(* The kubelet makes a call. *)
LEMMA CallInv ==
  ASSUME NodeInv, NEW t \in Target, NEW w \in Worker,
         \/ N!PublishFirst(t, w) \/ N!PublishAgain(t, w)
         \/ N!UnpublishFirst(t, w) \/ N!UnpublishAgain(t, w)
  PROVE  NodeInv' /\ Passes
<1> DEFINE c(pc) == [target |-> t, pc |-> pc, ok |-> FALSE, live |-> TRUE]
<1>1. PICK pc, s :
        /\ work' = [work EXCEPT ![w] = c(pc)] /\ status' = [status EXCEPT ![t] = s]
        /\ \/ /\ pc = "GetFilesystem" /\ s = "publishing"
              /\ status[t] \in {"new", "publishFailed"} /\ Begins(t)
           \/ /\ pc = "CheckMounted" /\ s = "unpublishing"
              /\ status[t] \in {"publishFailed", "published", "unpublishFailed"}
  BY DEF N!PublishFirst, N!PublishAgain, N!UnpublishFirst, N!UnpublishAgain, N!Call,
    Begins
<1>2. UNCHANGED <<nef, smb, acl, mode, dirs, mounts, late>>
  BY DEF N!PublishFirst, N!PublishAgain, N!UnpublishFirst, N!UnpublishAgain, N!Call
<1>3. c(pc) \in N!Calls
  BY <1>1 DEF N!Calls, N!Publishing, N!Unpublishing
<1>4. /\ work' \in [Worker -> N!Calls \cup {N!Idle}]
      /\ work'[w] = c(pc) /\ \A u \in Worker \ {w} : work'[u] = work[u]
      /\ status'[t] = s /\ \A u \in Target \ {t} : status'[u] = status[u]
      /\ status' \in [Target -> {"new", "publishing", "publishFailed", "published",
                            "unpublishing", "unpublishFailed", "unpublished"}]
  BY <1>1, <1>3 DEF NodeInv, N!NodeTypeOK
<1>5. /\ work'[w].target = t /\ work'[w].pc = pc /\ work'[w].ok = FALSE /\ work'[w].live = TRUE
      /\ \A u \in Worker : work[u].live => work[u].target # t
  BY <1>1, <1>4 DEF NodeInv, WorkersOK
<1>6. N!NodeTypeOK'
  BY <1>2, <1>4 DEF NodeInv, N!NodeTypeOK
<1>7. pc \in N!Publishing <=> pc = "GetFilesystem"
  BY <1>1 DEF N!Publishing
<1>8. \A u \in Worker : work[u].pc \in N!Unpublishing /\ work[u].target = t =>
        status[t] = "unpublishFailed"
  BY <1>1 DEF NodeInv, WorkersOK
<1>9. WorkersOK'
  <2>1. (\A u \in Worker : work[u].live =>
           /\ status[work[u].target] \in {"publishing", "unpublishing"}
           /\ work[u].pc \in N!Publishing => status[work[u].target] = "publishing")'
    <3>1. ASSUME NEW u \in Worker \ {w}, work[u].live
          PROVE  work[u].target \in Target /\ work[u].target # t
      BY <1>5, <3>1 DEF NodeInv, N!NodeTypeOK, N!Calls, N!Idle
    <3> QED BY <1>1, <1>4, <1>5, <1>7, <3>1 DEF NodeInv, WorkersOK
  <2>2. (\A u, x \in Worker :
           work[u].live /\ work[x].live /\ u # x => work[u].target # work[x].target)'
    BY <1>4, <1>5 DEF NodeInv, WorkersOK
  <2>3. (\A u \in Worker : work[u].pc \in N!Publishing => work[u].live \/ work[u].target \in late)'
    BY <1>2, <1>4, <1>5 DEF NodeInv, WorkersOK
  <2>4. (\A u \in Worker : work[u].pc \in N!Unpublishing =>
           status[work[u].target] \in {"unpublishing", "unpublishFailed", "unpublished"})'
    <3>1. ASSUME NEW u \in Worker \ {w}, work[u].pc \in N!Unpublishing
          PROVE  work[u].target \in Target
      BY <3>1, BusyWorker DEF NodeInv, N!Unpublishing
    <3>2. pc \in N!Unpublishing => s = "unpublishing"
      BY <1>1 DEF N!Unpublishing
    <3> QED BY <1>1, <1>4, <1>5, <1>8, <3>1, <3>2 DEF NodeInv, WorkersOK
  <2> QED BY <2>1, <2>2, <2>3, <2>4 DEF WorkersOK
<1>10. ASSUME NEW u \in Target, Released(u)'
       PROVE  Released(u)
  <2>1. pc # "RemoveUnmounted" /\ s # "unpublished"
    BY <1>1
  <2> QED BY <1>4, <1>5, <1>10, <2>1 DEF Released
<1>11. ASSUME NEW u \in Target, Provided(u)'
       PROVE  Provided(u)
  <2>1. pc # "reply" /\ s # "published"
    BY <1>1
  <2> QED BY <1>4, <1>5, <1>11, <2>1 DEF Provided
<1>12. Passes
  <2>1. Begins(t) /\ pc # "Chmod" /\ (status[t] \in {"new", "unpublished"} => ~Retired(VolumeAt[t]))
    BY <1>1 DEF Begins
  <2> QED BY <1>2, <1>4, <1>5, <1>11, <2>1 DEF Passes, Begins
<1> QED BY <1>2, <1>6, <1>9, <1>10, <1>12 DEF NodeInv, ReleasedOK

(* A worker answers. *)
LEMMA ReplyInv ==
  ASSUME NodeInv, NEW w \in Worker, N!Reply(w)
  PROVE  NodeInv' /\ Passes
<1>1. work[w] \in N!Calls /\ work[w].target \in Target
  BY BusyWorker DEF NodeInv, N!Reply, N!At
<1> DEFINE t == work[w].target
<1>2. /\ work' \in [Worker -> N!Calls \cup {N!Idle}]
      /\ work'[w] = N!Idle /\ \A u \in Worker \ {w} : work'[u] = work[u]
  BY DEF N!Reply, NodeInv, N!NodeTypeOK
<1>3. /\ N!Idle.live = FALSE /\ N!Idle.pc = "idle"
      /\ "idle" \notin N!Publishing \cup N!Unpublishing
  BY DEF N!Idle, N!Publishing, N!Unpublishing
<1>4. CASE ~work[w].live
  <2>1. status' = status
    BY <1>4 DEF N!Reply
  <2>2. N!NodeTypeOK'
    BY <1>2, <2>1 DEF N!Reply, NodeInv, N!NodeTypeOK
  <2>3. WorkersOK'
    BY <1>2, <1>3, <2>1 DEF N!Reply, NodeInv, WorkersOK
  <2>4. \A u \in Target : Released(u)' => Released(u)
    BY <1>2, <1>3, <2>1 DEF Released
  <2>5. \A u \in Target : Provided(u)' => Provided(u)
    BY <1>2, <1>3, <2>1 DEF Provided
  <2>6. Passes
    BY <1>2, <1>3, <2>1, <2>5 DEF N!Reply, Passes, Begins
  <2> QED BY <2>2, <2>3, <2>4, <2>6 DEF N!Reply, NodeInv, ReleasedOK
<1>5. CASE work[w].live
  <2> DEFINE s == N!Outcome(t, work[w].ok)
  <2>1. status[t] \in {"publishing", "unpublishing"} /\ work[w].ok \in BOOLEAN
    BY <1>1, <1>5 DEF NodeInv, WorkersOK, N!Calls
  <2>2. /\ s \in {"published", "publishFailed", "unpublished", "unpublishFailed"}
        /\ s \in {"published", "publishFailed"} <=> status[t] = "publishing"
        /\ s \in {"published", "unpublished"} <=> work[w].ok
    BY <1>1, <2>1, OutcomeFacts
  <2>3. status' = [status EXCEPT ![t] = s]
    BY <1>5 DEF N!Reply
  <2> HIDE DEF s
  <2>4. /\ status'[t] = s /\ \A u \in Target \ {t} : status'[u] = status[u]
        /\ status' \in [Target -> {"new", "publishing", "publishFailed", "published",
                            "unpublishing", "unpublishFailed", "unpublished"}]
    BY <1>1, <2>2, <2>3 DEF NodeInv, N!NodeTypeOK
  <2>5. N!NodeTypeOK'
    BY <1>2, <2>4 DEF N!Reply, NodeInv, N!NodeTypeOK
  <2>6. /\ \A u \in Worker \ {w} : work[u].live => work[u].target # t
        /\ \A u \in Worker : work[u].live => work[u].target \in Target
        /\ \A u \in Worker : work[u].pc \in N!Unpublishing => work[u].target \in Target
    <3>1. \A u \in Worker : work[u].live => work[u].target \in Target
      BY DEF NodeInv, N!NodeTypeOK, N!Calls, N!Idle
    <3> QED BY <1>5, <3>1, BusyWorker DEF NodeInv, WorkersOK, N!Unpublishing
  <2>7. WorkersOK'
    <3>1. (\A u \in Worker : work[u].pc \in N!Unpublishing =>
             status[work[u].target] \in {"unpublishing", "unpublishFailed", "unpublished"})'
      BY <1>2, <1>3, <2>2, <2>4, <2>6 DEF NodeInv, WorkersOK
    <3>2. (\A u \in Worker : work[u].live =>
             /\ status[work[u].target] \in {"publishing", "unpublishing"}
             /\ work[u].pc \in N!Publishing => status[work[u].target] = "publishing")'
      BY <1>2, <1>3, <2>4, <2>6 DEF NodeInv, WorkersOK
    <3> QED BY <1>2, <1>3, <3>1, <3>2 DEF N!Reply, NodeInv, WorkersOK
  <2>8. ASSUME NEW u \in Target, Released(u)'
        PROVE  Released(u)
    <3>1. CASE u = t /\ s = "unpublished"
      <4>1. work[w].ok /\ status[t] = "unpublishing"
        BY <2>1, <2>2, <3>1
      <4> QED BY <1>5, <3>1, <4>1 DEF Released, N!Reply, N!At
    <3>2. CASE ~(u = t /\ s = "unpublished")
      BY <1>2, <1>3, <2>2, <2>4, <2>6, <2>8, <3>2 DEF Released
    <3> QED BY <3>1, <3>2
  <2>9. ASSUME NEW u \in Target, Provided(u)'
        PROVE  Provided(u)
    <3>1. CASE u = t /\ s = "published"
      <4>1. work[w].ok /\ status[t] = "publishing"
        BY <2>1, <2>2, <3>1
      <4> QED BY <1>5, <3>1, <4>1 DEF Provided, N!Reply, N!At
    <3>2. CASE ~(u = t /\ s = "published")
      BY <1>2, <1>3, <2>2, <2>4, <2>6, <2>9, <3>2 DEF Provided
    <3> QED BY <3>1, <3>2
  <2>10. Passes
    BY <1>2, <1>3, <2>1, <2>4, <2>9 DEF N!Reply, Passes, Begins
  <2> QED BY <2>5, <2>7, <2>8, <2>10 DEF N!Reply, NodeInv, ReleasedOK
<1> QED BY <1>4, <1>5

(* The kubelet gives up on a call. *)
LEMMA TimeoutInv ==
  ASSUME NodeInv, NEW w \in Worker, N!Timeout(w)
  PROVE  NodeInv' /\ Passes
<1> DEFINE t == work[w].target
<1> DEFINE s == N!Outcome(t, FALSE)
<1>1. work[w] \in N!Calls /\ t \in Target /\ status[t] \in {"publishing", "unpublishing"}
  BY DEF N!Timeout, NodeInv, N!NodeTypeOK, N!Calls, N!Idle, WorkersOK
<1>2. /\ s \in {"publishFailed", "unpublishFailed"}
      /\ s = "publishFailed" <=> status[t] = "publishing"
  BY <1>1, OutcomeFacts
<1>3. status' = [status EXCEPT ![t] = s]
  BY DEF N!Timeout
<1> HIDE DEF s
<1>4. /\ status'[t] = s /\ \A u \in Target \ {t} : status'[u] = status[u]
      /\ status' \in [Target -> {"new", "publishing", "publishFailed", "published",
                          "unpublishing", "unpublishFailed", "unpublished"}]
  BY <1>1, <1>2, <1>3 DEF NodeInv, N!NodeTypeOK
<1> DEFINE c == [work[w] EXCEPT !.live = FALSE]
<1>5. /\ c \in N!Calls /\ c.live = FALSE
      /\ c.target = t /\ c.pc = work[w].pc /\ c.ok = work[w].ok
  BY <1>1 DEF N!Calls
<1>6. work' = [work EXCEPT ![w] = c]
  BY DEF N!Timeout
<1> HIDE DEF c
<1>7. /\ work' \in [Worker -> N!Calls \cup {N!Idle}]
      /\ work'[w] = c /\ \A u \in Worker \ {w} : work'[u] = work[u]
  BY <1>5, <1>6 DEF NodeInv, N!NodeTypeOK
<1>8. /\ \A u \in Worker \ {w} : work[u].live => work[u].target # t
      /\ \A u \in Worker : work[u].live => work[u].target \in Target
      /\ \A u \in Worker : work[u].pc \in N!Unpublishing => work[u].target \in Target
  <2>1. \A u \in Worker : work[u].live => work[u].target \in Target
    BY DEF NodeInv, N!NodeTypeOK, N!Calls, N!Idle
  <2> QED BY <2>1, BusyWorker DEF N!Timeout, NodeInv, WorkersOK, N!Unpublishing
<1>9. late \subseteq late' /\ late' \subseteq Target /\ (status[t] = "publishing" => t \in late')
  BY <1>1 DEF N!Timeout, NodeInv, N!NodeTypeOK
<1>10. N!NodeTypeOK'
  BY <1>4, <1>7, <1>9 DEF N!Timeout, NodeInv, N!NodeTypeOK
<1>11. WorkersOK'
  <2>1. (\A u \in Worker : work[u].pc \in N!Unpublishing =>
           status[work[u].target] \in {"unpublishing", "unpublishFailed", "unpublished"})'
    BY <1>1, <1>2, <1>4, <1>5, <1>7, <1>8 DEF NodeInv, WorkersOK
  <2>2. (\A u \in Worker : work[u].live =>
           /\ status[work[u].target] \in {"publishing", "unpublishing"}
           /\ work[u].pc \in N!Publishing => status[work[u].target] = "publishing")'
    BY <1>4, <1>5, <1>7, <1>8 DEF NodeInv, WorkersOK
  <2>3. (\A u \in Worker : work[u].pc \in N!Publishing => work[u].live \/ work[u].target \in late)'
    BY <1>5, <1>7, <1>9 DEF NodeInv, WorkersOK, N!Timeout
  <2>4. (\A u, x \in Worker :
           work[u].live /\ work[x].live /\ u # x => work[u].target # work[x].target)'
    BY <1>5, <1>7 DEF NodeInv, WorkersOK
  <2> QED BY <2>1, <2>2, <2>3, <2>4 DEF WorkersOK
<1>12. ASSUME NEW u \in Target, Released(u)'
       PROVE  Released(u)
  BY <1>2, <1>4, <1>5, <1>7, <1>8, <1>12 DEF Released
<1>13. ASSUME NEW u \in Target, Provided(u)'
       PROVE  Provided(u)
  BY <1>2, <1>4, <1>5, <1>7, <1>8, <1>13 DEF Provided
<1>14. Passes
  BY <1>1, <1>4, <1>5, <1>7, <1>13 DEF N!Timeout, Passes, Begins
<1> QED BY <1>9, <1>10, <1>11, <1>12, <1>14 DEF N!Timeout, NodeInv, ReleasedOK

(* The service restarts on a node. *)
LEMMA CrashInv ==
  ASSUME NodeInv, NEW n, N!Crash(n)
  PROVE  NodeInv' /\ Passes
<1> DEFINE W == {w \in Worker : work[w] # N!Idle /\ NodeOf[work[w].target] = n}
<1> DEFINE L == {work[w].target : w \in {u \in W : work[u].live}}
<1>1. /\ work' = [w \in Worker |-> IF w \in W THEN N!Idle ELSE work[w]]
      /\ status' = [t \in Target |-> IF t \in L THEN N!Outcome(t, FALSE) ELSE status[t]]
      /\ UNCHANGED <<nef, smb, acl, mode, dirs, mounts, late>>
  BY DEF N!Crash
<1>2. \A w \in Worker : work[w].live => work[w].target \in Target
  BY DEF NodeInv, N!NodeTypeOK, N!Calls, N!Idle
<1>3. /\ \A t \in L : t \in Target /\ status[t] \in {"publishing", "unpublishing"}
      /\ \A w \in Worker \ W : work[w].live => work[w].target \notin L
  BY <1>2 DEF NodeInv, WorkersOK
<1>4. \A w \in Worker : work[w].pc \in N!Unpublishing => work[w].target \in Target
  BY BusyWorker DEF NodeInv, N!Unpublishing
<1> HIDE DEF W, L
<1>5. \A t \in L :
        /\ status'[t] \in {"publishFailed", "unpublishFailed"}
        /\ status'[t] = "publishFailed" <=> status[t] = "publishing"
  BY <1>1, <1>3, OutcomeFacts
<1>6. \A t \in Target \ L : status'[t] = status[t]
  BY <1>1
<1>7. status' \in [Target -> {"new", "publishing", "publishFailed", "published",
                              "unpublishing", "unpublishFailed", "unpublished"}]
  BY <1>1, <1>5 DEF NodeInv, N!NodeTypeOK
<1>8. /\ work' \in [Worker -> N!Calls \cup {N!Idle}]
      /\ \A w \in Worker : w \in W => work'[w] = N!Idle
      /\ \A w \in Worker : w \notin W => work'[w] = work[w]
  BY <1>1 DEF NodeInv, N!NodeTypeOK
<1>9. N!NodeTypeOK'
  BY <1>1, <1>7, <1>8 DEF NodeInv, N!NodeTypeOK
<1>10. /\ N!Idle.live = FALSE /\ N!Idle.pc = "idle"
       /\ "idle" \notin N!Publishing \cup N!Unpublishing
  BY DEF N!Idle, N!Publishing, N!Unpublishing
<1>11. WorkersOK'
  <2>1. (\A w \in Worker : work[w].pc \in N!Unpublishing =>
           status[work[w].target] \in {"unpublishing", "unpublishFailed", "unpublished"})'
    <3>1. ASSUME NEW w \in Worker \ W, work[w].pc \in N!Unpublishing
          PROVE  status'[work[w].target] \in {"unpublishing", "unpublishFailed", "unpublished"}
      <4>1. /\ work[w].target \in Target
            /\ status[work[w].target] \in {"unpublishing", "unpublishFailed", "unpublished"}
        BY <1>4, <3>1 DEF NodeInv, WorkersOK
      <4> QED BY <1>5, <1>6, <4>1
    <3> QED BY <1>8, <1>10, <3>1
  <2>2. (\A w \in Worker : work[w].live =>
           /\ status[work[w].target] \in {"publishing", "unpublishing"}
           /\ work[w].pc \in N!Publishing => status[work[w].target] = "publishing")'
    BY <1>2, <1>3, <1>6, <1>8, <1>10 DEF NodeInv, WorkersOK
  <2>3. (\A w \in Worker : work[w].pc \in N!Publishing => work[w].live \/ work[w].target \in late)'
    BY <1>1, <1>8, <1>10 DEF NodeInv, WorkersOK
  <2>4. (\A u, w \in Worker :
           work[u].live /\ work[w].live /\ u # w => work[u].target # work[w].target)'
    BY <1>8, <1>10 DEF NodeInv, WorkersOK
  <2> QED BY <2>1, <2>2, <2>3, <2>4 DEF WorkersOK
<1>12. ASSUME NEW u \in Target, Released(u)'
       PROVE  Released(u)
  BY <1>5, <1>6, <1>8, <1>10, <1>12 DEF Released
<1>13. ASSUME NEW u \in Target, Provided(u)'
       PROVE  Provided(u)
  BY <1>5, <1>6, <1>8, <1>10, <1>13 DEF Provided
<1>14. Passes
  BY <1>1, <1>3, <1>6, <1>8, <1>10, <1>13 DEF Passes, Begins
<1> QED BY <1>1, <1>9, <1>11, <1>12, <1>14 DEF NodeInv, ReleasedOK

(* The controller service and the pods. *)
LEMMA ControllerInv ==
  ASSUME NodeInv, ControllerStep
  PROVE  NodeInv'
<1>1. N!NodeTypeOK'
  BY DEF ControllerStep, NodeInv, N!NodeTypeOK
<1>2. WorkersOK' /\ ReleasedOK'
  BY DEF ControllerStep, NodeInv, WorkersOK, ReleasedOK, Released
<1> QED BY <1>1, <1>2 DEF NodeInv

(* Nothing happens. *)
LEMMA NodeStutter == NodeInv /\ UNCHANGED driverVars => NodeInv'
  BY DEF driverVars, vars, nodeVars, NodeInv, N!NodeTypeOK, WorkersOK, ReleasedOK, Released

-----------------------------------------------------------------------------
(***************************************************************************)
(* The controller keeps its own invariant when the nodes share volumes.    *)
(***************************************************************************)

(* The node services change of the appliance the shares that are missing,  *)
(* and nothing of what the CO knows.                                       *)
LEMMA NodeFrame ==
  ASSUME NodeInv, TypeOK, NodeStep
  PROVE  /\ nef' \in NS!Appliance /\ faults' \in 0 .. MaxFaults
         /\ nef'.vols = nef.vols /\ nef'.snaps = nef.snaps
         /\ \A v \in Volume : nef.share[v] # NoShare => nef'.share[v] = nef.share[v]
         /\ UNCHANGED <<call, answer, asked>>
<1>1. ASSUME NEW w \in Worker, N!Step(w)
      PROVE  /\ nef' \in NS!Appliance /\ faults' \in 0 .. MaxFaults
             /\ nef'.vols = nef.vols /\ nef'.snaps = nef.snaps
             /\ \A v \in Volume : nef.share[v] # NoShare => nef'.share[v] = nef.share[v]
  <2>1. PICK t \in Target : Turn(w, t)
    BY <1>1, StepTurn DEF NodeInv
  <2>2. /\ nef' \in NS!Appliance /\ nef'.vols = nef.vols /\ nef'.snaps = nef.snaps
        /\ \/ nef' = nef
           \/ /\ nef.share[VolumeAt[t]] = NoShare
              /\ nef' = NS!CreateNfsShare(nef, VolumeAt[t], Everyone)
    BY <2>1, TurnAppliance DEF NodeInv
  <2>3. ASSUME nef' = NS!CreateNfsShare(nef, VolumeAt[t], Everyone)
        PROVE  \A v \in Volume \ {VolumeAt[t]} : nef'.share[v] = nef.share[v]
    <3>1. nef \in NS!Appliance /\ VolumeAt[t] \in Volume /\ Everyone \in AccessList
      BY DriverConstantsOK DEF TypeOK
    <3>2. nef'.share = [nef.share EXCEPT ![VolumeAt[t]] = Everyone]
      BY <2>3, <3>1, ShareFields
    <3>3. nef.share \in [Volume -> AccessList \cup {NoShare}]
      BY <3>1 DEF NS!Appliance
    <3> QED BY <3>2, <3>3
  <2>4. faults' \in 0 .. MaxFaults
    BY <2>1 DEF Turn, Leaves
  <2>5. CASE nef' = nef
    BY <2>2, <2>4, <2>5
  <2>6. CASE /\ nef.share[VolumeAt[t]] = NoShare
             /\ nef' = NS!CreateNfsShare(nef, VolumeAt[t], Everyone)
    <3>1. \A v \in Volume : nef.share[v] # NoShare => v # VolumeAt[t]
      BY <2>6
    <3>2. \A v \in Volume : nef.share[v] # NoShare => nef'.share[v] = nef.share[v]
      BY <2>3, <2>6, <3>1
    <3> QED BY <2>2, <2>4, <3>2
  <2> QED BY <2>2, <2>5, <2>6
<1>2. ASSUME nef' = nef, faults' = faults \/ (faults < MaxFaults /\ faults' = faults + 1)
      PROVE  nef' \in NS!Appliance /\ faults' \in 0 .. MaxFaults
  BY <1>2, ConstantsOK DEF TypeOK
<1>3. ASSUME ~\E w \in Worker : N!Step(w)
      PROVE  nef' = nef /\ (faults' = faults \/ (faults < MaxFaults /\ faults' = faults + 1))
  BY <1>3 DEF NodeStep, N!NodeNext, N!PublishFirst, N!PublishAgain, N!UnpublishFirst,
    N!UnpublishAgain, N!Call, N!Reply, N!Timeout, N!Crash, N!Fault
<1> QED BY <1>1, <1>2, <1>3 DEF NodeStep

(* What the controller service relies on. *)
LEMMA NodeKeepsIInv ==
  ASSUME NodeInv, IInv, NodeStep
  PROVE  IInv'
<1>1. /\ nef' \in NS!Appliance /\ faults' \in 0 .. MaxFaults
      /\ nef'.vols = nef.vols /\ nef'.snaps = nef.snaps
      /\ UNCHANGED <<call, answer, asked>>
  BY NodeFrame DEF IInv
<1>2. /\ \A r \in Requests : Sent(r)' = Sent(r) /\ Granted(r)' = Granted(r)
      /\ \A v \in Volume : Retired(v)' = Retired(v)
      /\ \A s \in NS!Snapshot : Dropped(s)' = Dropped(s)
  BY <1>1 DEF Sent, Granted, Retired, Dropped, Discarded
<1>3. \A r \in Requests : Secured(r)' = Secured(r)
  BY <1>1, <1>2, RequestFields DEF Secured
<1>4. \A h \in Handler : call[h] # Idle => call[h] \in Call /\ call[h].req \in Requests
  BY DEF IInv, TypeOK, Call
<1>5. \A h \in Handler : call[h] # Idle => CallOK(call[h])'
  BY <1>1, <1>2, <1>3, <1>4 DEF CallOK, IInv
<1>6. TypeOK'
  BY <1>1 DEF TypeOK, IInv
<1> QED BY <1>1, <1>2, <1>3, <1>5, <1>6 DEF IInv

(* The whole system keeps both invariants. *)
LEMMA DriverInvStep ==
  ASSUME IInv, NodeInv, [DriverNext]_driverVars
  PROVE  IInv' /\ NodeInv'
<1>1. CASE ControllerStep
  <2>1. IInv'
    BY <1>1, SendOK, PodWritesOK, CallNefOK, ReplyOK, TimeoutOK, CrashOK
    DEF ControllerStep, Next
  <2> QED BY <1>1, <2>1, ControllerInv
<1>2. CASE NodeStep
  <2>1. IInv'
    BY <1>2, NodeKeepsIInv
  <2>2. ASSUME NEW w \in Worker, N!Step(w)
        PROVE  NodeInv'
    BY <2>2, StepTurn, TurnInv DEF NodeInv, IInv
  <2> QED
    BY <1>2, <2>1, <2>2, CallInv, ReplyInv, TimeoutInv, CrashInv DEF NodeStep, N!NodeNext
<1>3. CASE UNCHANGED driverVars
  BY <1>3, NodeStutter, Stutter DEF driverVars
<1> QED BY <1>1, <1>2, <1>3 DEF DriverNext

(* Before the first request. *)
LEMMA DriverInitOK == DriverInit => IInv /\ NodeInv
<1> SUFFICES ASSUME DriverInit PROVE IInv /\ NodeInv
  OBVIOUS
<1>1. IInv
  BY InitOK DEF DriverInit
<1>2. /\ N!NodeInit
      /\ \A w \in Worker : work[w] = N!Idle
      /\ \A t \in Target : mounts[t] = <<>>
  BY DEF DriverInit, N!NodeInit
<1>3. N!Idle.pc = "idle" /\ N!Idle.live = FALSE
  BY DEF N!Idle
<1>4. N!NodeTypeOK
  <2>1. <<>> \in Seq(N!MountPoints)
    OBVIOUS
  <2> QED BY <1>2, <2>1 DEF N!NodeInit, N!NodeTypeOK
<1>5. WorkersOK
  BY <1>2, <1>3 DEF WorkersOK, N!Publishing, N!Unpublishing
<1> QED BY <1>1, <1>2, <1>4, <1>5 DEF NodeInv, ReleasedOK

(* Both invariants hold in every reachable state. *)
LEMMA DriverInvariance == DriverSpec => [](IInv /\ NodeInv)
<1>1. IInv /\ NodeInv /\ [DriverNext]_driverVars => (IInv /\ NodeInv)'
  BY DriverInvStep
<1> QED BY <1>1, DriverInitOK, PTL DEF DriverSpec

(* Every variable of the node services keeps its type, and only a target   *)
(* path that exists is mounted on, on any number of nodes.                 *)
THEOREM DriverTypeCorrect == DriverSpec => []NodeTypeOK
<1>1. NodeInv => NodeTypeOK
  BY DEF NodeInv, NodeTypeOK
<1> QED BY <1>1, DriverInvariance, PTL

(* A target path that NodeUnpublishVolume reported gone is mounted no more *)
(* unless a publication of it had timed out, whatever else fails, crashes  *)
(* or is repeated, and on any number of nodes.                             *)
THEOREM UnpublishedHolds == DriverSpec => []UnpublishedIsGone
<1>1. NodeInv => UnpublishedIsGone
  BY DEF NodeInv, ReleasedOK, Released, UnpublishedIsGone, N!UnpublishedIsGone
<1> QED BY <1>1, DriverInvariance, PTL

-----------------------------------------------------------------------------
(***************************************************************************)
(* What was created, shared and not deleted stays so while pods use it.    *)
(***************************************************************************)

(* What the controller service and the CO may rely on in the whole driver, *)
(* as long as no deadline of the controller's calls expires.               *)
Relied == IInv /\ NodeInv /\ Attended /\ Shared /\ MadeByHand

(* Volumes that were made by hand. *)
LEMMA MadeByHandStep ==
  ASSUME IInv, MadeByHand, Next
  PROVE  MadeByHand'
<1>1. \A v \in Volume : Retired(v) => Retired(v)'
  BY DroppedStays DEF IInv
<1>2. CASE \A h \in Handler : ~CallNef(h)
  <2>1. nef'.vols = nef.vols
    BY <1>2, QuietAppliance
  <2> QED BY <1>1, <2>1, ConstantsOK DEF MadeByHand
<1>3. ASSUME NEW h \in Handler, CallNef(h)
      PROVE  MadeByHand'
  <2>1. PICK q \in Requests : q = call[h].req /\ HandlerStep(h, q)
    BY <1>3, CallNefStep DEF Call
  <2>2. \A v \in nef.vols : v \in nef'.vols \/ Retired(v)
    BY <1>3, <2>1, CallFrame DEF HandlerStep, Keeps, Retired
  <2> QED BY <1>1, <2>2, ConstantsOK DEF MadeByHand
<1> QED BY <1>2, <1>3

(* The nodes leave the shares of the controller service alone. *)
LEMMA NodeKeepsRelied ==
  ASSUME Relied, NodeStep
  PROVE  /\ Attended' /\ Shared' /\ MadeByHand'
         /\ \A v \in Volume : Known(v)' = Known(v) /\ Retired(v)' = Retired(v)
<1>1. /\ nef'.vols = nef.vols
      /\ \A v \in Volume : nef.share[v] # NoShare => nef'.share[v] = nef.share[v]
      /\ UNCHANGED <<call, answer, asked>>
  BY NodeFrame DEF Relied, IInv
<1>2. \A v \in Volume : Known(v)' = Known(v) /\ Retired(v)' = Retired(v)
  BY <1>1 DEF Known, Retired, Granted, Sent
<1>3. Attended'
  BY <1>1 DEF Relied, Attended, Active, Unopposed, Retired, Discarded, Sent
<1>4. \A r \in Requests : Assured(r)' = Assured(r)
  BY <1>1 DEF Assured, Granted, Succeeds
<1>5. Shared'
  BY <1>1, <1>2, <1>4, RequestFields DEF Relied, Shared
<1>6. MadeByHand'
  BY <1>1, <1>2, ConstantsOK DEF Relied, MadeByHand
<1> QED BY <1>2, <1>3, <1>5, <1>6

(* Every step of the driver. *)
LEMMA ReliedStep ==
  ASSUME ~CallsTimeOut, OneCreation, Relied, [DriverNext]_driverVars
  PROVE  Relied'
<1>1. IInv' /\ NodeInv'
  BY DriverInvStep DEF Relied
<1>2. CASE ControllerStep
  BY <1>1, <1>2, AttendedStep, SharedStep, MadeByHandStep DEF ControllerStep, Relied
<1>3. CASE NodeStep
  BY <1>1, <1>3, NodeKeepsRelied DEF Relied
<1>4. CASE UNCHANGED driverVars
  <2>1. UNCHANGED vars
    BY <1>4 DEF driverVars
  <2>2. Attended' /\ Shared'
    BY <2>1, AttendedStep, SharedStep DEF Relied
  <2>3. MadeByHand'
    BY <2>1 DEF vars, Relied, MadeByHand, Retired, Sent
  <2> QED BY <1>1, <2>2, <2>3 DEF Relied
<1> QED BY <1>2, <1>3, <1>4 DEF DriverNext

(* In every reachable state. *)
LEMMA ReliedInvariance ==
  ASSUME ~CallsTimeOut, OneCreation PROVE DriverSpec => []Relied
<1>1. DriverInit => Relied
  <2> SUFFICES ASSUME DriverInit PROVE Relied
    OBVIOUS
  <2>1. Attended /\ Shared
    BY ConstantsOK
    DEF DriverInit, Init, Attended, Active, Shared, Assured, Granted, Idle, Succeeds
  <2>2. MadeByHand
    BY DEF DriverInit, Init, NS!Blank, MadeByHand
  <2> QED BY <2>1, <2>2, DriverInitOK DEF Relied
<1>2. Relied /\ [DriverNext]_driverVars => Relied'
  BY ReliedStep
<1> QED BY <1>1, <1>2, PTL DEF DriverSpec

(* A volume whose creation was answered OK is shared with the access list  *)
(* of its request also when nodes publish it, over whichever protocol.     *)
THEOREM DriverShareHolds ==
  ASSUME ~CallsTimeOut, OneCreation
  PROVE  DriverSpec => []GrantedShare
<1>1. Relied => GrantedShare
  BY DEF Relied, Shared, Assured, GrantedShare
<1> QED BY <1>1, ReliedInvariance, PTL

-----------------------------------------------------------------------------
(***************************************************************************)
(* What the kubelet was told is there is there.                            *)
(***************************************************************************)

(* The CO knows of nothing that is not there. *)
LEMMA Usable ==
  ASSUME Relied, NEW v \in Volume, Known(v), ~Retired(v)
  PROVE  v \in nef.vols
<1>1. ASSUME NEW p \in Requests, p.op \in Creations, p.vol = v, Granted(p)
      PROVE  v \in nef.vols
  BY <1>1 DEF Relied, IInv, Secured
<1> QED BY <1>1 DEF Known, Relied, MadeByHand

(* A volume that the CO knows of keeps its share until it is deleted: its  *)
(* creation, which shares it anew when it is repeated, is done.            *)
LEMMA ShareStays ==
  ASSUME OneCreation, Relied, Next, NEW v \in Volume, Known(v), ~Retired(v),
         nef.share[v] # NoShare
  PROVE  nef'.share[v] = nef.share[v]
<1>1. CASE \A h \in Handler : ~CallNef(h)
  BY <1>1, QuietAppliance DEF Relied
<1>2. ASSUME NEW h \in Handler, CallNef(h)
      PROVE  nef'.share[v] = nef.share[v]
  <2>1. PICK q \in Requests : q = call[h].req /\ Proceeds(h, q)
    BY <1>2, CallProceeds DEF Relied
  <2>2. q.vol \in Volume /\ nef \in NS!Appliance
    BY RequestFields DEF Relied, IInv, TypeOK
  <2>3. CASE SetsShare(q) /\ ~UNCHANGED nef.share
    <3>1. call[h].pc \in Sharing
      BY <2>1, <2>3 DEF Proceeds, SetsShare
    <3>2. ~Assured(q)
      BY <1>2, <2>1, <3>1, CallFrame, SharingNotAssured DEF Relied, Succeeds, Sharing
    <3>3. q.vol # v
      BY <2>3, <3>2, RequestsOK DEF SetsShare, Known, OneCreation, Assured
    <3> QED BY <2>3, <3>3 DEF SetsShare
  <2>4. CASE DestroysVolume(q)
    <3>1. PICK n \in NS!AfterPromotion(nef, q.vol) :
            nef' = n \/ nef' = NS!Remove(n, q.vol)
      BY <2>4 DEF DestroysVolume
    <3>2. n \in NS!Appliance /\ n.share = nef.share
      BY <2>2, PromotionType, PromotionFields
    <3>3. q.vol # v
      BY <1>2, <2>1, <2>4, CallFrame DEF Relied, DestroysVolume, Retired
    <3>4. nef'.share = n.share \/ nef'.share = [n.share EXCEPT ![q.vol] = NoShare]
      <4>1. NS!Remove(n, q.vol).share = [n.share EXCEPT ![q.vol] = NoShare]
        BY <2>2, <3>2, RemovalFields
      <4> QED BY <3>1, <4>1
    <3>5. nef'.share[v] = n.share[v]
      BY <2>2, <3>2, <3>3, <3>4 DEF NS!Appliance
    <3> QED BY <3>2, <3>5
  <2>5. CASE UNCHANGED nef.share
    BY <2>5
  <2> QED
    BY <2>1, <2>3, <2>4, <2>5
    DEF Proceeds, Effect, MakesVolume, TakesSnapshot, SetsShare, SetsQuota,
      DiscardsSnapshot, Settings
<1> QED BY <1>1, <1>2

(* The controller service does not disturb what pods use. *)
LEMMA ControllerKeeps ==
  ASSUME ~CallsTimeOut, OneCreation, Relied, Relied', PublishedInv, ControllerStep
  PROVE  PublishedInv'
<1>1. Next /\ UNCHANGED <<dirs, mounts, work, status, late>>
  BY DEF ControllerStep
<1>2. /\ \A v \in Volume : Known(v) => Known(v)'
      /\ \A v \in Volume : Retired(v) => Retired(v)'
  BY <1>1, KnownStays, DroppedStays DEF Relied, IInv
<1>3. \A v \in Volume : InUse(v)' => InUse(v) /\ ~Retired(v)'
  BY <1>1 DEF ControllerStep, InUse, PublishedInv, UsedOK
<1>4. \A t \in Target : VolumeAt[t] \in Volume
  BY DriverConstantsOK
<1>5. /\ \A w \in Worker : work[w].pc # "idle" => work[w].target \in Target
      /\ \A w \in Worker : work[w].live => work[w].target \in Target
  BY BusyWorker DEF Relied, NodeInv, N!NodeTypeOK, N!Calls, N!Idle
<1>6. UsedOK'
  BY <1>1, <1>2, <1>3, <1>4, <1>5 DEF PublishedInv, UsedOK
<1>7. ASSUME NEW v \in Volume, Known(v), ~Retired(v)'
      PROVE  /\ v \in nef'.vols
             /\ nef.share[v] # NoShare => nef'.share[v] = nef.share[v]
             /\ v \in smb => v \in smb'
             /\ mode'[v] = mode[v]
  <2>1. Known(v)' /\ ~Retired(v)
    BY <1>2, <1>7
  <2>2. (\A u \in Volume : Known(u) /\ ~Retired(u) => u \in nef.vols)'
    BY DEF Relied, IInv, Secured, Known, MadeByHand
  <2> QED BY <1>1, <1>7, <2>1, <2>2, ShareStays DEF ControllerStep
<1>8. MountsOK'
  <2>1. ASSUME NEW t \in Target, mounts[t] # <<>>, ~Retired(VolumeAt[t])'
        PROVE  N!Shared(t)'
    <3>1. Known(VolumeAt[t]) /\ N!Shared(t)
      BY <1>2, <1>4, <2>1 DEF PublishedInv, UsedOK, MountsOK
    <3> QED BY <1>4, <1>7, <2>1, <3>1 DEF N!Shared
  <2> QED BY <1>1, <2>1 DEF PublishedInv, MountsOK
<1>9. ASSUME NEW t \in Target, Provided(t)
      PROVE  mode'[VolumeAt[t]] = mode[VolumeAt[t]] /\ (Writable(t)' => Writable(t))
  <2>1. status[t] \in {"published", "publishing"}
    BY <1>9 DEF Provided
  <2>2. InUse(VolumeAt[t])' /\ Known(VolumeAt[t])
    BY <1>1, <2>1 DEF InUse, PublishedInv, UsedOK
  <2>3. N!Shared(t)
    BY <1>2, <1>3, <1>4, <1>9, <2>2 DEF PublishedInv, MountsOK, ProvidedOK
  <2>4. N!FsType(t) = "nfs" => nef'.share[VolumeAt[t]] = nef.share[VolumeAt[t]]
    BY <1>3, <1>4, <1>7, <2>2, <2>3 DEF N!Shared
  <2> QED BY <1>3, <1>4, <1>7, <2>2, <2>4 DEF Writable, N!ReadOnlyShare
<1>10. ProvidedOK'
  BY <1>1, <1>9 DEF PublishedInv, ProvidedOK, Provided
<1> QED BY <1>6, <1>8, <1>10 DEF PublishedInv

(* The kubelet does not either. *)
LEMMA PassesKeeps ==
  ASSUME Relied, PublishedInv, NodeStep, Passes
  PROVE  PublishedInv'
<1>1. \A v \in Volume : Known(v)' = Known(v) /\ Retired(v)' = Retired(v)
  BY NodeKeepsRelied
<1>2. \A t \in Target : VolumeAt[t] \in Volume
  BY DriverConstantsOK
<1>3. \A t \in Target : Begins(t) => Known(VolumeAt[t])
  BY DEF Begins, PublishedInv, UsedOK
<1>4. ASSUME NEW w \in Worker, (work[w].pc # "idle")'
      PROVE  Known(VolumeAt[work[w].target])'
  <2>1. CASE work'[w].target = work[w].target /\ work'[w].pc = work[w].pc
    <3>1. work[w].target \in Target /\ Known(VolumeAt[work[w].target])
      BY <1>4, <2>1, BusyWorker DEF Relied, NodeInv, PublishedInv, UsedOK
    <3> QED BY <1>1, <1>2, <2>1, <3>1
  <2>2. CASE work'[w].target \in Target /\ Begins(work'[w].target)
    BY <1>1, <1>2, <1>3, <2>2
  <2> QED BY <1>4, <2>1, <2>2 DEF Passes
<1>5. ASSUME NEW v \in Volume, InUse(v)'
      PROVE  ~Retired(v)
  BY <1>5 DEF InUse, Passes, PublishedInv, UsedOK
<1>6. UsedOK'
  <2>1. (\A t \in Target : status[t] # "new" \/ mounts[t] # <<>> => Known(VolumeAt[t]))'
    BY <1>1, <1>2, <1>3 DEF Passes, PublishedInv, UsedOK
  <2> QED BY <1>1, <1>4, <1>5, <2>1 DEF UsedOK
<1>7. MountsOK'
  <2>1. ASSUME NEW w \in Worker, work'[w].live, work'[w].pc = "Chmod"
        PROVE  mounts'[work'[w].target] # <<>>
    BY <2>1 DEF Passes, PublishedInv, MountsOK
  <2>2. (\A t \in Target : mounts[t] # <<>> /\ ~Retired(VolumeAt[t]) => N!Shared(t))'
    BY <1>1, <1>2, NodeFrame DEF Passes, PublishedInv, MountsOK, N!Shared
  <2> QED BY <2>1, <2>2 DEF Passes, PublishedInv, MountsOK
<1>8. ProvidedOK'
  BY DEF Passes, PublishedInv, ProvidedOK, Writable, N!ReadOnlyShare
<1> QED BY <1>6, <1>7, <1>8 DEF PublishedInv

(* Nor does a worker. *)
LEMMA TurnKeeps ==
  ASSUME Relied, PublishedInv, NodeStep, NEW w \in Worker, NEW t \in Target,
         work[w].target = t, Turn(w, t), status' = status
  PROVE  PublishedInv'
<1>1. /\ \A v \in Volume : Known(v)' = Known(v) /\ Retired(v)' = Retired(v)
      /\ \A u \in Target : VolumeAt[u] \in Volume
  BY NodeKeepsRelied, DriverConstantsOK
<1>2. /\ work'[w].target = t /\ work'[w].live = work[w].live
      /\ \A u \in Worker \ {w} : work'[u] = work[u]
      /\ work[w].pc \in N!Publishing \cup N!Unpublishing
  BY DEF Turn, Leaves
<1>3. /\ \A u \in Target \ {t} : mounts'[u] = mounts[u]
      /\ \A u \in Target : \A i \in DOMAIN mounts'[u] :
           \/ i \in DOMAIN mounts[u] /\ mounts'[u][i] = mounts[u][i]
           \/ mounts'[u][i] = N!MountPoint(u)
  BY TurnMounts DEF Relied, NodeInv
<1>4. /\ N!Publishing \cap N!Unpublishing = {}
      /\ "reply" \notin N!Publishing \cup N!Unpublishing
      /\ "idle" \notin N!Publishing \cup N!Unpublishing
      /\ "Chmod" \in N!Publishing /\ "RemoveUnmounted" \in N!Unpublishing
  BY DEF N!Publishing, N!Unpublishing
<1>5. Known(VolumeAt[t])
  BY <1>2, <1>4 DEF PublishedInv, UsedOK
<1>6. \A u \in Worker : work[u].pc # "idle" => work[u].target \in Target
  BY BusyWorker DEF Relied, NodeInv
<1>7. UsedOK'
  <2>1. (\A u \in Target : status[u] # "new" \/ mounts[u] # <<>> => Known(VolumeAt[u]))'
    BY <1>1, <1>3, <1>5 DEF PublishedInv, UsedOK
  <2>2. (\A u \in Worker : work[u].pc # "idle" => Known(VolumeAt[work[u].target]))'
    BY <1>1, <1>2, <1>5, <1>6 DEF PublishedInv, UsedOK
  <2>3. (\A v \in Volume : InUse(v) => ~Retired(v))'
    BY <1>1 DEF InUse, PublishedInv, UsedOK
  <2> QED BY <2>1, <2>2, <2>3 DEF UsedOK
<1>8. ASSUME status[t] \in {"publishing", "published"}, mounts[t] # <<>>
      PROVE  mounts'[t] # <<>>
  <2>1. work[w].pc \notin N!Unpublishing
    BY <1>8 DEF Relied, NodeInv, WorkersOK
  <2>2. mounts' = mounts \/ Mounts(t)
    BY <2>1 DEF Turn, Shares, Grants, Makes, Permits, Idles
  <2>3. ASSUME Mounts(t) PROVE mounts'[t] # <<>>
    <3>1. mounts \in [Target -> Seq(N!MountPoints)] /\ N!MountPoint(t) \in N!MountPoints
      BY DEF Relied, NodeInv, N!NodeTypeOK, N!MountPoints
    <3>2. mounts'[t] = Append(mounts[t], N!MountPoint(t))
      BY <2>3, <3>1 DEF Mounts
    <3> QED BY <3>1, <3>2
  <2> QED BY <1>8, <2>2, <2>3
<1>9. MountsOK'
  <2>1. ASSUME NEW u \in Target, mounts'[u] # <<>>, ~Retired(VolumeAt[u])
        PROVE  N!Shared(u)'
    <3>1. N!Shared(u) => N!Shared(u)'
      <4>1. /\ nef.share[VolumeAt[u]] # NoShare => nef'.share[VolumeAt[u]] # NoShare
            /\ smb \subseteq smb'
        BY <1>1, NodeFrame, TurnAppliance DEF Relied, NodeInv, IInv
      <4> QED BY <4>1 DEF N!Shared
    <3>2. mounts[u] # <<>> \/ (u = t /\ (Mounts(t) \/ Unmounts(t)))
      BY <1>3, <2>1 DEF Turn, Shares, Grants, Makes, Permits, Empties, Idles
    <3> QED BY <1>1, <2>1, <3>1, <3>2 DEF PublishedInv, MountsOK, Mounts, Unmounts
  <2>2. ASSUME NEW u \in Worker, work'[u].live, work'[u].pc = "Chmod"
        PROVE  mounts'[work'[u].target] # <<>>
    <3>1. CASE u = w
      BY <1>2, <2>2, <3>1 DEF Turn
    <3>2. CASE u # w
      <4>1. /\ work[u].live /\ work[u].pc = "Chmod" /\ work'[u].target = work[u].target
            /\ work[u].target \in Target /\ mounts[work[u].target] # <<>>
            /\ status[work[u].target] = "publishing"
        BY <1>2, <1>4, <1>6, <2>2, <3>2
        DEF PublishedInv, MountsOK, Relied, NodeInv, WorkersOK
      <4> QED BY <1>3, <1>8, <4>1
    <3> QED BY <3>1, <3>2
  <2> QED BY <1>1, <1>3, <2>1, <2>2 DEF PublishedInv, MountsOK
<1>10. ASSUME NEW u \in Target, mode[VolumeAt[u]] = N!GetMountPointPermissions(u)
       PROVE  mode'[VolumeAt[u]] = N!GetMountPointPermissions(u)
  <2>1. /\ mode \in [Volume -> Mode \cup {Unset}]
        /\ mode' = mode \/ mode' = [mode EXCEPT ![VolumeAt[t]] = N!GetMountPointPermissions(t)]
    BY TurnAppliance DEF Relied, NodeInv, IInv, N!NodeTypeOK
  <2>2. VolumeAt[t] = VolumeAt[u] => N!GetMountPointPermissions(t) = N!GetMountPointPermissions(u)
    BY DEF N!GetMountPointPermissions
  <2> QED BY <1>1, <1>10, <2>1, <2>2
<1>11. ASSUME NEW u \in Target, Provided(u)'
       PROVE  /\ mounts'[u] # <<>>
              /\ Writable(u)' => mode'[VolumeAt[u]] = N!GetMountPointPermissions(u)
  <2>1. CASE Provided(u)
    <3>1. /\ mounts[u] # <<>> /\ status[u] \in {"publishing", "published"}
          /\ Writable(u) => mode[VolumeAt[u]] = N!GetMountPointPermissions(u)
      BY <2>1 DEF Provided, PublishedInv, ProvidedOK
    <3>2. N!Shared(u)
      BY <1>1, <3>1 DEF InUse, PublishedInv, UsedOK, MountsOK
    <3>3. N!FsType(u) = "nfs" => nef'.share[VolumeAt[u]] = nef.share[VolumeAt[u]]
      BY <1>1, <3>2, NodeFrame DEF Relied, IInv, N!Shared
    <3>4. Writable(u)' => Writable(u)
      BY <3>3 DEF Writable, N!ReadOnlyShare
    <3> QED BY <1>3, <1>8, <1>10, <3>1, <3>4
  <2>2. CASE ~Provided(u)
    <3>1. /\ u = t /\ work'[w].pc = "reply" /\ work'[w].ok /\ work[w].live
          /\ status[t] = "publishing"
      BY <1>2, <1>11, <2>2 DEF Provided
    <3>2. work[w].pc \notin N!Unpublishing
      BY <3>1 DEF Relied, NodeInv, WorkersOK
    <3>3. Honest(w, t) /\ work[w].pc = "Chmod"
      BY <1>4, <3>1, <3>2 DEF Turn, Honest
    <3>4. mounts[t] # <<>>
      BY <3>1, <3>3 DEF PublishedInv, MountsOK
    <3> QED BY <1>4, <3>1, <3>3, <3>4 DEF Honest, Writable, N!ReadOnlyShare
  <2> QED BY <2>1, <2>2
<1>12. ProvidedOK'
  BY <1>11 DEF ProvidedOK
<1> QED BY <1>7, <1>9, <1>12 DEF PublishedInv

(* Every step of the driver. *)
LEMMA PublishedStep ==
  ASSUME ~CallsTimeOut, OneCreation, Relied, PublishedInv, [DriverNext]_driverVars
  PROVE  PublishedInv'
<1>1. CASE ControllerStep
  <2>1. Relied'
    BY ReliedStep
  <2> QED BY <1>1, <2>1, ControllerKeeps
<1>2. CASE NodeStep
  <2>1. ASSUME NEW w \in Worker, N!Step(w)
        PROVE  PublishedInv'
    <3>1. PICK t \in Target : t = work[w].target /\ Turn(w, t)
      BY <2>1, StepTurn DEF Relied, NodeInv, IInv
    <3>2. status' = status
      BY <2>1 DEF N!Step
    <3> QED BY <1>2, <3>1, <3>2, TurnKeeps
  <2>2. ASSUME ~\E w \in Worker : N!Step(w)
        PROVE  Passes
    BY <1>2, <2>2, CallInv, ReplyInv, TimeoutInv, CrashInv DEF NodeStep, N!NodeNext, Relied
  <2> QED BY <1>2, <2>1, <2>2, PassesKeeps
<1>3. CASE UNCHANGED driverVars
  BY <1>3
  DEF driverVars, vars, nodeVars, PublishedInv, UsedOK, MountsOK, ProvidedOK, Provided,
    InUse, Known, Retired, Granted, Sent, N!Shared, Writable, N!ReadOnlyShare
<1> QED BY <1>1, <1>2, <1>3 DEF DriverNext

(* A request that is read-only is mounted read-only, whatever its flags or *)
(* the configuration say, over either protocol.                            *)
LEMMA ReadOnlyMount ==
  ASSUME NEW t \in ReadOnly PROVE "ro" \in N!MountPoint(t).options
<1>1. "ro" \in N!MountOptions(t)
  BY DEF N!MountOptions, N!AppendIfRegexpNotExist
<1>2. \A o, re, value : o \subseteq N!AppendIfRegexpNotExist(o, re, value)
  BY DEF N!AppendIfRegexpNotExist
<1>3. \A o : "ro" \in o => "ro" \in N!NfsOptions(o)
  BY <1>2 DEF N!NfsOptions
<1> QED BY <1>1, <1>3 DEF N!MountPoint

(* A pod is told that its volume is there only when it is: mounted, on the *)
(* appliance and shared, read-only if asked so, and else with the          *)
(* permissions asked for, unless its share lets the node read only; on any *)
(* number of nodes, whatever fails, crashes, is repeated or is given up by *)
(* the kubelet.  Of the controller's calls no deadline expires and each    *)
(* volume is of one creation.                                              *)
THEOREM PublishedHolds ==
  ASSUME ~CallsTimeOut, OneCreation
  PROVE  DriverSpec => []PublishedIsUsable
<1>1. DriverInit => PublishedInv
  <2> SUFFICES ASSUME DriverInit PROVE PublishedInv
    OBVIOUS
  <2>1. /\ \A t \in Target : status[t] = "new" /\ mounts[t] = <<>>
        /\ \A w \in Worker : work[w] = N!Idle
    BY DEF DriverInit, N!NodeInit
  <2>2. N!Idle.pc = "idle" /\ N!Idle.live = FALSE
    BY DEF N!Idle
  <2> QED
    BY <2>1, <2>2 DEF PublishedInv, UsedOK, MountsOK, ProvidedOK, Provided, InUse
<1>2. Relied /\ PublishedInv /\ [DriverNext]_driverVars => PublishedInv'
  BY PublishedStep
<1>3. Relied /\ PublishedInv => PublishedIsUsable
  <2> SUFFICES ASSUME Relied, PublishedInv, NEW t \in Target, status[t] = "published"
               PROVE  /\ mounts[t] # <<>> /\ VolumeAt[t] \in nef.vols /\ N!Shared(t)
                      /\ t \in ReadOnly =>
                           \A i \in DOMAIN mounts[t] : "ro" \in mounts[t][i].options
                      /\ "ro" \notin N!MountOptions(t) /\ ~N!ReadOnlyShare(t) =>
                           mode[VolumeAt[t]] = N!GetMountPointPermissions(t)
    BY DEF PublishedIsUsable, N!PublishedIsUsable
  <2>1. /\ mounts[t] # <<>>
        /\ "ro" \notin N!MountOptions(t) /\ ~N!ReadOnlyShare(t) =>
             mode[VolumeAt[t]] = N!GetMountPointPermissions(t)
    BY DEF Provided, PublishedInv, ProvidedOK, Writable
  <2>2. Known(VolumeAt[t]) /\ ~Retired(VolumeAt[t]) /\ VolumeAt[t] \in Volume
    BY DriverConstantsOK DEF PublishedInv, UsedOK, InUse
  <2>3. VolumeAt[t] \in nef.vols /\ N!Shared(t)
    BY <2>1, <2>2, Usable DEF PublishedInv, MountsOK
  <2>4. t \in ReadOnly => \A i \in DOMAIN mounts[t] : "ro" \in mounts[t][i].options
    BY ReadOnlyMount DEF PublishedInv, MountsOK
  <2> QED BY <2>1, <2>3, <2>4
<1> QED BY <1>1, <1>2, <1>3, ReliedInvariance, PTL DEF DriverSpec
=============================================================================
