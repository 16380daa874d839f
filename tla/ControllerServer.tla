---------------------------- MODULE ControllerServer ----------------------------
(***************************************************************************)
(* The CSI controller service (pkg/driver/controllerServer.go) between the *)
(* container orchestrator (CO: the provisioner, snapshotter and resizer    *)
(* sidecars) and the NexentaStor appliance.                                *)
(*                                                                         *)
(* Each gRPC call runs in a handler of its own.  A handler takes no lock   *)
(* and keeps no state between calls: what it does is a sequence of calls   *)
(* to the appliance, one action each, and the handlers interleave between  *)
(* them.  The CO repeats a request until it is answered OK.                *)
(*                                                                         *)
(* Failures, at most MaxFaults in a behaviour: a call to the appliance     *)
(* fails; it takes effect but its reply is lost; a destroy stops after the *)
(* promotion; the driver crashes; and, with CallsTimeOut, the CO gives up  *)
(* on a call while its handler, which ignores the context, runs on.        *)
(*                                                                         *)
(* Not modelled here: the configuration and the choice of the appliance    *)
(* (one appliance, one dataset), argument validation and volume IDs, the   *)
(* list and query calls, the node service.                                 *)
(*                                                                         *)
(* Definitions marked "Mistake:" are not part of the specification.  Each  *)
(* is what the definition after it would be with a plausible bug, and      *)
(* shows that the properties notice it.                                    *)
(***************************************************************************)
EXTENDS Naturals

CONSTANTS
  Volume,        \* the volumes; all of them lie in the default dataset
  UserSnapName,  \* the snapshot names a CO may ask for
  AccessList,    \* the values of the parameter nfsAccessList
  WriteId,       \* the writes made by pods
  NoSnapshot,    \* no origin
  NoShare,       \* no NFS share, no nfsAccessList
  Handler,       \* the calls that may be in progress at a time
  Requests,      \* the requests the CO may make
  NoRequest,     \* what an idle handler works on
  Existing,      \* the volumes that were made by hand
  MaxFaults,     \* bound on the number of failures
  CallsTimeOut   \* whether the CO's deadlines may expire

(* Mistake: the snapshot of a clone has a name that users take, too. *)
CloneSnapshotNameOfUser(v) == CHOOSE n \in UserSnapName : TRUE

(* createClonedVolume: k8s-clone-snapshot-<name of the new volume> *)
CloneSnapshotName(v) == <<"k8s-clone-snapshot", v>>

SnapName == UserSnapName \cup {CloneSnapshotName(v) : v \in Volume}

NS == INSTANCE NexentaStor

-----------------------------------------------------------------------------
(* Requests.  The fields an operation does not have are filled in by the   *)
(* constructors below and never looked at.                                 *)

Creations == {"CreateVolume", "CreateVolumeFromSnapshot", "CloneVolume"}

Copying == {"CreateVolumeFromSnapshot", "CloneVolume"}

Operations == Creations \cup {"DeleteVolume", "CreateSnapshot",
                              "DeleteSnapshot", "ControllerExpandVolume"}

Request ==
  [op:   Operations,
   vol:  Volume,                    \* the volume it is about
   src:  Volume,                    \* the volume it starts from
   name: SnapName,                  \* the snapshot it is about or starts from
   size: Nat,                       \* required bytes, 0 for unspecified
   acl:  AccessList \cup {NoShare}] \* the parameter nfsAccessList

Req(op, v, src, name, size, acl) ==
  [op |-> op, vol |-> v, src |-> src, name |-> name, size |-> size, acl |-> acl]

CreateVolumeReq(v, size, acl) ==
  Req("CreateVolume", v, v, CloneSnapshotName(v), size, acl)
RestoreReq(v, src, name, size, acl) ==
  Req("CreateVolumeFromSnapshot", v, src, name, size, acl)
CloneReq(v, src, size, acl) ==
  Req("CloneVolume", v, src, CloneSnapshotName(v), size, acl)
DeleteVolumeReq(v) ==
  Req("DeleteVolume", v, v, CloneSnapshotName(v), 0, NoShare)
CreateSnapshotReq(v, name) == Req("CreateSnapshot", v, v, name, 0, NoShare)
DeleteSnapshotReq(v, name) == Req("DeleteSnapshot", v, v, name, 0, NoShare)
ExpandReq(v, size) ==
  Req("ControllerExpandVolume", v, v, CloneSnapshotName(v), size, NoShare)

(* The snapshot a handler takes, destroys or clones. *)
SnapshotOf(r) ==
  [parent |-> r.src,
   name   |-> IF r.op = "CloneVolume" THEN CloneSnapshotName(r.vol) ELSE r.name]

ASSUME ConstantsOK ==
  /\ Requests \subseteq Request
  /\ NoRequest \notin Requests
  /\ Existing \subseteq Volume
  /\ NoSnapshot \notin NS!Snapshot
  /\ NoShare \notin AccessList
  /\ MaxFaults \in Nat
  /\ CallsTimeOut \in BOOLEAN

(* A volume made by hand is not provisioned; expansions ask for a size;    *)
(* only copies have a source of their own.                                 *)
ASSUME RequestsOK ==
  /\ \A r \in Requests : r.op \in Creations => r.vol \notin Existing
  /\ \A r \in Requests : r.op = "ControllerExpandVolume" => r.size > 0
  /\ \A r \in Requests : r.op = "CloneVolume" => r.src # r.vol
  /\ \A r \in Requests : r.op \notin Copying => r.src = r.vol
  /\ \A r \in Requests :
       r.op \in {"CreateVolumeFromSnapshot", "CreateSnapshot", "DeleteSnapshot"}
         => r.name \in UserSnapName

-----------------------------------------------------------------------------
VARIABLES
  nef,     \* the appliance
  call,    \* what each handler is doing
  answer,  \* what the CO knows of each request
  asked,   \* what the source of each request held when it was first made
  faults   \* the number of failures so far

vars == <<nef, call, answer, asked, faults>>

(* A handler is between two calls to the appliance; pc names the next one. *)
NefCalls ==
  {"Resolve", "CreateFilesystem", "GetFilesystem", "GetSourceSnapshot",
   "GetSnapshots", "CreateSnapshot", "GetSnapshot", "CloneSnapshot",
   "CreateNfsShare", "DeleteNfsShare", "RecreateNfsShare",
   "DestroyFilesystem", "DestroySnapshot", "UpdateFilesystem"}

Codes == {"OK", "NotFound", "AlreadyExists", "Internal", "Unknown"}

Call ==
  [req: Requests, pc: NefCalls \cup {"reply"}, code: Codes, live: BOOLEAN]

Idle == [req |-> NoRequest, pc |-> "idle", code |-> "OK", live |-> FALSE]

Init ==
  /\ nef = NS!Blank(Existing)
  /\ call = [h \in Handler |-> Idle]
  /\ answer = [r \in Requests |-> "new"]
  /\ asked = [r \in Requests |-> {}]
  /\ faults = 0

-----------------------------------------------------------------------------
(***************************************************************************)
(* The CO.  It makes a request once what it refers to exists, repeats it   *)
(* until it is answered OK, and drops it when a later request of its own   *)
(* replaces it.  Each sidecar has one call in progress per object, but the *)
(* sidecars do not know of each other.                                     *)
(***************************************************************************)
Sent(r)    == answer[r] # "new"
Granted(r) == answer[r] = "OK"

Known(v) ==
  \/ v \in Existing
  \/ \E r \in Requests : r.op \in Creations /\ r.vol = v /\ Granted(r)

Retired(v) == \E r \in Requests : r.op = "DeleteVolume" /\ r.vol = v /\ Sent(r)

Taken(s) ==
  \E r \in Requests : r.op = "CreateSnapshot" /\ SnapshotOf(r) = s /\ Granted(r)

Discarded(s) ==
  \E r \in Requests : r.op = "DeleteSnapshot" /\ SnapshotOf(r) = s /\ Sent(r)

Dropped(s) == Retired(s.parent) \/ Discarded(s)

Prerequisite(r) ==
  CASE r.op = "CreateVolume" -> TRUE
    [] r.op = "CreateVolumeFromSnapshot" ->
         Taken(SnapshotOf(r)) /\ ~Dropped(SnapshotOf(r))
    [] r.op \in {"CloneVolume", "CreateSnapshot", "ControllerExpandVolume"} ->
         Known(r.src) /\ ~Retired(r.src)
    [] r.op = "DeleteVolume"   -> Known(r.vol)
    [] r.op = "DeleteSnapshot" -> Taken(SnapshotOf(r))

(* An expansion is for a volume that is smaller, and gives way to a larger *)
(* expansion.                                                              *)
Superseded(r) ==
  \/ r.op \in Creations /\ Retired(r.vol)
  \/ r.op = "CreateSnapshot" /\ Discarded(SnapshotOf(r))
  \/ r.op = "ControllerExpandVolume" /\
       \E q \in Requests :
         /\ q.vol = r.vol
         /\ \/ q.op = r.op /\ q.size > r.size /\ Sent(q)
            \/ q.op \in Creations /\ q.size >= r.size /\ Granted(q)

Sidecar(op) ==
  CASE op \in Creations \cup {"DeleteVolume"}         -> "provisioner"
    [] op \in {"CreateSnapshot", "DeleteSnapshot"}    -> "snapshotter"
    [] op = "ControllerExpandVolume"                  -> "resizer"

SameObject(q, r) ==
  /\ Sidecar(q.op) = Sidecar(r.op)
  /\ q.vol = r.vol
  /\ Sidecar(r.op) = "snapshotter" => q.name = r.name

(* The writes that a clone or a snapshot taken now has to hold. *)
SourceData(r) ==
  CASE r.op \in {"CloneVolume", "CreateSnapshot"} -> nef.data[r.src]
    [] r.op = "CreateVolumeFromSnapshot"          -> nef.sdata[SnapshotOf(r)]
    [] OTHER                                      -> {}

Send(r, h) ==
  /\ answer[r] \in {"new", "failed"}
  /\ ~Superseded(r)
  /\ Sent(r) \/ Prerequisite(r)
  /\ call[h] = Idle
  /\ \A g \in Handler : call[g].live => ~SameObject(call[g].req, r)
  /\ call' = [call EXCEPT ![h] = [req |-> r, pc |-> "Resolve",
                                  code |-> "OK", live |-> TRUE]]
  /\ answer' = [answer EXCEPT ![r] = "waiting"]
  /\ asked' = IF Sent(r) THEN asked ELSE [asked EXCEPT ![r] = SourceData(r)]
  /\ UNCHANGED <<nef, faults>>

(* A pod writes to a volume it may have mounted. *)
PodWrites(v, w) ==
  /\ v \in nef.vols /\ Known(v) /\ ~Retired(v)
  /\ \A u \in Volume : w \notin nef.data[u]
  /\ nef' = NS!WriteData(nef, v, w)
  /\ UNCHANGED <<call, answer, asked, faults>>

-----------------------------------------------------------------------------
(* The steps of a handler. *)

At(h, pc) == call[h].pc = pc

Goto(h, pc) ==
  /\ call' = [call EXCEPT ![h].pc = pc]
  /\ UNCHANGED faults

Finish(h, code) ==
  /\ call' = [call EXCEPT ![h].pc = "reply", ![h].code = code]
  /\ UNCHANGED faults

FailWith(h, code) ==
  /\ faults < MaxFaults
  /\ faults' = faults + 1
  /\ call' = [call EXCEPT ![h].pc = "reply", ![h].code = code]

(* The call took effect: the handler goes on, or the reply is lost. *)
Applied(h, pc, code) == Goto(h, pc) \/ FailWith(h, code)

(* resolveNS: a creation looks for the dataset, which exists, the others   *)
(* for the volume.  A volume that is not there needs no deletion.          *)
Resolve(h) ==
  LET r == call[h].req IN
  /\ At(h, "Resolve")
  /\ UNCHANGED nef
  /\ \/ /\ r.op \in Creations \/ r.vol \in nef.vols
        /\ Goto(h, CASE r.op = "CreateVolume"             -> "CreateFilesystem"
                     [] r.op = "CreateVolumeFromSnapshot" -> "GetSourceSnapshot"
                     [] r.op \in {"CloneVolume", "CreateSnapshot"} -> "GetSnapshots"
                     [] r.op = "DeleteVolume"             -> "DestroyFilesystem"
                     [] r.op = "DeleteSnapshot"           -> "DestroySnapshot"
                     [] r.op = "ControllerExpandVolume"   -> "UpdateFilesystem")
     \/ /\ r.op \in {"DeleteVolume", "DeleteSnapshot"} /\ r.vol \notin nef.vols
        /\ Goto(h, "reply")
     \/ /\ r.op \in {"CreateSnapshot", "ControllerExpandVolume"}
        /\ r.vol \notin nef.vols
        /\ Finish(h, "NotFound")

-----------------------------------------------------------------------------
(* createNewVolume *)

(* Mistake: CreateVolume returns before it has shared the volume. *)
AfterCreationNoShare(r) == "reply"

(* The volume is there; CreateVolume shares it if it was asked to. *)
AfterCreation(r) == IF r.acl = NoShare THEN "reply" ELSE "CreateNfsShare"

(* Mistake: a volume that exists already is an error. *)
CreateFilesystemOnce(h) ==
  LET r == call[h].req IN
  /\ At(h, "CreateFilesystem")
  /\ \/ /\ r.vol \notin nef.vols
        /\ nef' = NS!CreateFilesystem(nef, r.vol, r.size)
        /\ Applied(h, AfterCreation(r), "Internal")
     \/ /\ r.vol \in nef.vols
        /\ Finish(h, "Internal")
        /\ UNCHANGED nef

CreateFilesystem(h) ==
  LET r == call[h].req IN
  /\ At(h, "CreateFilesystem")
  /\ \/ /\ r.vol \notin nef.vols
        /\ nef' = NS!CreateFilesystem(nef, r.vol, r.size)
        /\ Applied(h, AfterCreation(r), "Internal")
     \/ /\ r.vol \in nef.vols
        /\ Goto(h, "GetFilesystem")
        /\ UNCHANGED nef

(* Mistake: the sizes are not compared. *)
GetFilesystemAnySize(h) ==
  LET r == call[h].req IN
  /\ At(h, "GetFilesystem")
  /\ UNCHANGED nef
  /\ \/ r.vol \notin nef.vols /\ Finish(h, "Internal")
     \/ r.vol \in nef.vols    /\ Goto(h, AfterCreation(r))

(* It exists already: the sizes have to agree. *)
GetFilesystem(h) ==
  LET r == call[h].req IN
  /\ At(h, "GetFilesystem")
  /\ UNCHANGED nef
  /\ \/ /\ r.vol \notin nef.vols
        /\ Finish(h, "Internal")
     \/ /\ r.vol \in nef.vols
        /\ r.size # 0 /\ nef.quota[r.vol] # r.size
        /\ Finish(h, "AlreadyExists")
     \/ /\ r.vol \in nef.vols
        /\ r.size = 0 \/ nef.quota[r.vol] = r.size
        /\ Goto(h, AfterCreation(r))

-----------------------------------------------------------------------------
(* CreateSnapshotOnNS, of CreateSnapshot and createClonedVolume *)

(* The same name is refused under another volume of the dataset. *)
GetSnapshots(h) ==
  LET s == SnapshotOf(call[h].req)
      taken == \E t \in nef.snaps : t.name = s.name /\ t.parent # s.parent
  IN
  /\ At(h, "GetSnapshots")
  /\ UNCHANGED nef
  /\ \/ taken /\ Finish(h, "AlreadyExists")
     \/ ~taken /\ Goto(h, "CreateSnapshot")

CreateSnapshot(h) ==
  LET s == SnapshotOf(call[h].req) IN
  /\ At(h, "CreateSnapshot")
  /\ \/ /\ s.parent \in nef.vols /\ s \notin nef.snaps
        /\ nef' = NS!CreateSnapshot(nef, s)
        /\ Applied(h, "GetSnapshot", "Internal")
     \/ /\ s \in nef.snaps
        /\ Goto(h, "GetSnapshot")
        /\ UNCHANGED nef
     \/ /\ s.parent \notin nef.vols
        /\ Finish(h, "Internal")
        /\ UNCHANGED nef

GetSnapshot(h) ==
  LET r == call[h].req IN
  /\ At(h, "GetSnapshot")
  /\ UNCHANGED nef
  /\ \/ /\ SnapshotOf(r) \in nef.snaps
        /\ Goto(h, IF r.op = "CloneVolume" THEN "CloneSnapshot" ELSE "reply")
     \/ /\ SnapshotOf(r) \notin nef.snaps
        /\ Finish(h, "Internal")

-----------------------------------------------------------------------------
(* createNewVolumeFromSnapshot and the rest of createClonedVolume *)

GetSourceSnapshot(h) ==
  LET s == SnapshotOf(call[h].req) IN
  /\ At(h, "GetSourceSnapshot")
  /\ UNCHANGED nef
  /\ \/ s \in nef.snaps    /\ Goto(h, "CloneSnapshot")
     \/ s \notin nef.snaps /\ Finish(h, "NotFound")

(* Mistake: an error of CloneSnapshot is not returned. *)
CloneErrorIgnored(r) == "OK"

(* Mistake: a code that the handlers do not use. *)
CloneErrorUnknown(r) == "FailedPrecondition"

CloneError(r) == IF r.op = "CloneVolume" THEN "NotFound" ELSE "Internal"

(* A volume that exists already is taken as it is, whatever made it.  When *)
(* the snapshot is missing too, the appliance may report either.           *)
CloneSnapshot(h) ==
  LET r == call[h].req
      s == SnapshotOf(r)
  IN
  /\ At(h, "CloneSnapshot")
  /\ \/ /\ s \in nef.snaps /\ r.vol \notin nef.vols
        /\ nef' = NS!CloneSnapshot(nef, s, r.vol, r.size)
        /\ Applied(h, AfterCreation(r), CloneError(r))
     \/ /\ r.vol \in nef.vols
        /\ Goto(h, AfterCreation(r))
        /\ UNCHANGED nef
     \/ /\ s \notin nef.snaps
        /\ Finish(h, CloneError(r))
        /\ UNCHANGED nef

-----------------------------------------------------------------------------
(* createNfsShare: an existing share is deleted and created anew. *)

(* Mistake: a volume that cannot be shared is destroyed again. *)
CreateNfsShareOrDestroy(h) ==
  LET r == call[h].req IN
  /\ At(h, "CreateNfsShare")
  /\ \/ /\ r.vol \in nef.vols /\ nef.share[r.vol] = NoShare
        /\ \/ nef' = NS!CreateNfsShare(nef, r.vol, r.acl) /\ Goto(h, "reply")
           \/ nef' = NS!Remove(nef, r.vol) /\ FailWith(h, "Unknown")
     \/ /\ nef.share[r.vol] # NoShare
        /\ Goto(h, "DeleteNfsShare")
        /\ UNCHANGED nef

CreateNfsShare(h) ==
  LET r == call[h].req IN
  /\ At(h, "CreateNfsShare")
  /\ \/ /\ r.vol \in nef.vols /\ nef.share[r.vol] = NoShare
        /\ nef' = NS!CreateNfsShare(nef, r.vol, r.acl)
        /\ Applied(h, "reply", "Unknown")
     \/ /\ nef.share[r.vol] # NoShare
        /\ Goto(h, "DeleteNfsShare")
        /\ UNCHANGED nef
     \/ /\ r.vol \notin nef.vols
        /\ Finish(h, "Unknown")
        /\ UNCHANGED nef

DeleteNfsShare(h) ==
  LET r == call[h].req IN
  /\ At(h, "DeleteNfsShare")
  /\ \/ /\ nef.share[r.vol] # NoShare
        /\ nef' = NS!DeleteNfsShare(nef, r.vol)
        /\ Applied(h, "RecreateNfsShare", "Unknown")
     \/ /\ nef.share[r.vol] = NoShare
        /\ Finish(h, "Unknown")
        /\ UNCHANGED nef

RecreateNfsShare(h) ==
  LET r == call[h].req IN
  /\ At(h, "RecreateNfsShare")
  /\ \/ /\ r.vol \in nef.vols /\ nef.share[r.vol] = NoShare
        /\ nef' = NS!CreateNfsShare(nef, r.vol, r.acl)
        /\ Applied(h, "reply", "Unknown")
     \/ /\ r.vol \notin nef.vols \/ nef.share[r.vol] # NoShare
        /\ Finish(h, "Unknown")
        /\ UNCHANGED nef

-----------------------------------------------------------------------------
(* DeleteVolume, DeleteSnapshot and ControllerExpandVolume *)

(* The most recent clone is promoted, then the volume is destroyed with    *)
(* the snapshots it still has; a failure may separate the two.  The        *)
(* promotion is refused when the clone has a snapshot of the same name as  *)
(* one it is to take over (two racing CreateSnapshots, SnapshotNamesUnique *)
(* below), and then nothing is destroyed.                                  *)
DestroyFilesystem(h) ==
  LET v == call[h].req.vol IN
  /\ At(h, "DestroyFilesystem")
  /\ \/ /\ v \in nef.vols
        /\ \E n \in NS!AfterPromotion(nef, v) :
             \/ nef' = NS!Remove(n, v) /\ Applied(h, "reply", "Internal")
             \/ nef' = n /\ FailWith(h, "Internal")
     \/ /\ v \in nef.vols /\ NS!PromotionRefused(nef, v)
        /\ Finish(h, "Internal")
        /\ UNCHANGED nef
     \/ /\ v \notin nef.vols
        /\ Goto(h, "reply")
        /\ UNCHANGED nef

DestroySnapshot(h) ==
  LET s == SnapshotOf(call[h].req) IN
  /\ At(h, "DestroySnapshot")
  /\ \/ /\ s \in nef.snaps /\ ~NS!IsBusy(nef, s)
        /\ nef' = NS!DestroySnapshot(nef, s)
        /\ Applied(h, "reply", "Internal")
     \/ /\ s \in nef.snaps /\ NS!IsBusy(nef, s)
        /\ Finish(h, "Internal")
        /\ UNCHANGED nef
     \/ /\ s \notin nef.snaps
        /\ Goto(h, "reply")
        /\ UNCHANGED nef

(* The quota is set to the requested size, whatever it was before. *)
UpdateFilesystem(h) ==
  LET r == call[h].req IN
  /\ At(h, "UpdateFilesystem")
  /\ \/ /\ r.vol \in nef.vols
        /\ nef' = NS!UpdateFilesystem(nef, r.vol, r.size)
        /\ Applied(h, "reply", "Unknown")
     \/ /\ r.vol \notin nef.vols
        /\ Finish(h, "Unknown")
        /\ UNCHANGED nef

-----------------------------------------------------------------------------
(* Mistake: every error of a create call is taken for "already exists". *)
ErrorCodeCreateIgnored(h) ==
  IF call[h].pc \in {"CreateFilesystem", "CreateSnapshot"} THEN "OK" ELSE "Internal"

(* Mistake: the error of the second CreateNfsShare is not returned. *)
ErrorCodeRecreateIgnored(h) ==
  IF At(h, "RecreateNfsShare") THEN "OK" ELSE "Internal"

(* Mistake: every error of resolveNS is taken for "not found". *)
ErrorCodeResolveIgnored(h) ==
  IF At(h, "Resolve") /\ call[h].req.op \in {"DeleteVolume", "DeleteSnapshot"}
    THEN "OK" ELSE "Internal"

(* What a handler answers when a call fails for any other reason. *)
ErrorCode(h) ==
  CASE At(h, "GetSourceSnapshot") -> "NotFound"
    [] At(h, "GetSnapshots")      -> "NotFound"
    [] At(h, "CloneSnapshot")     -> CloneError(call[h].req)
    [] call[h].pc \in {"CreateNfsShare", "DeleteNfsShare", "RecreateNfsShare",
                       "UpdateFilesystem"} -> "Unknown"
    [] OTHER -> "Internal"

NefFails(h) ==
  /\ call[h].pc \in NefCalls
  /\ FailWith(h, ErrorCode(h))
  /\ UNCHANGED nef

CallNef(h) ==
  /\ \/ Resolve(h)
     \/ CreateFilesystem(h)  \/ GetFilesystem(h)
     \/ GetSnapshots(h)      \/ CreateSnapshot(h)  \/ GetSnapshot(h)
     \/ GetSourceSnapshot(h) \/ CloneSnapshot(h)
     \/ CreateNfsShare(h)    \/ DeleteNfsShare(h)  \/ RecreateNfsShare(h)
     \/ DestroyFilesystem(h) \/ DestroySnapshot(h) \/ UpdateFilesystem(h)
     \/ NefFails(h)
  /\ UNCHANGED <<answer, asked>>

(* The handler returns; nobody listens once the call has timed out. *)
Reply(h) ==
  LET c == call[h] IN
  /\ At(h, "reply")
  /\ call' = [call EXCEPT ![h] = Idle]
  /\ answer' = IF c.live
                 THEN [answer EXCEPT ![c.req] = IF c.code = "OK" THEN "OK"
                                                ELSE "failed"]
                 ELSE answer
  /\ UNCHANGED <<nef, asked, faults>>

(* The CO's deadline expires.  No handler looks at its context. *)
Timeout(h) ==
  /\ CallsTimeOut
  /\ call[h].live
  /\ faults < MaxFaults
  /\ faults' = faults + 1
  /\ call' = [call EXCEPT ![h].live = FALSE]
  /\ answer' = [answer EXCEPT ![call[h].req] = "failed"]
  /\ UNCHANGED <<nef, asked>>

(* The driver restarts: every call in progress is cut off where it is. *)
Crash ==
  /\ faults < MaxFaults
  /\ faults' = faults + 1
  /\ \E h \in Handler : call[h] # Idle
  /\ call' = [h \in Handler |-> Idle]
  /\ answer' = [r \in Requests |->
                  IF answer[r] = "waiting" THEN "failed" ELSE answer[r]]
  /\ UNCHANGED <<nef, asked>>

Next ==
  \/ \E r \in Requests, h \in Handler : Send(r, h)
  \/ \E v \in Volume, w \in WriteId : PodWrites(v, w)
  \/ \E h \in Handler : CallNef(h) \/ Reply(h) \/ Timeout(h)
  \/ Crash

Spec == Init /\ [][Next]_vars

(* Handlers run to their end, and the CO repeats what was not answered OK. *)
Fairness ==
  /\ \A h \in Handler : WF_vars(CallNef(h) \/ Reply(h))
  /\ \A r \in Requests : WF_vars(Sent(r) /\ \E h \in Handler : Send(r, h))

FairSpec == Spec /\ Fairness

-----------------------------------------------------------------------------
(* Properties *)

(* Every variable has its type: the appliance is well-formed and each      *)
(* handler is idle or between two calls of a request.                      *)
TypeOK ==
  /\ nef \in NS!Appliance
  /\ call \in [Handler -> Call \cup {Idle}]
  /\ answer \in [Requests -> {"new", "waiting", "failed", "OK"}]
  /\ asked \in [Requests -> SUBSET WriteId]
  /\ faults \in 0 .. MaxFaults

(* A volume whose creation was answered OK is on the appliance until its   *)
(* deletion is asked for: neither retries, lost replies nor crashes make   *)
(* CreateVolume report a volume that is not there.                         *)
GrantedVolumeExists ==
  \A r \in Requests :
    r.op \in Creations /\ Granted(r) /\ ~Retired(r.vol) => r.vol \in nef.vols

(* A snapshot that CreateSnapshot answered OK is on the appliance until    *)
(* its deletion or that of its volume is asked for.                        *)
GrantedSnapshotExists ==
  \A r \in Requests :
    r.op = "CreateSnapshot" /\ Granted(r) /\ ~Dropped(SnapshotOf(r))
      => SnapshotOf(r) \in nef.snaps

(* A snapshot, a clone or a restored volume holds every write its source   *)
(* held when it was first asked for, however often it was retried and      *)
(* whichever snapshot of an earlier try createClonedVolume picks up.       *)
SourceDataKept ==
  \A r \in Requests : Granted(r) =>
    /\ r.op \in Creations /\ ~Retired(r.vol) => asked[r] \subseteq nef.data[r.vol]
    /\ r.op = "CreateSnapshot" /\ ~Dropped(SnapshotOf(r))
         => asked[r] \subseteq nef.sdata[SnapshotOf(r)]

(* A volume is never smaller than a size CreateVolume or                   *)
(* ControllerExpandVolume answered OK for it.                              *)
AckedCapacity ==
  \A r \in Requests :
    /\ r.op \in Creations \cup {"ControllerExpandVolume"}
    /\ r.size # 0 /\ Granted(r) /\ ~Retired(r.vol)
    => nef.quota[r.vol] >= r.size

(* A volume whose creation was answered OK is shared with the access list  *)
(* of the request: createNfsShare replaces the share of an earlier try.    *)
GrantedShare ==
  \A r \in Requests :
    r.op \in Creations /\ r.acl # NoShare /\ Granted(r) /\ ~Retired(r.vol)
      => nef.share[r.vol] = r.acl

(* What DeleteVolume or DeleteSnapshot reported gone stays gone: no        *)
(* handler that is still running brings it back.                           *)
DeletionIsFinal ==
  \A r \in Requests : Granted(r) =>
    /\ r.op = "DeleteVolume"   => r.vol \notin nef.vols
    /\ r.op = "DeleteSnapshot" => SnapshotOf(r) \notin nef.snaps

(* No two volumes have a snapshot of the same name, which                  *)
(* CreateSnapshotOnNS is written to ensure.                                *)
SnapshotNamesUnique ==
  \A s, t \in nef.snaps : s.name = t.name => s = t

(* The controller service implements its abstract specification: every     *)
(* effect of CreateVolume, DeleteVolume, CreateSnapshot and DeleteSnapshot *)
(* happens between the call and its answer, none is undone by the cleaning *)
(* up or the retry of another, and OK is answered only when it is true.    *)
(* This needs that no deadline expires.                                    *)
Lifecycle ==
  INSTANCE VolumeLifecycle WITH
    vols     <- nef.vols,
    snaps    <- nef.snaps,
    status   <- answer,
    Makes    <- [r \in Requests |-> IF r.op \in Creations THEN {r.vol} ELSE {}],
    Takes    <- [r \in Requests |-> IF r.op \in {"CloneVolume", "CreateSnapshot"}
                                      THEN {SnapshotOf(r)} ELSE {}],
    Destroys <- [r \in Requests |-> IF r.op = "DeleteVolume" THEN {r.vol} ELSE {}],
    Discards <- [r \in Requests |-> IF r.op = "DeleteSnapshot"
                                      THEN {SnapshotOf(r)} ELSE {}]

ImplementsLifecycle == Lifecycle!Spec

(* Repeating a request succeeds in the end: after any failure, the next    *)
(* try takes what the failed one left behind for its own work.             *)
RetriesConverge ==
  \A r \in Requests : Sent(r) ~> (Granted(r) \/ Superseded(r))
=============================================================================
