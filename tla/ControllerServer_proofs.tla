------------------------ MODULE ControllerServer_proofs ------------------------
(***************************************************************************)
(* Proofs about ControllerServer, for every value of its constants.        *)
(***************************************************************************)
EXTENDS ControllerServer, TLAPS

-----------------------------------------------------------------------------
(* The calls to the appliance keep it well-formed. *)

(* The made-by-hand volumes make a well-formed appliance. *)
LEMMA BlankType == \A V \in SUBSET Volume : NS!Blank(V) \in NS!Appliance
  BY DEF NS!Blank, NS!Appliance, NS!Snapshot

(* Calls on a filesystem. *)
LEMMA FilesystemType ==
  ASSUME NEW n \in NS!Appliance, NEW v \in Volume, NEW q \in Nat
  PROVE  /\ NS!CreateFilesystem(n, v, q) \in NS!Appliance
         /\ NS!UpdateFilesystem(n, v, q) \in NS!Appliance
         /\ \A s \in NS!Snapshot : NS!CloneSnapshot(n, s, v, q) \in NS!Appliance
         /\ \A w \in WriteId : NS!WriteData(n, v, w) \in NS!Appliance
         /\ NS!Remove(n, v) \in NS!Appliance
<1>1. NS!CreateFilesystem(n, v, q) \in NS!Appliance
  BY DEF NS!CreateFilesystem, NS!Appliance
<1>2. NS!UpdateFilesystem(n, v, q) \in NS!Appliance
  BY DEF NS!UpdateFilesystem, NS!Appliance
<1>3. ASSUME NEW s \in NS!Snapshot
      PROVE  NS!CloneSnapshot(n, s, v, q) \in NS!Appliance
  BY DEF NS!CloneSnapshot, NS!Appliance
<1>4. ASSUME NEW w \in WriteId
      PROVE  NS!WriteData(n, v, w) \in NS!Appliance
  BY DEF NS!WriteData, NS!Appliance
<1>5. NS!Remove(n, v) \in NS!Appliance
  BY DEF NS!Remove, NS!Appliance, NS!SnapshotsOf
<1> QED BY <1>1, <1>2, <1>3, <1>4, <1>5

(* Calls on a snapshot. *)
LEMMA SnapshotType ==
  ASSUME NEW n \in NS!Appliance, NEW s \in NS!Snapshot
  PROVE  /\ NS!CreateSnapshot(n, s) \in NS!Appliance
         /\ NS!DestroySnapshot(n, s) \in NS!Appliance
  BY DEF NS!CreateSnapshot, NS!DestroySnapshot, NS!Appliance, NS!Snapshot

(* Calls on a share. *)
LEMMA ShareType ==
  ASSUME NEW n \in NS!Appliance, NEW v \in Volume,
         NEW l \in AccessList \cup {NoShare}
  PROVE  /\ NS!CreateNfsShare(n, v, l) \in NS!Appliance
         /\ NS!DeleteNfsShare(n, v) \in NS!Appliance
  BY DEF NS!CreateNfsShare, NS!DeleteNfsShare, NS!Appliance

(* The promotion that DestroyFilesystem makes. *)
LEMMA PromotionType ==
  ASSUME NEW n \in NS!Appliance, NEW v \in Volume
  PROVE  \A m \in NS!AfterPromotion(n, v) : m \in NS!Appliance
<1>1. ASSUME NEW c \in NS!Clones(n, v), NEW M \in SUBSET NS!SnapshotsOf(n, v)
      PROVE  NS!Promote(n, v, c, M) \in NS!Appliance
  <2> DEFINE P == NS!Promote(n, v, c, M)
  <2>1. /\ c \in Volume
        /\ n.snaps \subseteq NS!Snapshot
        /\ M \subseteq NS!Snapshot
        /\ n.origin[c] \in NS!Snapshot
    BY DEF NS!Clones, NS!SnapshotsOf, NS!Appliance
  <2>2. \A s \in NS!Snapshot :
          /\ NS!Moved(s, c) \in NS!Snapshot
          /\ [parent |-> v, name |-> s.name] \in NS!Snapshot
    BY <2>1 DEF NS!Moved, NS!Snapshot
  <2>3. P.snaps \in SUBSET NS!Snapshot
    <3>1. P.snaps = (n.snaps \ M) \cup {NS!Moved(s, c) : s \in M}
      BY DEF NS!Promote, NS!Appliance
    <3> QED BY <3>1, <2>1, <2>2
  <2>4. P.sdata \in [NS!Snapshot -> SUBSET WriteId]
    BY <2>1, <2>2 DEF NS!Promote, NS!Appliance
  <2>5. P.origin \in [Volume -> NS!Snapshot \cup {NoSnapshot}]
    BY <2>1, <2>2 DEF NS!Promote, NS!Appliance
  <2>6. P = [n EXCEPT !.snaps = P.snaps, !.sdata = P.sdata, !.origin = P.origin]
    BY DEF NS!Promote, NS!Appliance
  <2>7. ASSUME NEW p, p.snaps \in SUBSET NS!Snapshot,
               p.sdata \in [NS!Snapshot -> SUBSET WriteId],
               p.origin \in [Volume -> NS!Snapshot \cup {NoSnapshot}],
               p = [n EXCEPT !.snaps = p.snaps, !.sdata = p.sdata,
                             !.origin = p.origin]
        PROVE  p \in NS!Appliance
    BY <2>7 DEF NS!Appliance
  <2> QED BY <2>3, <2>4, <2>5, <2>6, <2>7
<1> QED BY <1>1 DEF NS!AfterPromotion

-----------------------------------------------------------------------------
(***************************************************************************)
(* The inductive invariant.  That a granted volume or snapshot exists is   *)
(* not inductive: the answer is decided some steps before it is given.     *)
(* So the invariant says of every handler which operation it may be        *)
(* working on, that its request was made, and that it is past the creation *)
(* only if the object exists or its deletion was asked for.                *)
(***************************************************************************)
Sharing == {"CreateNfsShare", "DeleteNfsShare", "RecreateNfsShare"}

Fits(op, pc) ==
  /\ pc \in {"CreateFilesystem", "GetFilesystem"} => op = "CreateVolume"
  /\ pc = "GetSourceSnapshot" => op = "CreateVolumeFromSnapshot"
  /\ pc \in {"GetSnapshots", "CreateSnapshot", "GetSnapshot"}
       => op \in {"CloneVolume", "CreateSnapshot"}
  /\ pc = "CloneSnapshot" => op \in {"CloneVolume", "CreateVolumeFromSnapshot"}
  /\ pc \in Sharing => op \in Creations
  /\ pc = "DestroyFilesystem" => op = "DeleteVolume"
  /\ pc = "DestroySnapshot" => op = "DeleteSnapshot"
  /\ pc = "UpdateFilesystem" => op = "ControllerExpandVolume"

Secured(r) ==
  /\ r.op \in Creations => r.vol \in nef.vols \/ Retired(r.vol)
  /\ r.op = "CreateSnapshot" =>
       SnapshotOf(r) \in nef.snaps \/ Dropped(SnapshotOf(r))

Done(pc, code) == pc \in Sharing \/ (pc = "reply" /\ code = "OK")

CallOK(c) ==
  /\ Sent(c.req)
  /\ Fits(c.req.op, c.pc)
  /\ Done(c.pc, c.code) => Secured(c.req)

IInv ==
  /\ TypeOK
  /\ \A h \in Handler : call[h] # Idle => CallOK(call[h])
  /\ \A r \in Requests : Granted(r) => Secured(r)

(* What a step of the handler h, working on r, does to the rest of the system. *)
Moves(h, pc, code) ==
  call' = [call EXCEPT ![h].pc = pc, ![h].code = code]

Keeps(r) ==
  /\ \A u \in nef.vols : u \in nef'.vols \/ (r.op = "DeleteVolume" /\ u = r.vol)
  /\ \A s \in nef.snaps :
       \/ s \in nef'.snaps
       \/ r.op = "DeleteVolume" /\ s.parent = r.vol
       \/ r.op = "DeleteSnapshot" /\ s = SnapshotOf(r)

HandlerStep(h, r) ==
  /\ nef' \in NS!Appliance
  /\ faults' \in 0 .. MaxFaults
  /\ Keeps(r)
  /\ \E pc \in NefCalls \cup {"reply"}, code \in Codes :
       /\ Moves(h, pc, code)
       /\ Fits(r.op, pc)
       /\ Done(pc, code) => Secured(r)'

(* The fields of a request. *)
LEMMA RequestFields ==
  ASSUME NEW r \in Requests
  PROVE  /\ r.op \in Operations
         /\ r.vol \in Volume /\ r.src \in Volume
         /\ r.size \in Nat
         /\ r.acl \in AccessList \cup {NoShare}
         /\ SnapshotOf(r) \in NS!Snapshot
         /\ SnapshotOf(r).parent = r.src
<1>1. r \in Request
  BY ConstantsOK
<1>2. CloneSnapshotName(r.vol) \in SnapName /\ r.name \in SnapName
  BY <1>1 DEF Request, SnapName
<1> QED BY <1>1, <1>2 DEF Request, SnapshotOf, NS!Snapshot

(* A handler that is not idle works on a request. *)
LEMMA ActiveHandler ==
  ASSUME IInv, NEW h \in Handler, call[h].pc # "idle"
  PROVE  /\ call[h] \in Call
         /\ call[h].req \in Requests
         /\ CallOK(call[h])
  BY DEF IInv, TypeOK, Call, Idle

(* A handler that makes its next call. *)
LEMMA StepByGoto ==
  ASSUME IInv, NEW h \in Handler, NEW r \in Requests, call[h].req = r,
         call[h] \in Call,
         NEW pc \in NefCalls \cup {"reply"}, Goto(h, pc),
         nef' \in NS!Appliance, Keeps(r), Fits(r.op, pc),
         pc \in Sharing \cup {"reply"} => Secured(r)'
  PROVE  HandlerStep(h, r)
<1>1. Moves(h, pc, call[h].code) /\ faults' \in 0 .. MaxFaults
  BY DEF Goto, Moves, IInv, TypeOK, Call
<1>2. call[h].code \in Codes
  BY DEF Call
<1> QED BY <1>1, <1>2 DEF HandlerStep, Done

(* A handler that gives up. *)
LEMMA StepByError ==
  ASSUME IInv, NEW h \in Handler, NEW r \in Requests, call[h].req = r,
         call[h] \in Call,
         NEW code \in Codes \ {"OK"}, Finish(h, code) \/ FailWith(h, code),
         nef' \in NS!Appliance, Keeps(r)
  PROVE  HandlerStep(h, r)
<1>1. Moves(h, "reply", code)
  BY DEF Finish, FailWith, Moves
<1>2. faults' \in 0 .. MaxFaults
  BY ConstantsOK DEF Finish, FailWith, IInv, TypeOK
<1>3. Fits(r.op, "reply") /\ ~Done("reply", code)
  BY DEF Fits, Done, Sharing
<1> QED BY <1>1, <1>2, <1>3 DEF HandlerStep

(* A call that takes effect. *)
LEMMA StepByApplied ==
  ASSUME IInv, NEW h \in Handler, NEW r \in Requests, call[h].req = r,
         call[h] \in Call,
         NEW pc \in NefCalls \cup {"reply"}, NEW code \in Codes \ {"OK"},
         Applied(h, pc, code),
         nef' \in NS!Appliance, Keeps(r), Fits(r.op, pc),
         pc \in Sharing \cup {"reply"} => Secured(r)'
  PROVE  HandlerStep(h, r)
  BY StepByGoto, StepByError DEF Applied

(* A call that changes nothing. *)
LEMMA NefUnchanged ==
  ASSUME IInv, UNCHANGED <<nef, answer>>, NEW r \in Requests
  PROVE  /\ nef' \in NS!Appliance
         /\ Keeps(r)
         /\ Secured(r)' <=> Secured(r)
<1>1. nef' \in NS!Appliance /\ Keeps(r)
  BY DEF IInv, TypeOK, Keeps
<1>2. Secured(r)' <=> Secured(r)
  BY DEF Secured, Retired, Dropped, Discarded, Sent
<1> QED BY <1>1, <1>2

-----------------------------------------------------------------------------
(* The steps of a handler, one lemma each. *)

(* resolveNS succeeds without any call only for the deletions. *)
LEMMA ResolveStep ==
  ASSUME IInv, NEW h \in Handler, NEW r \in Requests, call[h].req = r,
         Resolve(h), UNCHANGED answer
  PROVE  HandlerStep(h, r)
<1>1. call[h] \in Call /\ r \in Requests /\ r.op \in Operations
  BY ActiveHandler, RequestFields DEF Resolve, At
<1>2. nef' \in NS!Appliance /\ Keeps(r)
  BY <1>1, NefUnchanged DEF Resolve
<1>3. CASE Finish(h, "NotFound")
  BY <1>1, <1>2, <1>3, StepByError DEF Codes
<1>4. CASE r.op \in {"DeleteVolume", "DeleteSnapshot"} /\ Goto(h, "reply")
  <2>1. Fits(r.op, "reply") /\ Secured(r)'
    BY <1>4 DEF Fits, Sharing, Secured, Creations
  <2> QED BY <1>1, <1>2, <1>4, <2>1, StepByGoto
<1>5. ASSUME NEW pc \in NefCalls, Goto(h, pc), Fits(r.op, pc), pc \notin Sharing
      PROVE  HandlerStep(h, r)
  <2>1. pc # "reply"
    BY DEF NefCalls
  <2> QED BY <1>1, <1>2, <1>5, <2>1, StepByGoto
<1>6. CASE r.op = "CreateVolume" /\ Goto(h, "CreateFilesystem")
  BY <1>5, <1>6 DEF NefCalls, Sharing, Fits
<1>7. CASE r.op = "CreateVolumeFromSnapshot" /\ Goto(h, "GetSourceSnapshot")
  BY <1>5, <1>7 DEF NefCalls, Sharing, Fits
<1>8. CASE r.op \in {"CloneVolume", "CreateSnapshot"} /\ Goto(h, "GetSnapshots")
  BY <1>5, <1>8 DEF NefCalls, Sharing, Fits
<1>9. CASE r.op = "DeleteVolume" /\ Goto(h, "DestroyFilesystem")
  BY <1>5, <1>9 DEF NefCalls, Sharing, Fits
<1>10. CASE r.op = "DeleteSnapshot" /\ Goto(h, "DestroySnapshot")
  BY <1>5, <1>10 DEF NefCalls, Sharing, Fits
<1>11. CASE r.op = "ControllerExpandVolume" /\ Goto(h, "UpdateFilesystem")
  BY <1>5, <1>11 DEF NefCalls, Sharing, Fits
<1> QED
  BY <1>1, <1>3, <1>4, <1>6, <1>7, <1>8, <1>9, <1>10, <1>11
  DEF Resolve, Operations, Creations

(* What follows the creation of a volume. *)
LEMMA AfterCreationFits ==
  ASSUME NEW r, r.op \in Creations
  PROVE  /\ AfterCreation(r) \in NefCalls \cup {"reply"}
         /\ Fits(r.op, AfterCreation(r))
  BY DEF AfterCreation, NefCalls, Fits, Sharing

(* createNewVolume makes the filesystem. *)
LEMMA CreateFilesystemStep ==
  ASSUME IInv, NEW h \in Handler, NEW r \in Requests, call[h].req = r,
         CreateFilesystem(h), UNCHANGED answer
  PROVE  HandlerStep(h, r)
<1>1. /\ call[h] \in Call /\ r \in Requests /\ r.vol \in Volume /\ r.size \in Nat
      /\ r.op = "CreateVolume"
  BY ActiveHandler, RequestFields DEF CreateFilesystem, At, CallOK, Fits
<1>2. CASE /\ nef' = NS!CreateFilesystem(nef, r.vol, r.size)
           /\ Applied(h, AfterCreation(r), "Internal")
  <2>1. nef' \in NS!Appliance
    BY <1>1, <1>2, FilesystemType DEF IInv, TypeOK
  <2>2. nef'.vols = nef.vols \cup {r.vol} /\ nef'.snaps = nef.snaps
    BY <1>2 DEF NS!CreateFilesystem, NS!Appliance, IInv, TypeOK
  <2>3. Keeps(r) /\ Secured(r)'
    BY <1>1, <2>2 DEF Keeps, Secured
  <2> QED
    BY <1>1, <1>2, <2>1, <2>3, AfterCreationFits, StepByApplied DEF Codes, Creations
<1>3. CASE UNCHANGED nef /\ Goto(h, "GetFilesystem")
  BY <1>1, <1>3, NefUnchanged, StepByGoto DEF NefCalls, Sharing, Fits
<1> QED BY <1>2, <1>3 DEF CreateFilesystem

(* createNewVolume finds that the volume exists. *)
LEMMA GetFilesystemStep ==
  ASSUME IInv, NEW h \in Handler, NEW r \in Requests, call[h].req = r,
         GetFilesystem(h), UNCHANGED answer
  PROVE  HandlerStep(h, r)
<1>1. call[h] \in Call /\ r \in Requests /\ r.op = "CreateVolume"
  BY ActiveHandler DEF GetFilesystem, At, CallOK, Fits
<1>2. nef' \in NS!Appliance /\ Keeps(r) /\ UNCHANGED nef
  BY <1>1, NefUnchanged DEF GetFilesystem
<1>3. CASE r.vol \in nef.vols /\ Goto(h, AfterCreation(r))
  <2>1. Secured(r)'
    BY <1>1, <1>2, <1>3 DEF Secured
  <2> QED BY <1>1, <1>2, <1>3, <2>1, AfterCreationFits, StepByGoto DEF Creations
<1>4. CASE Finish(h, "Internal") \/ Finish(h, "AlreadyExists")
  BY <1>1, <1>2, <1>4, StepByError DEF Codes
<1> QED BY <1>3, <1>4 DEF GetFilesystem

(* CreateSnapshotOnNS looks for the name. *)
LEMMA GetSnapshotsStep ==
  ASSUME IInv, NEW h \in Handler, NEW r \in Requests, call[h].req = r,
         GetSnapshots(h), UNCHANGED answer
  PROVE  HandlerStep(h, r)
<1>1. call[h] \in Call /\ r.op \in {"CloneVolume", "CreateSnapshot"}
  BY ActiveHandler, RequestFields DEF GetSnapshots, At, CallOK, Fits
<1>2. nef' \in NS!Appliance /\ Keeps(r)
  BY NefUnchanged DEF GetSnapshots
<1>3. CASE Finish(h, "AlreadyExists")
  BY <1>1, <1>2, <1>3, StepByError DEF Codes
<1>4. CASE Goto(h, "CreateSnapshot")
  BY <1>1, <1>2, <1>4, StepByGoto DEF NefCalls, Sharing, Fits
<1> QED BY <1>3, <1>4 DEF GetSnapshots

(* CreateSnapshotOnNS takes the snapshot. *)
LEMMA CreateSnapshotStep ==
  ASSUME IInv, NEW h \in Handler, NEW r \in Requests, call[h].req = r,
         CreateSnapshot(h), UNCHANGED answer
  PROVE  HandlerStep(h, r)
<1>1. /\ call[h] \in Call /\ r.op \in {"CloneVolume", "CreateSnapshot"}
      /\ SnapshotOf(r) \in NS!Snapshot
  BY ActiveHandler, RequestFields DEF CreateSnapshot, At, CallOK, Fits
<1>2. /\ Fits(r.op, "GetSnapshot")
      /\ "GetSnapshot" \in NefCalls \cup {"reply"}
      /\ "GetSnapshot" \notin Sharing \cup {"reply"}
  BY <1>1 DEF NefCalls, Sharing, Fits
<1>3. CASE /\ nef' = NS!CreateSnapshot(nef, SnapshotOf(r))
           /\ Applied(h, "GetSnapshot", "Internal")
  <2>1. nef' \in NS!Appliance
    BY <1>1, <1>3, SnapshotType DEF IInv, TypeOK
  <2>2. Keeps(r)
    BY <1>3 DEF Keeps, NS!CreateSnapshot, NS!Appliance, IInv, TypeOK
  <2> QED BY <1>1, <1>2, <1>3, <2>1, <2>2, StepByApplied DEF Codes
<1>4. CASE UNCHANGED nef /\ Goto(h, "GetSnapshot")
  BY <1>1, <1>2, <1>4, NefUnchanged, StepByGoto
<1>5. CASE UNCHANGED nef /\ Finish(h, "Internal")
  BY <1>1, <1>5, NefUnchanged, StepByError DEF Codes
<1> QED BY <1>3, <1>4, <1>5 DEF CreateSnapshot

(* CreateSnapshotOnNS finds the snapshot that it took. *)
LEMMA GetSnapshotStep ==
  ASSUME IInv, NEW h \in Handler, NEW r \in Requests, call[h].req = r,
         GetSnapshot(h), UNCHANGED answer
  PROVE  HandlerStep(h, r)
<1>1. call[h] \in Call /\ r.op \in {"CloneVolume", "CreateSnapshot"}
  BY ActiveHandler, RequestFields DEF GetSnapshot, At, CallOK, Fits
<1>2. nef' \in NS!Appliance /\ Keeps(r) /\ UNCHANGED nef
  BY NefUnchanged DEF GetSnapshot
<1>3. CASE r.op = "CloneVolume" /\ Goto(h, "CloneSnapshot")
  BY <1>1, <1>2, <1>3, StepByGoto DEF NefCalls, Sharing, Fits
<1>4. CASE /\ r.op = "CreateSnapshot" /\ SnapshotOf(r) \in nef.snaps
           /\ Goto(h, "reply")
  <2>1. Secured(r)' /\ Fits(r.op, "reply")
    BY <1>2, <1>4 DEF Secured, Creations, Fits, Sharing
  <2> QED BY <1>1, <1>2, <1>4, <2>1, StepByGoto
<1>5. CASE Finish(h, "Internal")
  BY <1>1, <1>2, <1>5, StepByError DEF Codes
<1> QED BY <1>1, <1>3, <1>4, <1>5 DEF GetSnapshot

(* createNewVolumeFromSnapshot looks for its source. *)
LEMMA GetSourceSnapshotStep ==
  ASSUME IInv, NEW h \in Handler, NEW r \in Requests, call[h].req = r,
         GetSourceSnapshot(h), UNCHANGED answer
  PROVE  HandlerStep(h, r)
<1>1. call[h] \in Call /\ r.op = "CreateVolumeFromSnapshot"
  BY ActiveHandler, RequestFields DEF GetSourceSnapshot, At, CallOK, Fits
<1>2. nef' \in NS!Appliance /\ Keeps(r)
  BY NefUnchanged DEF GetSourceSnapshot
<1>3. CASE Goto(h, "CloneSnapshot")
  BY <1>1, <1>2, <1>3, StepByGoto DEF NefCalls, Sharing, Fits
<1>4. CASE Finish(h, "NotFound")
  BY <1>1, <1>2, <1>4, StepByError DEF Codes
<1> QED BY <1>3, <1>4 DEF GetSourceSnapshot

(* A volume is cloned, or one of its name is there. *)
LEMMA CloneSnapshotStep ==
  ASSUME IInv, NEW h \in Handler, NEW r \in Requests, call[h].req = r,
         CloneSnapshot(h), UNCHANGED answer
  PROVE  HandlerStep(h, r)
<1>1. /\ call[h] \in Call /\ r.op \in {"CloneVolume", "CreateVolumeFromSnapshot"}
      /\ r.vol \in Volume /\ r.size \in Nat /\ SnapshotOf(r) \in NS!Snapshot
  BY ActiveHandler, RequestFields DEF CloneSnapshot, At, CallOK, Fits
<1>2. CloneError(r) \in Codes \ {"OK"} /\ r.op \in Creations /\ r.op # "CreateSnapshot"
  BY <1>1 DEF CloneError, Codes, Creations
<1>3. CASE /\ nef' = NS!CloneSnapshot(nef, SnapshotOf(r), r.vol, r.size)
           /\ Applied(h, AfterCreation(r), CloneError(r))
  <2>1. nef' \in NS!Appliance
    BY <1>1, <1>3, FilesystemType DEF IInv, TypeOK
  <2>2. nef'.vols = nef.vols \cup {r.vol} /\ nef'.snaps = nef.snaps
    BY <1>3 DEF NS!CloneSnapshot, NS!Appliance, IInv, TypeOK
  <2>3. Keeps(r) /\ Secured(r)'
    BY <1>2, <2>2 DEF Keeps, Secured
  <2> QED BY <1>1, <1>2, <1>3, <2>1, <2>3, AfterCreationFits, StepByApplied
<1>4. CASE UNCHANGED nef /\ r.vol \in nef.vols /\ Goto(h, AfterCreation(r))
  <2>1. Secured(r)'
    BY <1>2, <1>4 DEF Secured
  <2> QED BY <1>1, <1>2, <1>4, <2>1, NefUnchanged, AfterCreationFits, StepByGoto
<1>5. CASE UNCHANGED nef /\ Finish(h, CloneError(r))
  BY <1>1, <1>2, <1>5, NefUnchanged, StepByError
<1> QED BY <1>3, <1>4, <1>5 DEF CloneSnapshot

(* A step of createNfsShare changes only the share, and the volume was     *)
(* secured before.                                                         *)
LEMMA SharingKeeps ==
  ASSUME IInv, NEW r \in Requests, UNCHANGED answer,
         \/ nef' = NS!CreateNfsShare(nef, r.vol, r.acl)
         \/ nef' = NS!DeleteNfsShare(nef, r.vol)
         \/ UNCHANGED nef,
         Secured(r)
  PROVE  nef' \in NS!Appliance /\ Keeps(r) /\ Secured(r)'
<1>1. nef' \in NS!Appliance
  BY RequestFields, ShareType DEF IInv, TypeOK
<1>2. nef'.vols = nef.vols /\ nef'.snaps = nef.snaps
  BY DEF NS!CreateNfsShare, NS!DeleteNfsShare, NS!Appliance, IInv, TypeOK
<1>3. Keeps(r) /\ Secured(r)'
  BY <1>2 DEF Keeps, Secured, Retired, Dropped, Discarded, Sent
<1> QED BY <1>1, <1>3

(* createNfsShare tries to share the volume. *)
LEMMA CreateNfsShareStep ==
  ASSUME IInv, NEW h \in Handler, NEW r \in Requests, call[h].req = r,
         CreateNfsShare(h), UNCHANGED answer
  PROVE  HandlerStep(h, r)
<1>1. /\ call[h] \in Call /\ r.op \in Creations
      /\ Secured(r)
  BY ActiveHandler, RequestFields DEF CreateNfsShare, At, CallOK, Fits, Done, Sharing
<1>2. nef' \in NS!Appliance /\ Keeps(r) /\ Secured(r)'
  BY <1>1, SharingKeeps DEF CreateNfsShare
<1>3. ASSUME NEW pc \in Sharing \cup {"reply"}, Goto(h, pc)
      PROVE  HandlerStep(h, r)
  <2>1. pc \in NefCalls \cup {"reply"} /\ Fits(r.op, pc)
    BY <1>1, <1>3 DEF NefCalls, Sharing, Fits
  <2> QED BY <1>1, <1>2, <1>3, <2>1, StepByGoto
<1>4. CASE Finish(h, "Unknown") \/ FailWith(h, "Unknown")
  BY <1>1, <1>2, <1>4, StepByError DEF Codes
<1> QED BY <1>3, <1>4 DEF CreateNfsShare, Applied, Sharing

(* createNfsShare removes the share that is there. *)
LEMMA DeleteNfsShareStep ==
  ASSUME IInv, NEW h \in Handler, NEW r \in Requests, call[h].req = r,
         DeleteNfsShare(h), UNCHANGED answer
  PROVE  HandlerStep(h, r)
<1>1. /\ call[h] \in Call /\ r.op \in Creations
      /\ Secured(r)
  BY ActiveHandler, RequestFields DEF DeleteNfsShare, At, CallOK, Fits, Done, Sharing
<1>2. nef' \in NS!Appliance /\ Keeps(r) /\ Secured(r)'
  BY <1>1, SharingKeeps DEF DeleteNfsShare
<1>3. ASSUME NEW pc \in Sharing \cup {"reply"}, Goto(h, pc)
      PROVE  HandlerStep(h, r)
  <2>1. pc \in NefCalls \cup {"reply"} /\ Fits(r.op, pc)
    BY <1>1, <1>3 DEF NefCalls, Sharing, Fits
  <2> QED BY <1>1, <1>2, <1>3, <2>1, StepByGoto
<1>4. CASE Finish(h, "Unknown") \/ FailWith(h, "Unknown")
  BY <1>1, <1>2, <1>4, StepByError DEF Codes
<1> QED BY <1>3, <1>4 DEF DeleteNfsShare, Applied, Sharing

(* createNfsShare tries again. *)
LEMMA RecreateNfsShareStep ==
  ASSUME IInv, NEW h \in Handler, NEW r \in Requests, call[h].req = r,
         RecreateNfsShare(h), UNCHANGED answer
  PROVE  HandlerStep(h, r)
<1>1. /\ call[h] \in Call /\ r.op \in Creations
      /\ Secured(r)
  BY ActiveHandler, RequestFields DEF RecreateNfsShare, At, CallOK, Fits, Done, Sharing
<1>2. nef' \in NS!Appliance /\ Keeps(r) /\ Secured(r)'
  BY <1>1, SharingKeeps DEF RecreateNfsShare
<1>3. ASSUME NEW pc \in Sharing \cup {"reply"}, Goto(h, pc)
      PROVE  HandlerStep(h, r)
  <2>1. pc \in NefCalls \cup {"reply"} /\ Fits(r.op, pc)
    BY <1>1, <1>3 DEF NefCalls, Sharing, Fits
  <2> QED BY <1>1, <1>2, <1>3, <2>1, StepByGoto
<1>4. CASE Finish(h, "Unknown") \/ FailWith(h, "Unknown")
  BY <1>1, <1>2, <1>4, StepByError DEF Codes
<1> QED BY <1>3, <1>4 DEF RecreateNfsShare, Applied, Sharing

(* DeleteSnapshot destroys the snapshot of its request. *)
LEMMA DestroySnapshotStep ==
  ASSUME IInv, NEW h \in Handler, NEW r \in Requests, call[h].req = r,
         DestroySnapshot(h), UNCHANGED answer
  PROVE  HandlerStep(h, r)
<1>1. /\ call[h] \in Call /\ r.op = "DeleteSnapshot"
      /\ r.vol \in Volume /\ r.size \in Nat /\ SnapshotOf(r) \in NS!Snapshot
  BY ActiveHandler, RequestFields DEF DestroySnapshot, At, CallOK, Fits
<1>2. Fits(r.op, "reply") /\ Secured(r)'
  BY <1>1 DEF Fits, Sharing, Secured, Creations
<1>3. nef' \in NS!Appliance /\ Keeps(r)
  <2>1. CASE nef' = NS!DestroySnapshot(nef, SnapshotOf(r))
    <3>1. nef' \in NS!Appliance
      BY <1>1, <2>1, SnapshotType DEF IInv, TypeOK
    <3>2. Keeps(r)
      BY <1>1, <2>1 DEF Keeps, NS!DestroySnapshot, NS!Appliance, IInv, TypeOK
    <3> QED BY <3>1, <3>2
  <2>2. CASE UNCHANGED nef
    BY <2>2, NefUnchanged
  <2> QED BY <2>1, <2>2 DEF DestroySnapshot
<1>4. CASE Goto(h, "reply")
  BY <1>1, <1>2, <1>3, <1>4, StepByGoto
<1>5. ASSUME NEW code \in Codes \ {"OK"}, Finish(h, code) \/ FailWith(h, code)
      PROVE  HandlerStep(h, r)
  BY <1>1, <1>3, <1>5, StepByError
<1> QED BY <1>4, <1>5 DEF DestroySnapshot, Applied, Codes

(* ControllerExpandVolume sets the quota. *)
LEMMA UpdateFilesystemStep ==
  ASSUME IInv, NEW h \in Handler, NEW r \in Requests, call[h].req = r,
         UpdateFilesystem(h), UNCHANGED answer
  PROVE  HandlerStep(h, r)
<1>1. /\ call[h] \in Call /\ r.op = "ControllerExpandVolume"
      /\ r.vol \in Volume /\ r.size \in Nat /\ SnapshotOf(r) \in NS!Snapshot
  BY ActiveHandler, RequestFields DEF UpdateFilesystem, At, CallOK, Fits
<1>2. Fits(r.op, "reply") /\ Secured(r)'
  BY <1>1 DEF Fits, Sharing, Secured, Creations
<1>3. nef' \in NS!Appliance /\ Keeps(r)
  <2>1. CASE nef' = NS!UpdateFilesystem(nef, r.vol, r.size)
    <3>1. nef' \in NS!Appliance
      BY <1>1, <2>1, FilesystemType DEF IInv, TypeOK
    <3>2. Keeps(r)
      BY <1>1, <2>1 DEF Keeps, NS!UpdateFilesystem, NS!Appliance, IInv, TypeOK
    <3> QED BY <3>1, <3>2
  <2>2. CASE UNCHANGED nef
    BY <2>2, NefUnchanged
  <2> QED BY <2>1, <2>2 DEF UpdateFilesystem
<1>4. CASE Goto(h, "reply")
  BY <1>1, <1>2, <1>3, <1>4, StepByGoto
<1>5. ASSUME NEW code \in Codes \ {"OK"}, Finish(h, code) \/ FailWith(h, code)
      PROVE  HandlerStep(h, r)
  BY <1>1, <1>3, <1>5, StepByError
<1> QED BY <1>4, <1>5 DEF UpdateFilesystem, Applied, Codes

(* A promotion keeps the volumes, and the snapshots of all others. *)
LEMMA PromotionKeeps ==
  ASSUME NEW n \in NS!Appliance, NEW v \in Volume, NEW m \in NS!AfterPromotion(n, v)
  PROVE  /\ m.vols = n.vols
         /\ \A s \in n.snaps : s.parent # v => s \in m.snaps
<1>1. ASSUME NEW c, NEW M \in SUBSET NS!SnapshotsOf(n, v), m = NS!Promote(n, v, c, M)
      PROVE  /\ m.vols = n.vols
             /\ \A s \in n.snaps : s.parent # v => s \in m.snaps
  <2>1. /\ m.vols = n.vols
        /\ m.snaps = (n.snaps \ M) \cup {NS!Moved(s, c) : s \in M}
    BY <1>1 DEF NS!Promote, NS!Appliance
  <2>2. \A s \in M : s.parent = v
    BY DEF NS!SnapshotsOf
  <2> QED BY <2>1, <2>2
<1>2. CASE m = n
  BY <1>2
<1> QED BY <1>1, <1>2 DEF NS!AfterPromotion

(* DeleteVolume destroys the volume of its request. *)
LEMMA DestroyFilesystemStep ==
  ASSUME IInv, NEW h \in Handler, NEW r \in Requests, call[h].req = r,
         DestroyFilesystem(h), UNCHANGED answer
  PROVE  HandlerStep(h, r)
<1>1. call[h] \in Call /\ r.op = "DeleteVolume" /\ r.vol \in Volume
  BY ActiveHandler, RequestFields DEF DestroyFilesystem, At, CallOK, Fits
<1>2. Fits(r.op, "reply") /\ Secured(r)'
  BY <1>1 DEF Fits, Sharing, Secured, Creations
<1>3. nef' \in NS!Appliance /\ Keeps(r)
  <2>1. ASSUME NEW n \in NS!AfterPromotion(nef, r.vol),
               nef' = NS!Remove(n, r.vol) \/ nef' = n
        PROVE  nef' \in NS!Appliance /\ Keeps(r)
    <3>1. n \in NS!Appliance
      BY <1>1, PromotionType DEF IInv, TypeOK
    <3>2. nef' \in NS!Appliance
      BY <1>1, <2>1, <3>1, FilesystemType, 0 \in Nat
    <3>3. /\ n.vols = nef.vols
          /\ \A s \in nef.snaps : s.parent # r.vol => s \in n.snaps
      BY <1>1, PromotionKeeps DEF IInv, TypeOK
    <3>4. Keeps(r)
      BY <1>1, <2>1, <3>3 DEF Keeps, NS!Remove, NS!SnapshotsOf
    <3> QED BY <3>2, <3>4
  <2>2. CASE UNCHANGED nef
    BY <2>2, NefUnchanged
  <2> QED BY <2>1, <2>2 DEF DestroyFilesystem
<1>4. CASE Goto(h, "reply")
  BY <1>1, <1>2, <1>3, <1>4, StepByGoto
<1>5. CASE FailWith(h, "Internal") \/ Finish(h, "Internal")
  BY <1>1, <1>3, <1>5, StepByError DEF Codes
<1> QED BY <1>4, <1>5 DEF DestroyFilesystem, Applied

(* No failed call makes a handler answer OK. *)
LEMMA NefFailsStep ==
  ASSUME IInv, NEW h \in Handler, NEW r \in Requests, call[h].req = r,
         NefFails(h), UNCHANGED answer
  PROVE  HandlerStep(h, r)
<1>1. call[h] \in Call
  BY ActiveHandler DEF NefFails, NefCalls
<1>2. ErrorCode(h) \in Codes \ {"OK"}
  BY DEF ErrorCode, CloneError, Codes, At, NefFails
<1> QED BY <1>1, <1>2, NefUnchanged, StepByError DEF NefFails

(* Every step of a handler. *)
LEMMA CallNefStep ==
  ASSUME IInv, NEW h \in Handler, CallNef(h)
  PROVE  call[h] \in Call /\ HandlerStep(h, call[h].req)
<1>1. call[h].pc # "idle"
  BY DEF CallNef, Resolve, CreateFilesystem, GetFilesystem, GetSnapshots,
    CreateSnapshot, GetSnapshot, GetSourceSnapshot, CloneSnapshot, CreateNfsShare,
    DeleteNfsShare, RecreateNfsShare, DestroyFilesystem, DestroySnapshot,
    UpdateFilesystem, NefFails, NefCalls, At
<1>2. call[h] \in Call /\ call[h].req \in Requests
  BY <1>1, ActiveHandler
<1>3. PICK r \in Requests : r = call[h].req
  BY <1>2
<1>4. HandlerStep(h, r)
  BY <1>3, ResolveStep, CreateFilesystemStep, GetFilesystemStep, GetSnapshotsStep,
    CreateSnapshotStep, GetSnapshotStep, GetSourceSnapshotStep, CloneSnapshotStep,
    CreateNfsShareStep, DeleteNfsShareStep, RecreateNfsShareStep,
    DestroyFilesystemStep, DestroySnapshotStep, UpdateFilesystemStep, NefFailsStep
  DEF CallNef
<1> QED BY <1>2, <1>3, <1>4

-----------------------------------------------------------------------------
(* The invariant is inductive. *)

(* What was asked for stays asked for, and what is secured stays secured,  *)
(* as long as the appliance loses only what some request in progress       *)
(* deletes.                                                                *)
LEMMA SentStays ==
  ASSUME TypeOK, NEW r \in Requests, Next, Sent(r)
  PROVE  Sent(r)'
  BY DEF Next, Send, PodWrites, CallNef, Reply, Timeout, Crash, Sent, TypeOK

(* What was to be deleted stays to be deleted. *)
LEMMA DroppedStays ==
  ASSUME TypeOK, Next
  PROVE  /\ \A v \in Volume : Retired(v) => Retired(v)'
         /\ \A s \in NS!Snapshot : Dropped(s) => Dropped(s)'
  BY SentStays DEF Retired, Dropped, Discarded

(* What a creation has secured survives every step that deletes only what  *)
(* is to be deleted.                                                       *)
LEMMA SecuredStays ==
  ASSUME IInv, Next, NEW q \in Requests, Sent(q), Keeps(q) \/ UNCHANGED <<nef.vols, nef.snaps>>,
         NEW r \in Requests, Secured(r)
  PROVE  Secured(r)'
<1>1. q.op = "DeleteVolume" => Retired(q.vol)'
  BY SentStays DEF Retired, IInv
<1>2. q.op = "DeleteSnapshot" => Discarded(SnapshotOf(q))'
  BY SentStays DEF Discarded, IInv
<1>3. \A v \in Volume : Retired(v) => Retired(v)'
  BY DroppedStays DEF IInv
<1>4. Dropped(SnapshotOf(r)) => Dropped(SnapshotOf(r))'
  BY DroppedStays, RequestFields DEF IInv
<1>5. r.op \in Creations => r.vol \in nef'.vols \/ Retired(r.vol)'
  BY <1>1, <1>3, RequestFields DEF Secured, Keeps
<1>6. r.op = "CreateSnapshot" =>
        SnapshotOf(r) \in nef'.snaps \/ Dropped(SnapshotOf(r))'
  BY <1>1, <1>2, <1>4, RequestFields DEF Secured, Keeps, Dropped
<1> QED BY <1>5, <1>6 DEF Secured

(* A step keeps the invariant about all requests when it keeps it about    *)
(* those that are answered by it.                                          *)
LEMMA Preserved ==
  ASSUME IInv, Next,
         \/ UNCHANGED <<nef.vols, nef.snaps>>
         \/ \E q \in Requests : Sent(q) /\ Keeps(q)
  PROVE  /\ \A r \in Requests : Secured(r) => Secured(r)'
         /\ \A c \in Call : CallOK(c) => CallOK(c)'
<1>1. ASSUME NEW r \in Requests, Secured(r), ~Sent(r), UNCHANGED <<nef.vols, nef.snaps>>
      PROVE  Secured(r)'
  <2>1. /\ \A v \in Volume : Retired(v) => Retired(v)'
        /\ \A s \in NS!Snapshot : Dropped(s) => Dropped(s)'
    BY DroppedStays DEF IInv
  <2> QED BY <1>1, <2>1, RequestFields DEF Secured
<1>2. ASSUME NEW r \in Requests, Secured(r)
      PROVE  Secured(r)'
  BY <1>1, <1>2, SecuredStays
<1>3. ASSUME NEW c \in Call, CallOK(c)
      PROVE  CallOK(c)'
  BY <1>2, <1>3, SentStays DEF CallOK, Call, IInv
<1> QED BY <1>2, <1>3

(* Before the first request. *)
LEMMA InitOK == Init => IInv
<1> SUFFICES ASSUME Init PROVE IInv
  OBVIOUS
<1>1. TypeOK
  BY BlankType, ConstantsOK DEF Init, TypeOK
<1>2. \A h \in Handler : call[h] = Idle
  BY DEF Init
<1>3. \A r \in Requests : ~Granted(r)
  BY DEF Init, Granted
<1> QED BY <1>1, <1>2, <1>3 DEF IInv

(* The CO makes a request or repeats it. *)
LEMMA SendOK ==
  ASSUME IInv, NEW r \in Requests, NEW h \in Handler, Send(r, h)
  PROVE  IInv'
<1>0. Next
  BY DEF Next
<1> DEFINE new == [req |-> r, pc |-> "Resolve", code |-> "OK", live |-> TRUE]
<1>1. new \in Call
  BY DEF Call, NefCalls, Codes
<1>2. TypeOK'
  <2>1. call' \in [Handler -> Call \cup {Idle}]
    BY <1>1 DEF Send, IInv, TypeOK
  <2>2. SourceData(r) \in SUBSET WriteId
    BY RequestFields DEF SourceData, IInv, TypeOK, NS!Appliance
  <2>3. asked' \in [Requests -> SUBSET WriteId]
    BY <2>2 DEF Send, IInv, TypeOK
  <2> QED BY <2>1, <2>3 DEF Send, IInv, TypeOK
<1>3. /\ \A q \in Requests : Secured(q) => Secured(q)'
      /\ \A c \in Call : CallOK(c) => CallOK(c)'
  BY <1>0, Preserved DEF Send
<1>4. CallOK(new)'
  BY DEF CallOK, Fits, Done, Sharing, Sent, Send, IInv, TypeOK
<1>5. \A g \in Handler : call'[g] = IF g = h THEN new ELSE call[g]
  BY DEF Send, IInv, TypeOK
<1>6. \A q \in Requests : Granted(q)' => Granted(q)
  BY DEF Granted, Send, IInv, TypeOK
<1>7. (\A g \in Handler : call[g] # Idle => CallOK(call[g]))'
  <2> SUFFICES ASSUME NEW g \in Handler, (call[g] # Idle)'
               PROVE  CallOK(call[g])'
    OBVIOUS
  <2>1. CASE g = h
    BY <1>4, <1>5, <2>1
  <2>2. CASE g # h
    BY <1>3, <1>5, <2>2 DEF IInv, TypeOK
  <2> QED BY <2>1, <2>2
<1> QED BY <1>2, <1>3, <1>6, <1>7 DEF IInv

(* A pod writes to a volume. *)
LEMMA PodWritesOK ==
  ASSUME IInv, NEW v \in Volume, NEW w \in WriteId, PodWrites(v, w)
  PROVE  IInv'
<1>0. Next
  BY DEF Next
<1>1. nef' \in NS!Appliance
  BY FilesystemType, 0 \in Nat DEF PodWrites, IInv, TypeOK
<1>2. UNCHANGED <<nef.vols, nef.snaps>>
  BY DEF PodWrites, NS!WriteData, NS!Appliance, IInv, TypeOK
<1>3. /\ \A q \in Requests : Secured(q) => Secured(q)'
      /\ \A c \in Call : CallOK(c) => CallOK(c)'
  BY <1>0, <1>2, Preserved
<1>4. TypeOK'
  BY <1>1 DEF PodWrites, IInv, TypeOK
<1>5. (\A g \in Handler : call[g] # Idle => CallOK(call[g]))'
  <2> SUFFICES ASSUME NEW g \in Handler, (call[g] # Idle)'
               PROVE  CallOK(call[g])'
    OBVIOUS
  <2> QED BY <1>3 DEF PodWrites, IInv, TypeOK
<1> QED BY <1>3, <1>4, <1>5 DEF IInv, PodWrites, Granted

(* A handler calls the appliance. *)
LEMMA CallNefOK ==
  ASSUME IInv, NEW h \in Handler, CallNef(h)
  PROVE  IInv'
<1>0. Next
  BY DEF Next
<1>1. call[h] \in Call /\ HandlerStep(h, call[h].req)
  BY CallNefStep
<1>2. PICK r \in Requests : r = call[h].req /\ HandlerStep(h, r)
  BY <1>1 DEF Call
<1>3. PICK pc \in NefCalls \cup {"reply"}, code \in Codes :
        /\ Moves(h, pc, code)
        /\ Fits(r.op, pc)
        /\ Done(pc, code) => Secured(r)'
  BY <1>2 DEF HandlerStep
<1> DEFINE new == [req |-> r, pc |-> pc, code |-> code, live |-> call[h].live]
<1>4. new \in Call
  BY <1>1 DEF Call
<1>5. \A g \in Handler : call'[g] = IF g = h THEN new ELSE call[g]
  <2>1. ASSUME NEW c \in Call
        PROVE  [[c EXCEPT !.pc = pc] EXCEPT !.code = code]
                 = [req |-> c.req, pc |-> pc, code |-> code, live |-> c.live]
    <3>1. [c EXCEPT !.pc = pc]
            = [req |-> c.req, pc |-> pc, code |-> c.code, live |-> c.live]
      BY DEF Call
    <3>2. [c EXCEPT !.pc = pc] \in Call
      BY <3>1 DEF Call
    <3>3. \A d \in Call :
            [d EXCEPT !.code = code]
              = [req |-> d.req, pc |-> d.pc, code |-> code, live |-> d.live]
      BY DEF Call
    <3> QED BY <3>1, <3>2, <3>3
  <2>2. call' = [call EXCEPT ![h] = [[@ EXCEPT !.pc = pc] EXCEPT !.code = code]]
    BY <1>1, <1>3 DEF Moves, IInv, TypeOK
  <2>3. [[call[h] EXCEPT !.pc = pc] EXCEPT !.code = code] = new
    BY <1>1, <1>2, <2>1
  <2> QED BY <2>2, <2>3 DEF IInv, TypeOK
<1>6. CallOK(call[h])
  BY <1>1 DEF IInv, Idle, Call, NefCalls
<1>7. Sent(r) /\ Keeps(r)
  BY <1>2, <1>6 DEF CallOK, HandlerStep
<1>8. /\ \A q \in Requests : Secured(q) => Secured(q)'
      /\ \A c \in Call : CallOK(c) => CallOK(c)'
  BY <1>0, <1>7, Preserved
<1>9. CallOK(new)'
  BY <1>0, <1>3, <1>7, SentStays DEF CallOK, IInv
<1>10. TypeOK'
  <2>1. call' \in [Handler -> Call \cup {Idle}]
    BY <1>3, <1>4, <1>5 DEF Moves, IInv, TypeOK
  <2> QED BY <1>2, <2>1 DEF HandlerStep, CallNef, IInv, TypeOK
<1>11. (\A g \in Handler : call[g] # Idle => CallOK(call[g]))'
  <2> SUFFICES ASSUME NEW g \in Handler, (call[g] # Idle)'
               PROVE  CallOK(call[g])'
    OBVIOUS
  <2>1. CASE g = h
    BY <1>5, <1>9, <2>1
  <2>2. CASE g # h
    BY <1>5, <1>8, <2>2 DEF IInv, TypeOK
  <2> QED BY <2>1, <2>2
<1> QED BY <1>8, <1>10, <1>11 DEF IInv, CallNef, Granted

(* A handler returns, with OK only when it has secured what was asked for. *)
LEMMA ReplyOK ==
  ASSUME IInv, NEW h \in Handler, Reply(h)
  PROVE  IInv'
<1>0. Next
  BY DEF Next
<1>1. call[h] \in Call /\ call[h].req \in Requests /\ CallOK(call[h])
  BY ActiveHandler DEF Reply, At
<1>2. /\ \A q \in Requests : Secured(q) => Secured(q)'
      /\ \A c \in Call : CallOK(c) => CallOK(c)'
  BY <1>0, Preserved DEF Reply
<1>3. TypeOK'
  BY <1>1 DEF Reply, IInv, TypeOK
<1>4. (\A g \in Handler : call[g] # Idle => CallOK(call[g]))'
  <2> SUFFICES ASSUME NEW g \in Handler, (call[g] # Idle)'
               PROVE  CallOK(call[g])'
    OBVIOUS
  <2> QED BY <1>2 DEF Reply, IInv, TypeOK
<1>5. ASSUME NEW q \in Requests, Granted(q)'
      PROVE  Secured(q)
  <2>1. CASE Granted(q)
    BY <2>1 DEF IInv
  <2>2. CASE q = call[h].req /\ call[h].code = "OK"
    BY <1>1, <2>2 DEF CallOK, Done, Reply, At
  <2> QED BY <1>1, <1>5, <2>1, <2>2 DEF Reply, Granted, IInv, TypeOK
<1> QED BY <1>2, <1>3, <1>4, <1>5 DEF IInv

(* A deadline expires and the handler runs on. *)
LEMMA TimeoutOK ==
  ASSUME IInv, NEW h \in Handler, Timeout(h)
  PROVE  IInv'
<1>0. Next
  BY DEF Next
<1>1. call[h] \in Call /\ CallOK(call[h])
  BY DEF Timeout, IInv, TypeOK, Idle
<1>2. PICK new \in Call :
        /\ new = [call[h] EXCEPT !.live = FALSE]
        /\ new.req = call[h].req /\ new.pc = call[h].pc /\ new.code = call[h].code
  <2>1. \A c \in Call :
          LET d == [c EXCEPT !.live = FALSE]
          IN  d \in Call /\ d.req = c.req /\ d.pc = c.pc /\ d.code = c.code
    BY DEF Call
  <2> QED BY <1>1, <2>1
<1>3. /\ \A q \in Requests : Secured(q) => Secured(q)'
      /\ \A c \in Call : CallOK(c) => CallOK(c)'
  BY <1>0, Preserved DEF Timeout
<1>4. CallOK(new)'
  <2>1. CallOK(new)
    BY <1>1, <1>2 DEF CallOK
  <2> QED BY <1>3, <2>1
<1>5. \A g \in Handler : call'[g] = IF g = h THEN new ELSE call[g]
  BY <1>2 DEF Timeout, IInv, TypeOK
<1>6. TypeOK'
  <2>1. call' \in [Handler -> Call \cup {Idle}]
    BY <1>2 DEF Timeout, IInv, TypeOK
  <2>2. faults' \in 0 .. MaxFaults
    BY ConstantsOK DEF Timeout, IInv, TypeOK
  <2> QED BY <2>1, <2>2 DEF Timeout, IInv, TypeOK
<1>7. (\A g \in Handler : call[g] # Idle => CallOK(call[g]))'
  <2> SUFFICES ASSUME NEW g \in Handler, (call[g] # Idle)'
               PROVE  CallOK(call[g])'
    OBVIOUS
  <2>1. CASE g = h
    BY <1>4, <1>5, <2>1
  <2>2. CASE g # h
    BY <1>3, <1>5, <2>2 DEF IInv, TypeOK
  <2> QED BY <2>1, <2>2
<1>8. \A q \in Requests : Granted(q)' => Granted(q)
  BY DEF Granted, Timeout, IInv, TypeOK
<1> QED BY <1>3, <1>6, <1>7, <1>8 DEF IInv

(* The driver restarts. *)
LEMMA CrashOK ==
  ASSUME IInv, Crash
  PROVE  IInv'
<1>0. Next
  BY DEF Next
<1>1. TypeOK'
  BY ConstantsOK DEF Crash, IInv, TypeOK
<1>2. \A q \in Requests : Secured(q) => Secured(q)'
  BY <1>0, Preserved DEF Crash
<1>3. \A q \in Requests : Granted(q)' => Granted(q)
  BY DEF Granted, Crash, IInv, TypeOK
<1>4. \A g \in Handler : call'[g] = Idle
  BY DEF Crash
<1> QED BY <1>1, <1>2, <1>3, <1>4 DEF IInv

(* Nothing happens. *)
LEMMA Stutter == IInv /\ UNCHANGED vars => IInv'
  BY DEF IInv, TypeOK, vars, CallOK, Secured, Sent, Granted, Retired, Dropped,
    Discarded

(* The invariant holds in every reachable state. *)
THEOREM Invariance == Spec => []IInv
<1>1. IInv /\ [Next]_vars => IInv'
  BY SendOK, PodWritesOK, CallNefOK, ReplyOK, TimeoutOK, CrashOK, Stutter DEF Next
<1> QED BY InitOK, <1>1, PTL DEF Spec

-----------------------------------------------------------------------------
(* The theorems. *)

(* Every variable keeps its type: the handlers leave the appliance         *)
(* well-formed, and each is idle or between two calls of a request.        *)
THEOREM TypeCorrect == Spec => []TypeOK
<1>1. IInv => TypeOK
  BY DEF IInv
<1> QED BY Invariance, <1>1, PTL

(* A volume whose creation CreateVolume answered OK is on the appliance    *)
(* until its deletion is asked for, whatever fails, is lost or times out,  *)
(* for any number of handlers, volumes and requests.                       *)
THEOREM NoVolumeLost == Spec => []GrantedVolumeExists
<1>1. IInv => GrantedVolumeExists
  BY DEF IInv, Secured, GrantedVolumeExists
<1> QED BY Invariance, <1>1, PTL

(* A snapshot that CreateSnapshot answered OK is on the appliance until    *)
(* its deletion, or that of its volume, is asked for.                      *)
THEOREM NoSnapshotLost == Spec => []GrantedSnapshotExists
<1>1. IInv => GrantedSnapshotExists
  BY DEF IInv, Secured, GrantedSnapshotExists
<1> QED BY Invariance, <1>1, PTL
=============================================================================
