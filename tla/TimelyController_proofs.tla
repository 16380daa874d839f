------------------------ MODULE TimelyController_proofs ------------------------
(***************************************************************************)
(* Proofs about ControllerServer as long as no deadline of the CO expires: *)
(* every handler is then listened to until it answers, so that a sidecar's *)
(* rule of one call per object at a time is a rule about handlers, too.    *)
(***************************************************************************)
EXTENDS ControllerServer_proofs

-----------------------------------------------------------------------------
(* The layers of the invariant.                                            *)

(* A handler is working on a request.                                      *)
Active(h) == call[h] # Idle

(* A creation in progress, or a CreateSnapshot, is not being undone. *)
Unopposed(r) ==
  /\ r.op \in Creations => ~Retired(r.vol)
  /\ r.op = "CreateSnapshot" => ~Discarded(SnapshotOf(r))

(* Who waits has one handler that works on its object, and no handler      *)
(* works for nobody.                                                       *)
Attended ==
  /\ \A h \in Handler : Active(h) =>
       /\ call[h].live
       /\ answer[call[h].req] = "waiting"
       /\ Unopposed(call[h].req)
  /\ \A g, h \in Handler :
       Active(g) /\ Active(h) /\ g # h => ~SameObject(call[g].req, call[h].req)
  /\ \A r \in Requests :
       answer[r] = "waiting" => \E h \in Handler : Active(h) /\ call[h].req = r

(* A handler is about to answer OK.                                        *)
Succeeds(h) == call[h].pc = "reply" /\ call[h].code = "OK"

(* It was answered OK, or is about to be. *)
Assured(r) ==
  Granted(r) \/ \E h \in Handler : call[h].req = r /\ Succeeds(h)

(* A volume that was, or is about to be, reported deleted is not there.    *)
VolumesGone ==
  \A r \in Requests : r.op = "DeleteVolume" /\ Assured(r) => r.vol \notin nef.vols

-----------------------------------------------------------------------------
(* Snapshots. *)

(* Some request makes the volume from a snapshot or another volume.        *)
IsCopy(v) == \E r \in Requests : r.op \in Copying /\ r.vol = v

(* Hypothesis: no copy is deleted, and no snapshot of one. In a chain of   *)
(* copies a snapshot that was reported deleted can come back: the          *)
(* deletion of the first volume hands it on (796) and fails, and the       *)
(* deletion of the copy hands it back.                                     *)
OriginalsOnly ==
  \A r \in Requests : r.op \in {"DeleteVolume", "DeleteSnapshot"} => ~IsCopy(r.vol)

(* Hypothesis: no user names a snapshot like those the driver makes for    *)
(* itself when it clones a volume (700).                                   *)
NamesApart == \A v \in Volume : CloneSnapshotName(v) \notin UserSnapName

(* Snapshots belong to volumes that are there, and an origin leads from a  *)
(* copy, or to one after a promotion.                                      *)
Lineage ==
  /\ \A s \in nef.snaps : s.parent \in nef.vols
  /\ \A v \in Volume :
       nef.origin[v] # NoSnapshot => IsCopy(v) \/ IsCopy(nef.origin[v].parent)

(* A snapshot that was, or is about to be, reported deleted is not there.  *)
SnapshotsGone ==
  \A r \in Requests :
    r.op = "DeleteSnapshot" /\ Assured(r) => SnapshotOf(r) \notin nef.snaps

(* CloneVolume has made its snapshot once it goes on to clone it.          *)
CloneHasSource ==
  \A h \in Handler :
    /\ call[h].req \in Requests /\ call[h].req.op = "CloneVolume"
    /\ call[h].pc = "CloneSnapshot" \/ Done(call[h].pc, call[h].code)
    => SnapshotOf(call[h].req) \in nef.snaps \/ Dropped(SnapshotOf(call[h].req))

-----------------------------------------------------------------------------
(* Sizes and shares. *)

(* Hypothesis: the creations of a volume that need not compare sizes, as   *)
(* they copy or ask for none, ask for the size of the others.              *)
SizesAgree ==
  \A q, r \in Requests :
    /\ q.op \in Creations /\ r.op \in Creations /\ q.vol = r.vol
    /\ q.op \in Copying \/ q.size = 0
    => q.size = r.size

(* A creation that found or made its filesystem.                           *)
Created(r) ==
  /\ r.op \in Creations
  /\ Granted(r) \/ \E h \in Handler : call[h].req = r /\ Done(call[h].pc, call[h].code)

(* The quota of a volume comes from an expansion of it or a creation, and  *)
(* in the latter case it is what every successful creation asked for.      *)
QuotaKnown ==
  \A v \in nef.vols : ~Retired(v) =>
    \/ v \in Existing /\ nef.quota[v] = 0
    \/ \E e \in Requests :
         /\ e.op = "ControllerExpandVolume" /\ e.vol = v /\ Sent(e)
         /\ nef.quota[v] = e.size
    \/ /\ \E q \in Requests :
            q.op \in Creations /\ q.vol = v /\ nef.quota[v] = q.size
       /\ \A r \in Requests : Created(r) /\ r.vol = v => nef.quota[v] = r.size

(* No volume is smaller than what was promised.                            *)
QuotaEnough ==
  \A r \in Requests :
    /\ Created(r) \/ (r.op = "ControllerExpandVolume" /\ Assured(r))
    /\ ~Retired(r.vol)
    => nef.quota[r.vol] >= r.size

(* An expansion in progress does not shrink its volume.                    *)
Growing ==
  /\ \A r \in Requests :
       r.op = "ControllerExpandVolume" /\ Sent(r) => Known(r.vol)
  /\ \A h \in Handler :
       LET r == call[h].req IN
       /\ call[h].pc \in {"Resolve", "UpdateFilesystem"}
       /\ r.op = "ControllerExpandVolume" /\ r.vol \in nef.vols /\ ~Retired(r.vol)
       => nef.quota[r.vol] <= r.size

(* Hypothesis: a volume is asked for in one way only. A second creation    *)
(* with another ACL shares the volume anew, and in between it is not.      *)
OneCreation ==
  \A q, r \in Requests :
    q.op \in Creations /\ r.op \in Creations /\ q.vol = r.vol => q = r

(* A volume whose creation succeeded is shared with whom it asked for.     *)
Shared ==
  \A r \in Requests :
    r.op \in Creations /\ r.acl # NoShare /\ Assured(r) /\ ~Retired(r.vol)
      => nef.share[r.vol] = r.acl

-----------------------------------------------------------------------------
(***************************************************************************)
(* What the calls to the appliance do, one field at a time.                *)
(***************************************************************************)

(* A filesystem appears. *)
LEMMA CreationFields ==
  ASSUME NEW n \in NS!Appliance, NEW v \in Volume, NEW q \in Nat
  PROVE  /\ LET m == NS!CreateFilesystem(n, v, q) IN
              /\ m.vols = n.vols \cup {v} /\ m.snaps = n.snaps
              /\ m.quota = [n.quota EXCEPT ![v] = q]
              /\ m.share = n.share /\ m.origin = n.origin
         /\ \A s \in NS!Snapshot :
              LET m == NS!CloneSnapshot(n, s, v, q) IN
              /\ m.vols = n.vols \cup {v} /\ m.snaps = n.snaps
              /\ m.quota = [n.quota EXCEPT ![v] = q]
              /\ m.share = n.share /\ m.origin = [n.origin EXCEPT ![v] = s]
  BY DEF NS!CreateFilesystem, NS!CloneSnapshot, NS!Appliance

(* A snapshot appears or goes. *)
LEMMA SnapshotFields ==
  ASSUME NEW n \in NS!Appliance, NEW s \in NS!Snapshot
  PROVE  /\ LET m == NS!CreateSnapshot(n, s) IN
              /\ m.snaps = n.snaps \cup {s}
              /\ m.vols = n.vols /\ m.quota = n.quota
              /\ m.share = n.share /\ m.origin = n.origin
         /\ LET m == NS!DestroySnapshot(n, s) IN
              /\ m.snaps = n.snaps \ {s}
              /\ m.vols = n.vols /\ m.quota = n.quota
              /\ m.share = n.share /\ m.origin = n.origin
  BY DEF NS!CreateSnapshot, NS!DestroySnapshot, NS!Appliance

(* A share is made. *)
LEMMA ShareFields ==
  ASSUME NEW n \in NS!Appliance, NEW v \in Volume, NEW l \in AccessList \cup {NoShare}
  PROVE  LET m == NS!CreateNfsShare(n, v, l) IN
         /\ m.share = [n.share EXCEPT ![v] = l]
         /\ m.vols = n.vols /\ m.snaps = n.snaps
         /\ m.quota = n.quota /\ m.origin = n.origin
  BY DEF NS!CreateNfsShare, NS!Appliance

(* A share is removed. *)
LEMMA UnshareFields ==
  ASSUME NEW n \in NS!Appliance, NEW v \in Volume
  PROVE  LET m == NS!DeleteNfsShare(n, v) IN
         /\ m.share = [n.share EXCEPT ![v] = NoShare]
         /\ m.vols = n.vols /\ m.snaps = n.snaps
         /\ m.quota = n.quota /\ m.origin = n.origin
  BY DEF NS!DeleteNfsShare, NS!Appliance

(* A quota is set. *)
LEMMA QuotaFields ==
  ASSUME NEW n \in NS!Appliance, NEW v \in Volume, NEW q \in Nat
  PROVE  LET m == NS!UpdateFilesystem(n, v, q) IN
         /\ m.quota = [n.quota EXCEPT ![v] = q]
         /\ m.vols = n.vols /\ m.snaps = n.snaps
         /\ m.share = n.share /\ m.origin = n.origin
  BY DEF NS!UpdateFilesystem, NS!Appliance

(* A filesystem goes. *)
LEMMA RemovalFields ==
  ASSUME NEW n \in NS!Appliance, NEW v \in Volume
  PROVE  LET m == NS!Remove(n, v) IN
         /\ m.vols = n.vols \ {v}
         /\ m.snaps = {s \in n.snaps : s.parent # v}
         /\ m.quota = [n.quota EXCEPT ![v] = 0]
         /\ m.share = [n.share EXCEPT ![v] = NoShare]
         /\ m.origin = [n.origin EXCEPT ![v] = NoSnapshot]
  BY DEF NS!Remove, NS!SnapshotsOf, NS!Appliance

(* A clone is promoted: it takes over snapshots of its source. *)
LEMMA PromotionFields ==
  ASSUME NEW n \in NS!Appliance, NEW v \in Volume, NEW m \in NS!AfterPromotion(n, v)
  PROVE  /\ m.vols = n.vols /\ m.quota = n.quota /\ m.share = n.share
         /\ \/ m.snaps = n.snaps /\ m.origin = n.origin
            \/ \E c \in NS!Clones(n, v), M \in SUBSET NS!SnapshotsOf(n, v) :
                 /\ \A s \in M : NS!Moved(s, c) \notin n.snaps
                 /\ m.snaps = (n.snaps \ M) \cup {NS!Moved(s, c) : s \in M}
                 /\ m.origin =
                      [u \in Volume |->
                         IF u = c THEN n.origin[v]
                         ELSE IF u = v THEN NS!Moved(n.origin[c], c)
                         ELSE IF n.origin[u] \in M THEN NS!Moved(n.origin[u], c)
                         ELSE n.origin[u]]
<1>1. CASE m = n
  BY <1>1
<1>2. ASSUME NEW c \in NS!Clones(n, v), NEW M \in SUBSET NS!SnapshotsOf(n, v),
             NS!Promotable(n, v, c, M), m = NS!Promote(n, v, c, M)
      PROVE  /\ m.vols = n.vols /\ m.quota = n.quota /\ m.share = n.share
             /\ \A s \in M : NS!Moved(s, c) \notin n.snaps
             /\ m.snaps = (n.snaps \ M) \cup {NS!Moved(s, c) : s \in M}
             /\ m.origin =
                  [u \in Volume |->
                     IF u = c THEN n.origin[v]
                     ELSE IF u = v THEN NS!Moved(n.origin[c], c)
                     ELSE IF n.origin[u] \in M THEN NS!Moved(n.origin[u], c)
                     ELSE n.origin[u]]
  BY <1>2 DEF NS!Promote, NS!Promotable, NS!MayMove, NS!NamesFree, NS!Appliance
<1>3. CASE m # n
  <2>1. PICK p \in NS!Clones(n, v) \X SUBSET NS!SnapshotsOf(n, v) :
          NS!Promotable(n, v, p[1], p[2]) /\ m = NS!Promote(n, v, p[1], p[2])
    BY <1>3 DEF NS!AfterPromotion
  <2>2. p[1] \in NS!Clones(n, v) /\ p[2] \in SUBSET NS!SnapshotsOf(n, v)
    BY <2>1
  <2> QED BY <2>1, <2>2, <1>2
<1> QED BY <1>1, <1>3

-----------------------------------------------------------------------------
(***************************************************************************)
(* A step of a handler h that works on r: its effect on the appliance, and *)
(* what is the case when the handler goes on.                              *)
(***************************************************************************)
Settings == <<nef.quota, nef.share, nef.origin>>

(* The request makes its filesystem.                                       *)
MakesVolume(r) ==
  /\ r.op \in Creations /\ r.vol \notin nef.vols
  /\ nef'.vols = nef.vols \cup {r.vol}
  /\ nef'.quota = [nef.quota EXCEPT ![r.vol] = r.size]
  /\ nef'.snaps = nef.snaps /\ nef'.share = nef.share
  /\ \/ nef'.origin = nef.origin
     \/ r.op \in Copying /\ nef'.origin = [nef.origin EXCEPT ![r.vol] = SnapshotOf(r)]

(* The request makes its snapshot.                                         *)
TakesSnapshot(r) ==
  /\ r.op \in {"CloneVolume", "CreateSnapshot"}
  /\ SnapshotOf(r).parent \in nef.vols /\ SnapshotOf(r) \notin nef.snaps
  /\ nef'.snaps = nef.snaps \cup {SnapshotOf(r)}
  /\ nef'.vols = nef.vols /\ UNCHANGED Settings

(* The request shares its volume, or ends the share.                       *)
SetsShare(r) ==
  /\ r.op \in Creations
  /\ \A v \in Volume \ {r.vol} : nef'.share[v] = nef.share[v]
  /\ nef'.vols = nef.vols /\ nef'.snaps = nef.snaps
  /\ nef'.quota = nef.quota /\ nef'.origin = nef.origin

(* The request resizes its volume.                                         *)
SetsQuota(r) ==
  /\ r.op = "ControllerExpandVolume" /\ r.vol \in nef.vols
  /\ nef'.quota = [nef.quota EXCEPT ![r.vol] = r.size]
  /\ nef'.vols = nef.vols /\ nef'.snaps = nef.snaps
  /\ nef'.share = nef.share /\ nef'.origin = nef.origin

(* The request destroys its snapshot.                                      *)
DiscardsSnapshot(r) ==
  /\ r.op = "DeleteSnapshot" /\ SnapshotOf(r) \in nef.snaps
  /\ nef'.snaps = nef.snaps \ {SnapshotOf(r)}
  /\ nef'.vols = nef.vols /\ UNCHANGED Settings

(* The request destroys its volume, hands on its snapshots, or both.       *)
DestroysVolume(r) ==
  /\ r.op = "DeleteVolume" /\ r.vol \in nef.vols
  /\ \E n \in NS!AfterPromotion(nef, r.vol) : nef' = n \/ nef' = NS!Remove(n, r.vol)

(* One call of a handler to the appliance has one of these effects, or     *)
(* none.                                                                   *)
Effect(r) ==
  \/ UNCHANGED nef
  \/ MakesVolume(r) \/ TakesSnapshot(r) \/ SetsShare(r) \/ SetsQuota(r)
  \/ DiscardsSnapshot(r) \/ DestroysVolume(r)

(* The handler is past the creation of what it was asked for.              *)
IsDone(h) == Done(call[h].pc, call[h].code)

(* The answer OK is true when the handler decides on it. *)
Truthful(h, r) ==
  Succeeds(h)' =>
    /\ r.op = "DeleteVolume" => r.vol \notin nef'.vols
    /\ r.op = "DeleteSnapshot" =>
         SnapshotOf(r) \notin nef'.snaps \/ r.vol \notin nef'.vols
    /\ r.op \in Creations /\ r.acl # NoShare => nef'.share[r.vol] = r.acl
    /\ r.op = "ControllerExpandVolume" => nef'.quota[r.vol] = r.size

(* A creation goes on with a volume of its size, or one that it takes as   *)
(* it is; a clone with its snapshot.                                       *)
Sound(h, r) ==
  /\ r.op \in Creations /\ IsDone(h)' /\ ~IsDone(h) =>
       /\ r.vol \in nef'.vols
       /\ \/ nef'.quota[r.vol] = r.size
          \/ UNCHANGED nef /\ (r.size = 0 \/ r.op \in Copying)
  /\ r.op = "CloneVolume" =>
       /\ call'[h].pc = "CloneSnapshot" => SnapshotOf(r) \in nef'.snaps
       /\ IsDone(h)' => IsDone(h) \/ call[h].pc = "CloneSnapshot"
  /\ r.op = "ControllerExpandVolume" =>
       /\ call'[h].pc \in {"UpdateFilesystem", "reply"}
       /\ call'[h].pc = "UpdateFilesystem" => call[h].pc = "Resolve" /\ UNCHANGED nef
       /\ ~UNCHANGED nef => call[h].pc = "UpdateFilesystem"

(* What createNfsShare does happens to a volume that is there. *)
Proceeds(h, r) ==
  /\ Effect(r) /\ Truthful(h, r) /\ Sound(h, r)
  /\ ~UNCHANGED nef.share /\ r.op \in Creations => call[h].pc \in Sharing

(* The step ends with the handler at pc.                                   *)
Reaches(h, pc) == call'[h].pc = pc

(* The step ends with an error to answer.                                  *)
Fails(h) == call'[h].pc = "reply" /\ call'[h].code # "OK"

(* Where a handler is after a call. *)
LEMMA Advance ==
  ASSUME IInv, NEW h \in Handler, call[h] \in Call
  PROVE  /\ \A pc : Goto(h, pc) => Reaches(h, pc)
         /\ \A code : code # "OK" /\ (Finish(h, code) \/ FailWith(h, code)) => Fails(h)
         /\ \A pc, code : code # "OK" /\ Applied(h, pc, code) => Reaches(h, pc) \/ Fails(h)
<1>1. \A pc : [call[h] EXCEPT !.pc = pc].pc = pc
  BY DEF Call
<1>2. \A code : [call[h] EXCEPT !.pc = "reply", !.code = code].pc = "reply"
  BY DEF Call
<1>3. \A code : [call[h] EXCEPT !.pc = "reply", !.code = code].code = code
  BY DEF Call
<1>4. ASSUME NEW pc, Goto(h, pc) PROVE Reaches(h, pc)
  BY <1>1, <1>4 DEF Goto, Reaches, IInv, TypeOK
<1>5. ASSUME NEW code, code # "OK", Finish(h, code) \/ FailWith(h, code) PROVE Fails(h)
  BY <1>2, <1>3, <1>5 DEF Finish, FailWith, Fails, IInv, TypeOK
<1> QED BY <1>4, <1>5 DEF Applied

(* A handler that gives up has no more to say. *)
LEMMA FailsProceeds ==
  ASSUME NEW h \in Handler, NEW r, Fails(h), Effect(r),
         UNCHANGED nef \/ r.op # "ControllerExpandVolume" \/ call[h].pc = "UpdateFilesystem",
         UNCHANGED nef.share \/ r.op \notin Creations \/ call[h].pc \in Sharing
  PROVE  Proceeds(h, r)
  BY DEF Fails, Proceeds, Truthful, Sound, Succeeds, IsDone, Done, Sharing

(* Going on to a place that asks for nothing. *)
LEMMA MovesProceeds ==
  ASSUME NEW h \in Handler, NEW r, NEW pc, Reaches(h, pc), Effect(r),
         pc \notin Sharing \cup {"reply", "CloneSnapshot"},
         r.op # "ControllerExpandVolume",
         UNCHANGED nef.share \/ r.op \notin Creations
  PROVE  Proceeds(h, r)
  BY DEF Reaches, Proceeds, Truthful, Sound, Succeeds, IsDone, Done, Sharing

(* resolveNS. *)
LEMMA ResolveProceeds ==
  ASSUME IInv, NEW h \in Handler, NEW r \in Requests, call[h].req = r,
         call[h] \in Call, Resolve(h)
  PROVE  Proceeds(h, r)
<1>1. Effect(r) /\ UNCHANGED nef /\ call[h].pc = "Resolve" /\ r.op \in Operations
  BY RequestFields DEF Resolve, Effect, At
<1>2. CASE Finish(h, "NotFound")
  BY <1>1, <1>2, Advance, FailsProceeds
<1>3. CASE /\ r.op \in {"DeleteVolume", "DeleteSnapshot"} /\ r.vol \notin nef.vols
           /\ Goto(h, "reply")
  <2>1. Reaches(h, "reply")
    BY <1>3, Advance
  <2> QED BY <1>1, <1>3, <2>1 DEF Proceeds, Truthful, Sound, Creations, Reaches
<1>4. ASSUME NEW pc, Goto(h, pc), r.op # "ControllerExpandVolume",
             pc \notin Sharing \cup {"reply", "CloneSnapshot"}
      PROVE  Proceeds(h, r)
  <2>1. Reaches(h, pc)
    BY <1>4, Advance
  <2> QED BY <1>1, <1>4, <2>1, MovesProceeds
<1>5. CASE r.op = "CreateVolume" /\ Goto(h, "CreateFilesystem")
  BY <1>4, <1>5 DEF Sharing
<1>6. CASE r.op = "CreateVolumeFromSnapshot" /\ Goto(h, "GetSourceSnapshot")
  BY <1>4, <1>6 DEF Sharing
<1>7. CASE r.op \in {"CloneVolume", "CreateSnapshot"} /\ Goto(h, "GetSnapshots")
  BY <1>4, <1>7 DEF Sharing
<1>8. CASE r.op = "DeleteVolume" /\ Goto(h, "DestroyFilesystem")
  BY <1>4, <1>8 DEF Sharing
<1>9. CASE r.op = "DeleteSnapshot" /\ Goto(h, "DestroySnapshot")
  BY <1>4, <1>9 DEF Sharing
<1>10. CASE r.op = "ControllerExpandVolume" /\ Goto(h, "UpdateFilesystem")
  <2>1. Reaches(h, "UpdateFilesystem")
    BY <1>10, Advance
  <2> QED BY <1>1, <1>10, <2>1 DEF Proceeds, Truthful, Sound, Creations, Reaches, Succeeds
<1> QED
  BY <1>1, <1>2, <1>3, <1>5, <1>6, <1>7, <1>8, <1>9, <1>10
  DEF Resolve, Operations, Creations

(* A creation that made its volume, or found one of its size. *)
LEMMA CreationProceeds ==
  ASSUME NEW h \in Handler, NEW r, Reaches(h, AfterCreation(r)), Effect(r),
         r.op \in Creations, UNCHANGED nef.share,
         r.vol \in nef'.vols,
         \/ nef'.quota[r.vol] = r.size
         \/ UNCHANGED nef /\ (r.size = 0 \/ r.op \in Copying),
         r.op = "CloneVolume" => call[h].pc = "CloneSnapshot"
  PROVE  Proceeds(h, r)
<1>1. Truthful(h, r)
  BY DEF Truthful, Succeeds, Reaches, AfterCreation, Creations
<1>2. Sound(h, r)
  BY DEF Sound, Reaches, AfterCreation, Creations
<1> QED BY <1>1, <1>2 DEF Proceeds

(* createNewVolume makes the filesystem. *)
LEMMA CreateFilesystemProceeds ==
  ASSUME IInv, NEW h \in Handler, NEW r \in Requests, call[h].req = r,
         call[h] \in Call, CreateFilesystem(h)
  PROVE  Proceeds(h, r)
<1>1. r.op = "CreateVolume" /\ r.vol \in Volume /\ r.size \in Nat
  BY ActiveHandler, RequestFields DEF CreateFilesystem, At, CallOK, Fits
<1>2. CASE /\ r.vol \notin nef.vols
           /\ nef' = NS!CreateFilesystem(nef, r.vol, r.size)
           /\ Applied(h, AfterCreation(r), "Internal")
  <2>1. /\ nef'.vols = nef.vols \cup {r.vol} /\ nef'.snaps = nef.snaps
        /\ nef'.quota = [nef.quota EXCEPT ![r.vol] = r.size]
        /\ nef'.share = nef.share /\ nef'.origin = nef.origin
    BY <1>1, <1>2, CreationFields, RequestFields DEF IInv, TypeOK
  <2>2. Effect(r) /\ r.vol \in nef'.vols /\ nef'.quota[r.vol] = r.size
    BY <1>1, <1>2, <2>1 DEF Effect, MakesVolume, Creations, IInv, TypeOK, NS!Appliance
  <2>3. Reaches(h, AfterCreation(r)) \/ Fails(h)
    BY <1>2, Advance
  <2> QED BY <1>1, <2>1, <2>2, <2>3, CreationProceeds, FailsProceeds DEF Creations
<1>3. CASE UNCHANGED nef /\ Goto(h, "GetFilesystem")
  BY <1>1, <1>3, Advance, MovesProceeds DEF Effect, Sharing
<1> QED BY <1>2, <1>3 DEF CreateFilesystem

(* createNewVolume compares the sizes. *)
LEMMA GetFilesystemProceeds ==
  ASSUME IInv, NEW h \in Handler, NEW r \in Requests, call[h].req = r,
         call[h] \in Call, GetFilesystem(h)
  PROVE  Proceeds(h, r)
<1>1. r.op = "CreateVolume" /\ UNCHANGED nef /\ Effect(r)
  BY ActiveHandler DEF GetFilesystem, At, CallOK, Fits, Effect
<1>2. CASE /\ r.vol \in nef.vols /\ (r.size = 0 \/ nef.quota[r.vol] = r.size)
           /\ Goto(h, AfterCreation(r))
  BY <1>1, <1>2, Advance, CreationProceeds DEF Creations
<1>3. CASE Finish(h, "Internal") \/ Finish(h, "AlreadyExists")
  BY <1>1, <1>3, Advance, FailsProceeds
<1> QED BY <1>2, <1>3 DEF GetFilesystem

(* CreateSnapshotOnNS looks for the name. *)
LEMMA GetSnapshotsProceeds ==
  ASSUME IInv, NEW h \in Handler, NEW r \in Requests, call[h].req = r,
         call[h] \in Call, GetSnapshots(h)
  PROVE  Proceeds(h, r)
<1>1. r.op \in {"CloneVolume", "CreateSnapshot"} /\ UNCHANGED nef /\ Effect(r)
  BY ActiveHandler DEF GetSnapshots, At, CallOK, Fits, Effect
<1>2. CASE Finish(h, "AlreadyExists")
  BY <1>1, <1>2, Advance, FailsProceeds
<1>3. CASE Goto(h, "CreateSnapshot")
  BY <1>1, <1>3, Advance, MovesProceeds DEF Sharing
<1> QED BY <1>2, <1>3 DEF GetSnapshots

(* CreateSnapshotOnNS takes the snapshot. *)
LEMMA CreateSnapshotProceeds ==
  ASSUME IInv, NEW h \in Handler, NEW r \in Requests, call[h].req = r,
         call[h] \in Call, CreateSnapshot(h)
  PROVE  Proceeds(h, r)
<1>1. r.op \in {"CloneVolume", "CreateSnapshot"} /\ r.op # "ControllerExpandVolume"
  BY ActiveHandler DEF CreateSnapshot, At, CallOK, Fits
<1>2. "GetSnapshot" \notin Sharing \cup {"reply", "CloneSnapshot"}
  BY DEF Sharing
<1>3. CASE /\ SnapshotOf(r).parent \in nef.vols /\ SnapshotOf(r) \notin nef.snaps
           /\ nef' = NS!CreateSnapshot(nef, SnapshotOf(r))
           /\ Applied(h, "GetSnapshot", "Internal")
  <2>1. Effect(r) /\ UNCHANGED nef.share
    BY <1>1, <1>3, SnapshotFields, RequestFields
    DEF Effect, TakesSnapshot, Settings, IInv, TypeOK
  <2>2. Reaches(h, "GetSnapshot") \/ Fails(h)
    BY <1>3, Advance
  <2> QED BY <1>1, <1>2, <2>1, <2>2, MovesProceeds, FailsProceeds
<1>4. CASE UNCHANGED nef /\ Goto(h, "GetSnapshot")
  BY <1>1, <1>2, <1>4, Advance, MovesProceeds DEF Effect
<1>5. CASE UNCHANGED nef /\ Finish(h, "Internal")
  BY <1>5, Advance, FailsProceeds DEF Effect
<1> QED BY <1>3, <1>4, <1>5 DEF CreateSnapshot

(* CreateSnapshotOnNS finds the snapshot that it took. *)
LEMMA GetSnapshotProceeds ==
  ASSUME IInv, NEW h \in Handler, NEW r \in Requests, call[h].req = r,
         call[h] \in Call, GetSnapshot(h)
  PROVE  Proceeds(h, r)
<1>1. r.op \in {"CloneVolume", "CreateSnapshot"} /\ UNCHANGED nef /\ Effect(r)
  BY ActiveHandler DEF GetSnapshot, At, CallOK, Fits, Effect
<1>2. CASE r.op = "CloneVolume" /\ SnapshotOf(r) \in nef.snaps /\ Goto(h, "CloneSnapshot")
  <2>1. Reaches(h, "CloneSnapshot")
    BY <1>2, Advance
  <2> QED
    BY <1>1, <1>2, <2>1
    DEF Reaches, Proceeds, Truthful, Sound, Succeeds, IsDone, Done, Sharing
<1>3. CASE r.op = "CreateSnapshot" /\ Goto(h, "reply")
  BY <1>1, <1>3, Advance DEF Proceeds, Truthful, Sound, Creations
<1>4. CASE Finish(h, "Internal")
  BY <1>1, <1>4, Advance, FailsProceeds
<1> QED BY <1>1, <1>2, <1>3, <1>4 DEF GetSnapshot

(* createNewVolumeFromSnapshot looks for its source. *)
LEMMA GetSourceSnapshotProceeds ==
  ASSUME IInv, NEW h \in Handler, NEW r \in Requests, call[h].req = r,
         call[h] \in Call, GetSourceSnapshot(h)
  PROVE  Proceeds(h, r)
<1>1. r.op = "CreateVolumeFromSnapshot" /\ UNCHANGED nef /\ Effect(r)
  BY ActiveHandler DEF GetSourceSnapshot, At, CallOK, Fits, Effect
<1>2. CASE Goto(h, "CloneSnapshot")
  <2>1. Reaches(h, "CloneSnapshot")
    BY <1>2, Advance
  <2> QED
    BY <1>1, <2>1
    DEF Reaches, Proceeds, Truthful, Sound, Succeeds, IsDone, Done, Sharing
<1>3. CASE Finish(h, "NotFound")
  BY <1>1, <1>3, Advance, FailsProceeds
<1> QED BY <1>2, <1>3 DEF GetSourceSnapshot

(* A volume is cloned, or one of its name is there. *)
LEMMA CloneSnapshotProceeds ==
  ASSUME IInv, NEW h \in Handler, NEW r \in Requests, call[h].req = r,
         call[h] \in Call, CloneSnapshot(h)
  PROVE  Proceeds(h, r)
<1>1. /\ r.op \in Copying /\ r.op \in Creations /\ CloneError(r) # "OK"
      /\ r.vol \in Volume /\ r.size \in Nat /\ SnapshotOf(r) \in NS!Snapshot
      /\ r.op # "ControllerExpandVolume" /\ call[h].pc = "CloneSnapshot"
  BY ActiveHandler, RequestFields
  DEF CloneSnapshot, At, CallOK, Fits, Copying, Creations, CloneError
<1>2. CASE /\ r.vol \notin nef.vols
           /\ nef' = NS!CloneSnapshot(nef, SnapshotOf(r), r.vol, r.size)
           /\ Applied(h, AfterCreation(r), CloneError(r))
  <2>1. /\ nef'.vols = nef.vols \cup {r.vol} /\ nef'.snaps = nef.snaps
        /\ nef'.quota = [nef.quota EXCEPT ![r.vol] = r.size]
        /\ nef'.share = nef.share
        /\ nef'.origin = [nef.origin EXCEPT ![r.vol] = SnapshotOf(r)]
    BY <1>1, <1>2, CreationFields DEF IInv, TypeOK
  <2>2. Effect(r) /\ r.vol \in nef'.vols /\ nef'.quota[r.vol] = r.size
    BY <1>1, <1>2, <2>1 DEF Effect, MakesVolume, IInv, TypeOK, NS!Appliance
  <2>3. Reaches(h, AfterCreation(r)) \/ Fails(h)
    BY <1>1, <1>2, Advance
  <2> QED BY <1>1, <2>1, <2>2, <2>3, CreationProceeds, FailsProceeds
<1>3. CASE UNCHANGED nef /\ r.vol \in nef.vols /\ Goto(h, AfterCreation(r))
  BY <1>1, <1>3, Advance, CreationProceeds DEF Effect
<1>4. CASE UNCHANGED nef /\ Finish(h, CloneError(r))
  BY <1>1, <1>4, Advance, FailsProceeds DEF Effect
<1> QED BY <1>2, <1>3, <1>4 DEF CloneSnapshot

(* A call of createNfsShare sets the share of its volume, and OK follows   *)
(* when that is the one that was asked for.                                *)
LEMMA SharingProceeds ==
  ASSUME IInv, NEW h \in Handler, NEW r \in Requests, call[h].req = r,
         r.op \in Creations, call[h].pc \in Sharing,
         \/ nef' = NS!CreateNfsShare(nef, r.vol, r.acl)
         \/ nef' = NS!DeleteNfsShare(nef, r.vol)
         \/ UNCHANGED nef,
         \/ Fails(h)
         \/ \E pc \in Sharing : Reaches(h, pc)
         \/ Reaches(h, "reply") /\ nef' = NS!CreateNfsShare(nef, r.vol, r.acl)
  PROVE  Proceeds(h, r)
<1>1. /\ r.vol \in Volume /\ nef \in NS!Appliance
      /\ r.acl \in AccessList \cup {NoShare}
      /\ r.op \notin {"DeleteVolume", "DeleteSnapshot", "CreateSnapshot",
                      "ControllerExpandVolume"}
  BY RequestFields DEF Creations, IInv, TypeOK
<1>2. ASSUME nef' = NS!CreateNfsShare(nef, r.vol, r.acl)
      PROVE  nef'.share = [nef.share EXCEPT ![r.vol] = r.acl] /\ SetsShare(r)
  <2>1. /\ nef'.share = [nef.share EXCEPT ![r.vol] = r.acl]
        /\ nef'.vols = nef.vols /\ nef'.snaps = nef.snaps
        /\ nef'.quota = nef.quota /\ nef'.origin = nef.origin
    BY <1>1, <1>2, ShareFields
  <2> QED BY <1>1, <2>1 DEF SetsShare, NS!Appliance
<1>3. ASSUME nef' = NS!DeleteNfsShare(nef, r.vol)
      PROVE  SetsShare(r)
  <2>1. /\ nef'.share = [nef.share EXCEPT ![r.vol] = NoShare]
        /\ nef'.vols = nef.vols /\ nef'.snaps = nef.snaps
        /\ nef'.quota = nef.quota /\ nef'.origin = nef.origin
    BY <1>1, <1>3, UnshareFields
  <2> QED BY <1>1, <2>1 DEF SetsShare, NS!Appliance
<1>4. Effect(r)
  BY <1>2, <1>3 DEF Effect
<1>5. Truthful(h, r)
  BY <1>1, <1>2 DEF Truthful, Succeeds, Fails, Reaches, Sharing, NS!Appliance
<1>6. Sound(h, r)
  BY <1>1 DEF Sound, IsDone, Done, Fails, Reaches, Sharing
<1> QED BY <1>4, <1>5, <1>6 DEF Proceeds

(* createNfsShare. *)
LEMMA NfsShareProceeds ==
  ASSUME IInv, NEW h \in Handler, NEW r \in Requests, call[h].req = r,
         call[h] \in Call,
         CreateNfsShare(h) \/ DeleteNfsShare(h) \/ RecreateNfsShare(h)
  PROVE  Proceeds(h, r)
<1>1. r.op \in Creations /\ call[h].pc \in Sharing
  BY ActiveHandler
  DEF CreateNfsShare, DeleteNfsShare, RecreateNfsShare, At, CallOK, Fits, Sharing
<1>2. \A pc, code : code # "OK" /\ Applied(h, pc, code) => Reaches(h, pc) \/ Fails(h)
  BY Advance
<1>3. \A code : code # "OK" /\ Finish(h, code) => Fails(h)
  BY Advance
<1>4. \A pc : Goto(h, pc) => Reaches(h, pc)
  BY Advance
<1>5. CASE CreateNfsShare(h)
  BY <1>1, <1>2, <1>3, <1>4, <1>5, SharingProceeds DEF CreateNfsShare, Sharing
<1>6. CASE DeleteNfsShare(h)
  BY <1>1, <1>2, <1>3, <1>6, SharingProceeds DEF DeleteNfsShare, Sharing
<1>7. CASE RecreateNfsShare(h)
  BY <1>1, <1>2, <1>3, <1>7, SharingProceeds DEF RecreateNfsShare, Sharing
<1> QED BY <1>5, <1>6, <1>7

(* DeleteVolume. *)
LEMMA DestroyFilesystemProceeds ==
  ASSUME IInv, NEW h \in Handler, NEW r \in Requests, call[h].req = r,
         call[h] \in Call, DestroyFilesystem(h)
  PROVE  Proceeds(h, r)
<1>1. r.op = "DeleteVolume" /\ r.vol \in Volume /\ nef \in NS!Appliance
  BY ActiveHandler, RequestFields
  DEF DestroyFilesystem, At, CallOK, Fits, IInv, TypeOK
<1>2. Effect(r)
  BY <1>1 DEF DestroyFilesystem, Effect, DestroysVolume
<1>3. CASE Fails(h)
  BY <1>1, <1>2, <1>3, FailsProceeds DEF Creations
<1>4. CASE Reaches(h, "reply") /\ r.vol \notin nef'.vols
  BY <1>1, <1>2, <1>4
  DEF Reaches, Proceeds, Truthful, Sound, Creations
<1>5. ASSUME NEW n \in NS!AfterPromotion(nef, r.vol), nef' = NS!Remove(n, r.vol)
      PROVE  r.vol \notin nef'.vols
  BY <1>5 DEF NS!Remove
<1> QED BY <1>3, <1>4, <1>5, Advance DEF DestroyFilesystem, Applied

(* DeleteSnapshot. *)
LEMMA DestroySnapshotProceeds ==
  ASSUME IInv, NEW h \in Handler, NEW r \in Requests, call[h].req = r,
         call[h] \in Call, DestroySnapshot(h)
  PROVE  Proceeds(h, r)
<1>1. r.op = "DeleteSnapshot" /\ SnapshotOf(r) \in NS!Snapshot /\ nef \in NS!Appliance
  BY ActiveHandler, RequestFields DEF DestroySnapshot, At, CallOK, Fits, IInv, TypeOK
<1>2. nef' = NS!DestroySnapshot(nef, SnapshotOf(r)) =>
        /\ nef'.snaps = nef.snaps \ {SnapshotOf(r)}
        /\ nef'.vols = nef.vols /\ UNCHANGED Settings
  BY <1>1, SnapshotFields DEF Settings
<1>3. Effect(r)
  BY <1>1, <1>2 DEF DestroySnapshot, Effect, DiscardsSnapshot
<1>4. CASE Fails(h)
  BY <1>1, <1>3, <1>4, FailsProceeds DEF Creations
<1>5. CASE Reaches(h, "reply") /\ SnapshotOf(r) \notin nef'.snaps
  BY <1>1, <1>3, <1>5
  DEF Reaches, Proceeds, Truthful, Sound, Creations
<1> QED BY <1>2, <1>4, <1>5, Advance DEF DestroySnapshot, Applied

(* ControllerExpandVolume. *)
LEMMA UpdateFilesystemProceeds ==
  ASSUME IInv, NEW h \in Handler, NEW r \in Requests, call[h].req = r,
         call[h] \in Call, UpdateFilesystem(h)
  PROVE  Proceeds(h, r)
<1>1. /\ r.op = "ControllerExpandVolume" /\ call[h].pc = "UpdateFilesystem"
      /\ r.vol \in Volume /\ r.size \in Nat /\ nef \in NS!Appliance
  BY ActiveHandler, RequestFields
  DEF UpdateFilesystem, At, CallOK, Fits, IInv, TypeOK
<1>2. nef' = NS!UpdateFilesystem(nef, r.vol, r.size) =>
        /\ nef'.quota = [nef.quota EXCEPT ![r.vol] = r.size]
        /\ nef'.vols = nef.vols /\ nef'.snaps = nef.snaps
        /\ nef'.share = nef.share /\ nef'.origin = nef.origin
  BY <1>1, QuotaFields
<1>3. Effect(r)
  BY <1>1, <1>2 DEF UpdateFilesystem, Effect, SetsQuota
<1>4. CASE Fails(h)
  BY <1>1, <1>3, <1>4, FailsProceeds DEF Creations
<1>5. CASE Reaches(h, "reply") /\ nef'.quota = [nef.quota EXCEPT ![r.vol] = r.size]
  BY <1>1, <1>3, <1>5
  DEF Reaches, Proceeds, Truthful, Sound, Creations, NS!Appliance
<1> QED BY <1>2, <1>4, <1>5, Advance DEF UpdateFilesystem, Applied

(* A call that fails. *)
LEMMA NefFailsProceeds ==
  ASSUME IInv, NEW h \in Handler, NEW r \in Requests, call[h].req = r,
         call[h] \in Call, NefFails(h)
  PROVE  Proceeds(h, r)
<1>1. ErrorCode(h) # "OK"
  BY DEF ErrorCode, CloneError, At, NefFails
<1> QED BY <1>1, Advance, FailsProceeds DEF NefFails, Effect

(* Every step of a handler. *)
LEMMA CallProceeds ==
  ASSUME IInv, NEW h \in Handler, CallNef(h)
  PROVE  /\ call[h] \in Call /\ call[h].req \in Requests
         /\ Proceeds(h, call[h].req)
<1>1. call[h] \in Call /\ call[h].req \in Requests
  BY CallNefStep DEF Call
<1>2. PICK r \in Requests : r = call[h].req
  BY <1>1
<1>3. Proceeds(h, r)
  BY <1>1, <1>2, ResolveProceeds, CreateFilesystemProceeds, GetFilesystemProceeds,
    GetSnapshotsProceeds, CreateSnapshotProceeds, GetSnapshotProceeds,
    GetSourceSnapshotProceeds, CloneSnapshotProceeds, NfsShareProceeds,
    DestroyFilesystemProceeds, DestroySnapshotProceeds, UpdateFilesystemProceeds,
    NefFailsProceeds
  DEF CallNef
<1> QED BY <1>1, <1>2, <1>3

-----------------------------------------------------------------------------
(***************************************************************************)
(* What a step changes of the handlers and of what the CO knows.           *)
(***************************************************************************)

(* A call to the appliance moves one handler on. *)
LEMMA CallFrame ==
  ASSUME IInv, NEW h \in Handler, CallNef(h)
  PROVE  /\ Active(h) /\ Sent(call[h].req) /\ Fits(call[h].req.op, call'[h].pc)
         /\ UNCHANGED <<answer, asked>>
         /\ \A g \in Handler :
              /\ call'[g].req = call[g].req /\ call'[g].live = call[g].live
              /\ Active(g)' <=> Active(g)
         /\ \A g \in Handler \ {h} : call'[g] = call[g]
<1>1. call[h] \in Call /\ HandlerStep(h, call[h].req)
  BY CallNefStep
<1>2. PICK pc \in NefCalls \cup {"reply"}, code \in Codes :
        Moves(h, pc, code) /\ Fits(call[h].req.op, pc)
  BY <1>1 DEF HandlerStep
<1> DEFINE moved == [[call[h] EXCEPT !.pc = pc] EXCEPT !.code = code]
<1>3. moved.req = call[h].req /\ moved.pc = pc /\ moved.live = call[h].live
  BY <1>1 DEF Call
<1>4. call'[h] = moved /\ \A g \in Handler \ {h} : call'[g] = call[g]
  BY <1>2 DEF Moves, IInv, TypeOK
<1>5. call[h] # Idle /\ moved # Idle
  <2>1. Idle.pc = "idle" /\ pc # "idle" /\ call[h].pc # "idle"
    BY <1>1 DEF Idle, Call, NefCalls
  <2> QED BY <1>3, <2>1
<1>6. Sent(call[h].req)
  BY <1>5 DEF IInv, CallOK
<1>7. \A g \in Handler :
        /\ call'[g].req = call[g].req /\ call'[g].live = call[g].live
        /\ Active(g)' <=> Active(g)
  <2>1. /\ call'[h].req = call[h].req /\ call'[h].live = call[h].live
        /\ call[h] # Idle /\ call'[h] # Idle
    BY <1>3, <1>4, <1>5
  <2> QED BY <1>4, <2>1 DEF Active
<1>8. Active(h) /\ Fits(call[h].req.op, call'[h].pc)
  BY <1>2, <1>3, <1>4, <1>5 DEF Active
<1> QED BY <1>4, <1>6, <1>7, <1>8 DEF CallNef

(* A handler that works on a request has sent it. *)
LEMMA AssuredSent ==
  ASSUME IInv, NEW r \in Requests
  PROVE  Assured(r) \/ Created(r) => Sent(r)
<1>1. ASSUME NEW h \in Handler, call[h].req = r
      PROVE  Sent(r)
  BY <1>1, ConstantsOK DEF IInv, CallOK, Idle
<1> QED BY <1>1 DEF Assured, Created, Granted, Sent

(* The steps that are not calls to the appliance change neither volumes    *)
(* and snapshots nor what a handler or the CO may be sure of.              *)
Quiet ==
  /\ nef'.vols = nef.vols /\ nef'.snaps = nef.snaps
  /\ nef'.quota = nef.quota /\ nef'.share = nef.share /\ nef'.origin = nef.origin
  /\ \A r \in Requests : (Assured(r)' => Assured(r)) /\ (Created(r)' => Created(r))
  /\ \A r \in Requests :
       Sent(r)' => Sent(r) \/ \E h \in Handler : Send(r, h)

(* The appliance is left alone. *)
LEMMA QuietAppliance ==
  ASSUME IInv, [Next]_vars, \A h \in Handler : ~CallNef(h)
  PROVE  /\ nef'.vols = nef.vols /\ nef'.snaps = nef.snaps
         /\ nef'.quota = nef.quota /\ nef'.share = nef.share
         /\ nef'.origin = nef.origin
<1>1. ASSUME NEW v \in Volume, NEW w \in WriteId, PodWrites(v, w)
      PROVE  /\ nef'.vols = nef.vols /\ nef'.snaps = nef.snaps
             /\ nef'.quota = nef.quota /\ nef'.share = nef.share
             /\ nef'.origin = nef.origin
  BY <1>1 DEF PodWrites, NS!WriteData, NS!Appliance, IInv, TypeOK
<1> QED BY <1>1 DEF Next, Send, Reply, Timeout, Crash, vars

(* The handlers, one kind of step at a time. *)
LEMMA QuietHandlers ==
  ASSUME IInv, [Next]_vars, \A h \in Handler : ~CallNef(h), NEW r \in Requests
  PROVE  /\ \A h \in Handler :
              call'[h].req = r /\ call'[h].pc # "Resolve" =>
                call[h].req = r /\ call[h].pc = call'[h].pc /\ call[h].code = call'[h].code
         /\ Granted(r)' => Granted(r) \/ \E h \in Handler : call[h].req = r /\ Succeeds(h)
         /\ Sent(r)' => Sent(r) \/ \E h \in Handler : Send(r, h)
<1> DEFINE Same(h) ==
      call[h].req = r /\ call[h].pc = call'[h].pc /\ call[h].code = call'[h].code
<1>1. Idle.req # r
  BY ConstantsOK DEF Idle
<1>2. ASSUME NEW q \in Requests, NEW h \in Handler, Send(q, h)
      PROVE  /\ \A g \in Handler :
                  call'[g].req = r /\ call'[g].pc # "Resolve" => Same(g)
             /\ Granted(r)' => Granted(r)
             /\ Sent(r)' => Sent(r) \/ q = r
  BY <1>2 DEF Send, Granted, Sent, IInv, TypeOK
<1>3. ASSUME NEW h \in Handler, Reply(h)
      PROVE  /\ \A g \in Handler :
                  call'[g].req = r /\ call'[g].pc # "Resolve" => Same(g)
             /\ Granted(r)' => Granted(r) \/ (call[h].req = r /\ Succeeds(h))
             /\ Sent(r)' => Sent(r)
  <2>1. Sent(call[h].req)
    BY <1>3, ActiveHandler DEF Reply, At, CallOK
  <2> QED
    BY <1>1, <1>3, <2>1 DEF Reply, At, Succeeds, Granted, Sent, IInv, TypeOK
<1>4. ASSUME NEW h \in Handler, Timeout(h)
      PROVE  /\ \A g \in Handler :
                  call'[g].req = r /\ call'[g].pc # "Resolve" => Same(g)
             /\ Granted(r)' => Granted(r)
             /\ Sent(r)' => Sent(r)
  <2>1. call[h] \in Call /\ Sent(call[h].req)
    BY <1>4 DEF Timeout, IInv, TypeOK, Idle, CallOK
  <2>2. LET c == [call[h] EXCEPT !.live = FALSE]
        IN  c.req = call[h].req /\ c.pc = call[h].pc /\ c.code = call[h].code
    BY <2>1 DEF Call
  <2> QED BY <1>4, <2>1, <2>2 DEF Timeout, Granted, Sent, IInv, TypeOK
<1>5. CASE Crash
  BY <1>1, <1>5 DEF Crash, Granted, Sent, IInv, TypeOK
<1>6. CASE UNCHANGED <<call, answer>>
  BY <1>6 DEF Granted, Sent
<1> QED BY <1>2, <1>3, <1>4, <1>5, <1>6 DEF Next, PodWrites, vars

(* Both together. *)
LEMMA QuietStep ==
  ASSUME IInv, [Next]_vars, \A h \in Handler : ~CallNef(h)
  PROVE  Quiet
<1>1. ASSUME NEW r \in Requests, Assured(r)'
      PROVE  Assured(r)
  BY <1>1, QuietHandlers DEF Assured, Succeeds, Done
<1>2. ASSUME NEW r \in Requests, Created(r)'
      PROVE  Created(r)
  BY <1>2, QuietHandlers DEF Created, Succeeds, Done, Sharing
<1>3. \A r \in Requests : Sent(r)' => Sent(r) \/ \E h \in Handler : Send(r, h)
  BY QuietHandlers
<1> QED BY <1>1, <1>2, <1>3, QuietAppliance DEF Quiet

(* A call lets a handler be sure of its own request only. *)
LEMMA CallAssures ==
  ASSUME IInv, NEW h \in Handler, CallNef(h), NEW r \in Requests
  PROVE  /\ Assured(r)' => Assured(r) \/ (r = call[h].req /\ Succeeds(h)')
         /\ Created(r)' => \/ Created(r)
                           \/ r = call[h].req /\ r.op \in Creations /\ IsDone(h)' /\ ~IsDone(h)
         /\ Sent(r)' <=> Sent(r)
  BY CallFrame DEF Assured, Created, Succeeds, IsDone, Granted, Sent

-----------------------------------------------------------------------------
(***************************************************************************)
(* Every handler is attended to.                                           *)
(***************************************************************************)

(* One call per object is a rule about pairs of requests. *)
LEMMA SameObjectFacts ==
  ASSUME NEW q, NEW r
  PROVE  /\ SameObject(r, r)
         /\ SameObject(q, r) <=> SameObject(r, q)
  BY DEF SameObject

(* A creation and the deletion of its volume are calls on one object, and  *)
(* so are the taking and the destruction of a snapshot.                    *)
LEMMA OpposedIsSame ==
  ASSUME NEW q \in Requests, NEW r \in Requests
  PROVE  /\ q.op \in Creations /\ r.op = "DeleteVolume" /\ q.vol = r.vol
              => SameObject(q, r)
         /\ q.op = "CreateSnapshot" /\ r.op = "DeleteSnapshot"
              /\ SnapshotOf(q) = SnapshotOf(r)
              => SameObject(q, r)
<1>1. ASSUME q.op \in Creations, r.op = "DeleteVolume"
      PROVE  Sidecar(q.op) = "provisioner" /\ Sidecar(r.op) = "provisioner"
  BY <1>1 DEF Sidecar, Creations
<1>2. ASSUME q.op = "CreateSnapshot", r.op = "DeleteSnapshot"
      PROVE  Sidecar(q.op) = "snapshotter" /\ Sidecar(r.op) = "snapshotter"
  BY <1>2 DEF Sidecar, Creations
<1>3. ASSUME q.op = "CreateSnapshot", r.op = "DeleteSnapshot",
             SnapshotOf(q) = SnapshotOf(r)
      PROVE  q.vol = r.vol /\ q.name = r.name
  BY <1>3, RequestsOK DEF SnapshotOf, Copying
<1> QED BY <1>1, <1>2, <1>3 DEF SameObject

(* The CO asks for nothing that it wants to be undone, nor for two things  *)
(* about one object at a time.                                             *)
LEMMA AttendedSend ==
  ASSUME IInv, Attended, NEW r \in Requests, NEW h \in Handler, Send(r, h)
  PROVE  Attended'
<1>1. /\ \A q \in Requests : answer'[q] = IF q = r THEN "waiting" ELSE answer[q]
      /\ \A g \in Handler \ {h} : call'[g] = call[g]
      /\ call'[h].req = r /\ call'[h].live
      /\ call[h] = Idle /\ call'[h] # Idle
  <2>1. call' = [call EXCEPT ![h] = [req |-> r, pc |-> "Resolve",
                                     code |-> "OK", live |-> TRUE]]
    BY DEF Send
  <2>2. call'[h].req = r /\ call'[h].pc = "Resolve" /\ call'[h].live
    BY <2>1 DEF IInv, TypeOK
  <2>3. call'[h] # Idle
    BY <2>2 DEF Idle
  <2>4. \A g \in Handler \ {h} : call'[g] = call[g]
    BY <2>1 DEF IInv, TypeOK
  <2>5. \A q \in Requests : answer'[q] = IF q = r THEN "waiting" ELSE answer[q]
    BY DEF Send, IInv, TypeOK
  <2> QED BY <2>2, <2>3, <2>4, <2>5 DEF Send
<1>2. \A g \in Handler : Active(g) => g # h /\ call[g].req \in Requests
  BY <1>1 DEF Active, IInv, TypeOK, Call
<1>3. \A g \in Handler : Active(g) => ~SameObject(call[g].req, r)
  BY DEF Send, Attended
<1>4. \A q \in Requests : Sent(q)' => Sent(q) \/ q = r
  BY <1>1 DEF Sent
<1>5. Unopposed(r)'
  <2>1. r.op \in Creations => ~Retired(r.vol)'
    BY <1>4 DEF Send, Superseded, Retired, Creations
  <2>2. r.op = "CreateSnapshot" => ~Discarded(SnapshotOf(r))'
    BY <1>4 DEF Send, Superseded, Discarded
  <2> QED BY <2>1, <2>2 DEF Unopposed
<1>6. ASSUME NEW g \in Handler, Active(g)
      PROVE  Unopposed(call[g].req)'
  <2>1. PICK q \in Requests : q = call[g].req
    BY <1>2, <1>6
  <2>2. Unopposed(q) /\ ~SameObject(q, r)
    BY <1>3, <1>6, <2>1 DEF Attended
  <2>3. q.op \in Creations => ~Retired(q.vol)'
    BY <1>4, <2>2, OpposedIsSame DEF Unopposed, Retired
  <2>4. q.op = "CreateSnapshot" => ~Discarded(SnapshotOf(q))'
    BY <1>4, <2>2, OpposedIsSame DEF Unopposed, Discarded
  <2>5. Unopposed(q)'
    BY <2>3, <2>4 DEF Unopposed
  <2> QED BY <1>1, <1>2, <1>6, <2>1, <2>5
<1>7. (\A g \in Handler : Active(g) =>
         call[g].live /\ answer[call[g].req] = "waiting" /\ Unopposed(call[g].req))'
  <2> SUFFICES ASSUME NEW g \in Handler, Active(g)'
               PROVE  (/\ call[g].live /\ answer[call[g].req] = "waiting"
                       /\ Unopposed(call[g].req))'
    OBVIOUS
  <2>1. CASE g = h
    BY <1>1, <1>5, <2>1
  <2>2. CASE g # h
    <3>1. Active(g) /\ call'[g] = call[g]
      BY <1>1, <2>2 DEF Active
    <3>2. call[g].live /\ answer[call[g].req] = "waiting" /\ call[g].req \in Requests
      BY <1>2, <3>1 DEF Attended
    <3> QED BY <1>1, <1>6, <3>1, <3>2
  <2> QED BY <2>1, <2>2
<1>8. (\A g, k \in Handler :
         Active(g) /\ Active(k) /\ g # k => ~SameObject(call[g].req, call[k].req))'
  BY <1>1, <1>3, SameObjectFacts DEF Attended, Active
<1>9. (\A q \in Requests :
         answer[q] = "waiting" => \E g \in Handler : Active(g) /\ call[g].req = q)'
  BY <1>1, <1>2 DEF Attended, Active
<1> QED BY <1>7, <1>8, <1>9 DEF Attended

(* A handler goes on. *)
LEMMA AttendedCall ==
  ASSUME IInv, Attended, NEW h \in Handler, CallNef(h)
  PROVE  Attended'
<1>1. /\ UNCHANGED answer
      /\ \A g \in Handler :
           /\ call'[g].req = call[g].req /\ call'[g].live = call[g].live
           /\ Active(g)' <=> Active(g)
  BY CallFrame
<1>2. \A q : Unopposed(q)' <=> Unopposed(q)
  BY <1>1 DEF Unopposed, Retired, Discarded, Sent
<1> QED BY <1>1, <1>2 DEF Attended

(* A handler returns. *)
LEMMA AttendedReply ==
  ASSUME IInv, Attended, NEW h \in Handler, Reply(h)
  PROVE  Attended'
<1>1. /\ \A g \in Handler \ {h} : call'[g] = call[g]
      /\ call'[h] = Idle /\ Active(h)
  BY DEF Reply, At, Active, Idle, IInv, TypeOK
<1>2. \A q \in Requests : q # call[h].req => answer'[q] = answer[q]
  BY DEF Reply, IInv, TypeOK
<1>3. answer'[call[h].req] # "waiting"
  BY <1>1, ActiveHandler DEF Reply, At, Attended, IInv, TypeOK
<1>4. \A q \in Requests : Sent(q)' => Sent(q)
  BY <1>1, <1>2 DEF Sent, Attended
<1>5. \A g \in Handler \ {h} : Active(g) => call[g].req # call[h].req
  BY <1>1, SameObjectFacts DEF Attended
<1>6. \A q : Unopposed(q) => Unopposed(q)'
  BY <1>4 DEF Unopposed, Retired, Discarded
<1>7. \A g \in Handler : Active(g)' => Active(g) /\ g # h /\ call[g].req \in Requests
  BY <1>1 DEF Active, IInv, TypeOK, Call
<1>8. (\A g \in Handler : Active(g) =>
         call[g].live /\ answer[call[g].req] = "waiting" /\ Unopposed(call[g].req))'
  BY <1>1, <1>2, <1>5, <1>6, <1>7 DEF Attended
<1>9. (\A g, k \in Handler :
         Active(g) /\ Active(k) /\ g # k => ~SameObject(call[g].req, call[k].req))'
  BY <1>1, <1>7 DEF Attended
<1>10. (\A q \in Requests :
          answer[q] = "waiting" => \E g \in Handler : Active(g) /\ call[g].req = q)'
  BY <1>1, <1>2, <1>3 DEF Attended, Active
<1> QED BY <1>8, <1>9, <1>10 DEF Attended

(* Every step. *)
LEMMA AttendedStep ==
  ASSUME ~CallsTimeOut, IInv, Attended, [Next]_vars
  PROVE  Attended'
<1>1. CASE Crash
  BY <1>1 DEF Crash, Attended, Active, IInv, TypeOK
<1>2. CASE UNCHANGED <<call, answer>>
  BY <1>2 DEF Attended, Active, Unopposed, Retired, Discarded, Sent
<1> QED
  BY <1>1, <1>2, AttendedSend, AttendedCall, AttendedReply
  DEF Next, PodWrites, Timeout, vars

(* As long as no deadline expires, every handler is attended to. *)
LEMMA AttendedInvariance ==
  ASSUME ~CallsTimeOut PROVE Spec => []Attended
<1>1. Init => Attended
  BY DEF Init, Attended, Active
<1>2. IInv /\ Attended /\ [Next]_vars => Attended'
  BY AttendedStep
<1> QED BY <1>1, <1>2, Invariance, PTL DEF Spec

-----------------------------------------------------------------------------
(***************************************************************************)
(* What was deleted stays deleted.                                         *)
(***************************************************************************)

(* No handler makes a volume again that DeleteVolume reported gone: its    *)
(* creation would have to be in progress, and the CO does not ask for it   *)
(* any more.                                                               *)
LEMMA VolumesGoneStep ==
  ASSUME IInv, Attended, VolumesGone, [Next]_vars
  PROVE  VolumesGone'
<1>1. CASE \A h \in Handler : ~CallNef(h)
  BY <1>1, QuietStep DEF Quiet, VolumesGone
<1>2. ASSUME NEW h \in Handler, CallNef(h), NEW r \in Requests,
             r.op = "DeleteVolume", Assured(r)'
      PROVE  r.vol \notin nef'.vols
  <2>1. PICK q \in Requests : q = call[h].req /\ Proceeds(h, q)
    BY <1>2, CallProceeds
  <2>2. CASE r = q /\ Succeeds(h)'
    BY <1>2, <2>1, <2>2 DEF Proceeds, Truthful
  <2>3. CASE Assured(r)
    <3>1. r.vol \notin nef.vols /\ Retired(r.vol) /\ r.vol \in Volume
      BY <1>2, <2>3, AssuredSent, RequestFields DEF VolumesGone, Retired
    <3>2. q.op \in Creations => q.vol # r.vol
      BY <1>2, <2>1, <3>1, CallFrame DEF Attended, Unopposed
    <3>3. DestroysVolume(q) => nef'.vols \subseteq nef.vols
      BY PromotionFields, RequestFields DEF DestroysVolume, NS!Remove, IInv, TypeOK
    <3> QED
      BY <2>1, <3>1, <3>2, <3>3
      DEF Proceeds, Effect, MakesVolume, TakesSnapshot, SetsShare, SetsQuota,
        DiscardsSnapshot
  <2> QED BY <1>2, <2>1, <2>2, <2>3, CallAssures
<1> QED BY <1>1, <1>2 DEF VolumesGone

(* When its original is deleted, a copy takes over. *)
LEMMA PromotesCopy ==
  ASSUME IInv, OriginalsOnly, Lineage, NEW r \in Requests, r.op = "DeleteVolume",
         NEW c \in NS!Clones(nef, r.vol)
  PROVE  c \in nef.vols /\ c \in Volume /\ c # r.vol /\ IsCopy(c)
<1>1. c \in nef.vols /\ c \in Volume
  BY DEF NS!Clones, NS!Appliance, IInv, TypeOK
<1>2. nef.origin[c] \in NS!Snapshot /\ nef.origin[c].parent = r.vol
  BY DEF NS!Clones, NS!SnapshotsOf, NS!Appliance, IInv, TypeOK
<1>3. nef.origin[c] # NoSnapshot
  BY <1>2, ConstantsOK
<1>4. ~IsCopy(r.vol)
  BY DEF OriginalsOnly
<1> QED BY <1>1, <1>2, <1>3, <1>4 DEF Lineage

(* Promotions hand the snapshots of originals to copies. *)
LEMMA LineageOfPromotion ==
  ASSUME IInv, OriginalsOnly, Lineage, NEW r \in Requests, r.op = "DeleteVolume",
         NEW n \in NS!AfterPromotion(nef, r.vol)
  PROVE  /\ n.vols = nef.vols
         /\ \A s \in n.snaps :
              s \in nef.snaps \/ (s.parent \in nef.vols \ {r.vol} /\ IsCopy(s.parent))
         /\ \A v \in Volume :
              n.origin[v] # NoSnapshot => IsCopy(v) \/ IsCopy(n.origin[v].parent)
<1> DEFINE v == r.vol
<1>1. v \in Volume /\ nef \in NS!Appliance
  BY RequestFields DEF IInv, TypeOK
<1>2. n.vols = nef.vols
  BY <1>1, PromotionFields
<1>3. CASE n.snaps = nef.snaps /\ n.origin = nef.origin
  BY <1>2, <1>3 DEF Lineage
<1>4. CASE ~(n.snaps = nef.snaps /\ n.origin = nef.origin)
  <2>1. PICK c \in NS!Clones(nef, v), M \in SUBSET NS!SnapshotsOf(nef, v) :
          /\ n.snaps = (nef.snaps \ M) \cup {NS!Moved(s, c) : s \in M}
          /\ n.origin =
               [u \in Volume |->
                  IF u = c THEN nef.origin[v]
                  ELSE IF u = v THEN NS!Moved(nef.origin[c], c)
                  ELSE IF nef.origin[u] \in M THEN NS!Moved(nef.origin[u], c)
                  ELSE nef.origin[u]]
    <3>1. \/ n.snaps = nef.snaps /\ n.origin = nef.origin
          \/ \E c \in NS!Clones(nef, v), M \in SUBSET NS!SnapshotsOf(nef, v) :
               /\ \A s \in M : NS!Moved(s, c) \notin nef.snaps
               /\ n.snaps = (nef.snaps \ M) \cup {NS!Moved(s, c) : s \in M}
               /\ n.origin =
                    [u \in Volume |->
                       IF u = c THEN nef.origin[v]
                       ELSE IF u = v THEN NS!Moved(nef.origin[c], c)
                       ELSE IF nef.origin[u] \in M THEN NS!Moved(nef.origin[u], c)
                       ELSE nef.origin[u]]
      BY <1>1, PromotionFields, Zenon
    <3> QED BY <1>4, <3>1
  <2>2. c \in nef.vols /\ c \in Volume /\ c # v /\ IsCopy(c)
    BY PromotesCopy
  <2>3. \A s : NS!Moved(s, c).parent = c
    BY DEF NS!Moved
  <2>4. \A s \in n.snaps :
          s \in nef.snaps \/ (s.parent \in nef.vols \ {v} /\ IsCopy(s.parent))
    BY <2>1, <2>2, <2>3
  <2>5. ASSUME NEW u \in Volume, n.origin[u] # NoSnapshot
        PROVE  IsCopy(u) \/ IsCopy(n.origin[u].parent)
    <3>1. n.origin[u] \in {nef.origin[u], NS!Moved(nef.origin[c], c),
                           NS!Moved(nef.origin[u], c)} \/ u = c
      BY <2>1
    <3> QED BY <2>2, <2>3, <2>5, <3>1 DEF Lineage
  <2> QED BY <1>2, <2>4, <2>5
<1> QED BY <1>3, <1>4

(* Every step keeps the lineage. *)
LEMMA LineageStep ==
  ASSUME IInv, OriginalsOnly, Lineage, [Next]_vars
  PROVE  Lineage'
<1>1. CASE \A h \in Handler : ~CallNef(h)
  BY <1>1, QuietStep DEF Quiet, Lineage
<1>2. ASSUME NEW h \in Handler, CallNef(h)
      PROVE  Lineage'
  <2>1. PICK q \in Requests : q = call[h].req /\ Effect(q)
    BY <1>2, CallProceeds DEF Proceeds
  <2>2. q.vol \in Volume /\ SnapshotOf(q) \in NS!Snapshot /\ nef \in NS!Appliance
    BY RequestFields DEF IInv, TypeOK
  <2>3. CASE MakesVolume(q)
    BY <2>2, <2>3 DEF MakesVolume, Lineage, IsCopy, NS!Appliance
  <2>4. CASE TakesSnapshot(q)
    BY <2>4 DEF TakesSnapshot, Lineage, Settings
  <2>5. CASE DestroysVolume(q)
    <3>1. PICK n \in NS!AfterPromotion(nef, q.vol) : nef' = n \/ nef' = NS!Remove(n, q.vol)
      BY <2>5 DEF DestroysVolume
    <3>2. /\ n.vols = nef.vols
          /\ \A s \in n.snaps :
               s \in nef.snaps \/ (s.parent \in nef.vols \ {q.vol} /\ IsCopy(s.parent))
          /\ \A v \in Volume :
               n.origin[v] # NoSnapshot => IsCopy(v) \/ IsCopy(n.origin[v].parent)
      BY <2>5, LineageOfPromotion DEF DestroysVolume
    <3>3. \A s \in n.snaps : s.parent \in nef.vols
      BY <3>2 DEF Lineage
    <3>4. CASE nef' = n
      BY <3>2, <3>3, <3>4 DEF Lineage
    <3>5. CASE nef' = NS!Remove(n, q.vol)
      <4>1. n \in NS!Appliance
        BY <2>2, PromotionType
      <4>2. /\ nef'.vols = n.vols \ {q.vol}
            /\ nef'.snaps = {s \in n.snaps : s.parent # q.vol}
            /\ nef'.origin = [n.origin EXCEPT ![q.vol] = NoSnapshot]
        BY <2>2, <3>5, <4>1, RemovalFields
      <4> QED BY <3>2, <3>3, <4>1, <4>2 DEF Lineage, NS!Appliance
    <3> QED BY <3>1, <3>4, <3>5
  <2>6. CASE UNCHANGED nef \/ SetsShare(q) \/ SetsQuota(q) \/ DiscardsSnapshot(q)
    BY <2>6 DEF SetsShare, SetsQuota, DiscardsSnapshot, Lineage, Settings
  <2> QED BY <2>1, <2>3, <2>4, <2>5, <2>6 DEF Effect
<1> QED BY <1>1, <1>2

(* No handler takes a snapshot again that DeleteSnapshot reported gone,    *)
(* and no promotion brings one back.                                       *)
LEMMA SnapshotsGoneStep ==
  ASSUME IInv, Attended, OriginalsOnly, NamesApart, Lineage, SnapshotsGone, [Next]_vars
  PROVE  SnapshotsGone'
<1>1. CASE \A h \in Handler : ~CallNef(h)
  BY <1>1, QuietStep DEF Quiet, SnapshotsGone
<1>2. ASSUME NEW h \in Handler, CallNef(h), NEW r \in Requests,
             r.op = "DeleteSnapshot", Assured(r)'
      PROVE  SnapshotOf(r) \notin nef'.snaps
  <2>1. PICK q \in Requests : q = call[h].req /\ Proceeds(h, q)
    BY <1>2, CallProceeds
  <2>2. SnapshotOf(r).parent = r.vol /\ SnapshotOf(r).name \in UserSnapName
    BY <1>2, RequestFields, RequestsOK DEF Copying, SnapshotOf
  <2>3. CASE r = q /\ Succeeds(h)'
    BY <1>2, <2>1, <2>2, <2>3, LineageStep DEF Proceeds, Truthful, Lineage
  <2>4. CASE Assured(r)
    <3>1. SnapshotOf(r) \notin nef.snaps /\ Discarded(SnapshotOf(r))
      BY <1>2, <2>4, AssuredSent DEF SnapshotsGone, Discarded
    <3>2. TakesSnapshot(q) => SnapshotOf(q) # SnapshotOf(r)
      <4>1. CASE q.op = "CloneVolume"
        BY <2>2, <4>1, RequestFields DEF NamesApart, SnapshotOf
      <4>2. CASE q.op = "CreateSnapshot"
        BY <1>2, <2>1, <3>1, <4>2, CallFrame DEF Attended, Unopposed
      <4> QED BY <4>1, <4>2 DEF TakesSnapshot
    <3>3. DestroysVolume(q) => SnapshotOf(r) \notin nef'.snaps
      <4> SUFFICES ASSUME DestroysVolume(q)
                   PROVE  SnapshotOf(r) \notin nef'.snaps
        OBVIOUS
      <4>1. PICK n \in NS!AfterPromotion(nef, q.vol) :
              nef' = n \/ nef' = NS!Remove(n, q.vol)
        BY DEF DestroysVolume
      <4>2. SnapshotOf(r) \notin n.snaps
        BY <1>2, <2>2, <3>1, LineageOfPromotion DEF DestroysVolume, OriginalsOnly
      <4> QED BY <4>1, <4>2 DEF NS!Remove
    <3> QED
      BY <2>1, <3>1, <3>2, <3>3
      DEF Proceeds, Effect, MakesVolume, TakesSnapshot, SetsShare, SetsQuota,
        DiscardsSnapshot
  <2> QED BY <1>2, <2>1, <2>3, <2>4, CallAssures
<1> QED BY <1>1, <1>2 DEF SnapshotsGone

(* Nothing was deleted yet. *)
LEMMA GoneInit == Init => VolumesGone /\ Lineage /\ SnapshotsGone
<1> SUFFICES ASSUME Init PROVE VolumesGone /\ Lineage /\ SnapshotsGone
  OBVIOUS
<1>1. \A r \in Requests : ~Assured(r)
  BY ConstantsOK DEF Init, Assured, Granted, Idle, Succeeds
<1>2. nef.snaps = {} /\ nef.origin = [v \in Volume |-> NoSnapshot]
  BY DEF Init, NS!Blank
<1> QED BY <1>1, <1>2 DEF VolumesGone, Lineage, SnapshotsGone

(* Volumes that DeleteVolume reported gone are gone in every state.        *)
LEMMA VolumesGoneInvariance ==
  ASSUME ~CallsTimeOut PROVE Spec => []VolumesGone
<1>1. IInv /\ Attended /\ VolumesGone /\ [Next]_vars => VolumesGone'
  BY VolumesGoneStep
<1> QED BY <1>1, GoneInit, Invariance, AttendedInvariance, PTL DEF Spec

(* So are snapshots that DeleteSnapshot reported gone.                     *)
LEMMA SnapshotsGoneInvariance ==
  ASSUME ~CallsTimeOut, OriginalsOnly, NamesApart
  PROVE  Spec => []SnapshotsGone
<1>1. IInv /\ Lineage /\ [Next]_vars => Lineage'
  BY LineageStep
<1>2. IInv /\ Attended /\ Lineage /\ SnapshotsGone /\ [Next]_vars => SnapshotsGone'
  BY SnapshotsGoneStep
<1> QED BY <1>1, <1>2, GoneInit, Invariance, AttendedInvariance, PTL DEF Spec

(* What DeleteVolume reported gone stays gone, whatever else is asked for, *)
(* as long as no deadline expires: no handler of an earlier creation is    *)
(* still there to bring it back.                                           *)
THEOREM VolumeDeletionHolds ==
  ASSUME ~CallsTimeOut
  PROVE  Spec => [](\A r \in Requests :
                      r.op = "DeleteVolume" /\ Granted(r) => r.vol \notin nef.vols)
<1>1. VolumesGone => \A r \in Requests :
                       r.op = "DeleteVolume" /\ Granted(r) => r.vol \notin nef.vols
  BY DEF VolumesGone, Assured
<1> QED BY <1>1, VolumesGoneInvariance, PTL

(* What DeleteVolume or DeleteSnapshot reported gone stays gone, as long   *)
(* as no deadline expires, only originals are deleted and the names of the *)
(* driver's own snapshots are no user's.                                   *)
THEOREM DeletionHolds ==
  ASSUME ~CallsTimeOut, OriginalsOnly, NamesApart
  PROVE  Spec => []DeletionIsFinal
<1>1. VolumesGone /\ SnapshotsGone => DeletionIsFinal
  BY DEF VolumesGone, SnapshotsGone, Assured, DeletionIsFinal
<1> QED BY <1>1, VolumesGoneInvariance, SnapshotsGoneInvariance, PTL

-----------------------------------------------------------------------------
(***************************************************************************)
(* What was shared stays shared.                                           *)
(***************************************************************************)

(* A handler that is sharing a volume has not answered yet, nor has any    *)
(* other for the same request.                                             *)
LEMMA SharingNotAssured ==
  ASSUME IInv, Attended, NEW h \in Handler, Active(h), ~Succeeds(h)
  PROVE  ~Assured(call[h].req)
<1>1. ~Granted(call[h].req)
  BY DEF Attended, Granted
<1>2. ASSUME NEW g \in Handler, call[g].req = call[h].req, Succeeds(g)
      PROVE  FALSE
  <2>1. g # h /\ Active(g)
    BY <1>2 DEF Succeeds, Active, Idle
  <2> QED BY <1>2, <2>1, SameObjectFacts DEF Attended
<1> QED BY <1>1, <1>2 DEF Assured

(* A volume loses the share of its creation only when it is deleted:       *)
(* nobody else shares it, and the handler that did so is done.             *)
LEMMA SharedStep ==
  ASSUME IInv, Attended, OneCreation, Shared, [Next]_vars
  PROVE  Shared'
<1>1. \A v \in Volume : ~Retired(v)' => ~Retired(v)
  <2>1. CASE Next
    BY <2>1, DroppedStays DEF IInv
  <2>2. CASE UNCHANGED vars
    BY <2>2 DEF vars, Retired, Sent
  <2> QED BY <2>1, <2>2
<1>2. CASE \A h \in Handler : ~CallNef(h)
  BY <1>1, <1>2, QuietStep, RequestFields DEF Quiet, Shared
<1>3. ASSUME NEW h \in Handler, CallNef(h), NEW r \in Requests,
             r.op \in Creations, r.acl # NoShare, Assured(r)', ~Retired(r.vol)
      PROVE  nef'.share[r.vol] = r.acl
  <2>1. PICK q \in Requests : q = call[h].req /\ Proceeds(h, q)
    BY <1>3, CallProceeds
  <2>2. q.vol \in Volume /\ r.vol \in Volume /\ nef \in NS!Appliance
    BY RequestFields DEF IInv, TypeOK
  <2>3. CASE r = q /\ Succeeds(h)'
    BY <1>3, <2>1, <2>3 DEF Proceeds, Truthful
  <2>4. CASE Assured(r)
    <3>1. nef.share[r.vol] = r.acl
      BY <1>3, <2>4 DEF Shared
    <3>2. CASE SetsShare(q) /\ ~UNCHANGED nef.share
      <4>1. call[h].pc \in Sharing
        BY <2>1, <3>2 DEF Proceeds, SetsShare
      <4>2. ~Assured(q)
        BY <1>3, <2>1, <4>1, CallFrame, SharingNotAssured DEF Succeeds, Sharing
      <4>3. q.vol # r.vol
        BY <1>3, <2>4, <3>2, <4>2 DEF OneCreation, SetsShare
      <4> QED BY <2>2, <3>1, <3>2, <4>3 DEF SetsShare
    <3>3. CASE DestroysVolume(q)
      <4>1. PICK n \in NS!AfterPromotion(nef, q.vol) :
              nef' = n \/ nef' = NS!Remove(n, q.vol)
        BY <3>3 DEF DestroysVolume
      <4>2. n \in NS!Appliance /\ n.share = nef.share
        BY <2>2, PromotionType, PromotionFields
      <4>3. q.vol # r.vol
        BY <1>3, <2>1, <3>3, CallFrame DEF DestroysVolume, Retired
      <4>4. nef'.share = n.share \/ nef'.share = [n.share EXCEPT ![q.vol] = NoShare]
        BY <2>2, <4>1, <4>2, RemovalFields
      <4>5. nef'.share[r.vol] = n.share[r.vol]
        BY <2>2, <4>2, <4>3, <4>4 DEF NS!Appliance
      <4> QED BY <3>1, <4>2, <4>5
    <3>4. CASE UNCHANGED nef.share
      BY <3>1, <3>4
    <3> QED
      BY <2>1, <3>2, <3>3, <3>4
      DEF Proceeds, Effect, MakesVolume, TakesSnapshot, SetsShare, SetsQuota,
        DiscardsSnapshot, Settings
  <2> QED BY <1>3, <2>1, <2>3, <2>4, CallAssures
<1> QED BY <1>1, <1>2, <1>3, RequestFields DEF Shared

(* A volume whose creation was answered OK is shared with the access list  *)
(* of its request, as long as no deadline expires and each volume is of    *)
(* one creation: a retry never takes the share of an answered one away.    *)
THEOREM ShareHolds ==
  ASSUME ~CallsTimeOut, OneCreation
  PROVE  Spec => []GrantedShare
<1>1. Init => Shared
  BY ConstantsOK DEF Init, Shared, Assured, Granted, Idle, Succeeds
<1>2. IInv /\ Attended /\ Shared /\ [Next]_vars => Shared'
  BY SharedStep
<1>3. Shared => GrantedShare
  BY DEF Shared, Assured, GrantedShare
<1> QED BY <1>1, <1>2, <1>3, Invariance, AttendedInvariance, PTL DEF Spec

-----------------------------------------------------------------------------
(***************************************************************************)
(* What was promised in size is there.                                     *)
(***************************************************************************)

(* What became of the quota of a volume that is to stay. *)
LEMMA QuotaEffect ==
  ASSUME IInv, NEW q \in Requests, Effect(q), Sent(q), NEW v \in Volume, ~Retired(v)
  PROVE  \/ nef'.quota[v] = nef.quota[v] /\ (v \in nef'.vols => v \in nef.vols)
         \/ v = q.vol /\ MakesVolume(q) /\ nef'.quota[v] = q.size
         \/ v = q.vol /\ SetsQuota(q) /\ nef'.quota[v] = q.size
<1>1. q.vol \in Volume /\ nef \in NS!Appliance /\ nef.quota \in [Volume -> Nat]
  BY RequestFields DEF IInv, TypeOK, NS!Appliance
<1>2. CASE MakesVolume(q)
  BY <1>1, <1>2 DEF MakesVolume
<1>3. CASE SetsQuota(q)
  BY <1>1, <1>3 DEF SetsQuota
<1>4. CASE DestroysVolume(q)
  <2>1. PICK n \in NS!AfterPromotion(nef, q.vol) :
          nef' = n \/ nef' = NS!Remove(n, q.vol)
    BY <1>4 DEF DestroysVolume
  <2>2. n \in NS!Appliance /\ n.quota = nef.quota /\ n.vols = nef.vols
    BY <1>1, PromotionType, PromotionFields
  <2>3. v # q.vol
    BY <1>4 DEF DestroysVolume, Retired
  <2>4. CASE nef' = n
    BY <2>2, <2>4
  <2>5. CASE nef' = NS!Remove(n, q.vol)
    <3>1. nef'.quota = [n.quota EXCEPT ![q.vol] = 0] /\ nef'.vols = n.vols \ {q.vol}
      BY <1>1, <2>2, <2>5, RemovalFields
    <3> QED BY <1>1, <2>2, <2>3, <3>1
  <2> QED BY <2>1, <2>4, <2>5
<1>5. CASE UNCHANGED <<nef.quota, nef.vols>>
  BY <1>5
<1> QED
  BY <1>2, <1>3, <1>4, <1>5
  DEF Effect, TakesSnapshot, SetsShare, DiscardsSnapshot, Settings

(* A volume that the CO knows to be there is there. *)
LEMMA KnownExists ==
  ASSUME IInv, NEW q \in Requests, q.op \in Creations, Known(q.vol), ~Retired(q.vol)
  PROVE  /\ q.vol \in nef.vols
         /\ \E p \in Requests : p.op \in Creations /\ p.vol = q.vol /\ Granted(p)
<1>1. PICK p \in Requests : p.op \in Creations /\ p.vol = q.vol /\ Granted(p)
  BY RequestsOK DEF Known
<1> QED BY <1>1 DEF IInv, Secured

(* What was answered OK stays so. *)
LEMMA KnownStays ==
  ASSUME ~CallsTimeOut, IInv, Attended, [Next]_vars
  PROVE  \A v \in Volume : Known(v) => Known(v)'
<1>1. ASSUME NEW r \in Requests, Granted(r)
      PROVE  Granted(r)'
  <2>1. ASSUME NEW h \in Handler, Reply(h)
        PROVE  Granted(r)'
    <3>1. call[h].req # r
      <4>1. Active(h)
        BY <2>1 DEF Reply, At, Idle, Active
      <4>2. answer[call[h].req] = "waiting"
        BY <4>1 DEF Attended
      <4> QED BY <1>1, <4>2 DEF Granted
    <3> QED BY <1>1, <2>1, <3>1 DEF Reply, Granted, IInv, TypeOK
  <2>2. ASSUME NEW q \in Requests, NEW h \in Handler, Send(q, h)
        PROVE  Granted(r)'
    BY <1>1, <2>2 DEF Send, Granted, IInv, TypeOK
  <2>3. CASE Crash
    BY <1>1, <2>3 DEF Crash, Granted
  <2>4. CASE UNCHANGED answer
    BY <1>1, <2>4 DEF Granted
  <2> QED
    BY <2>1, <2>2, <2>3, <2>4 DEF Next, PodWrites, CallNef, Timeout, vars
<1> QED BY <1>1 DEF Known

(* All that sizes rest on.                                                 *)
Capacity == QuotaKnown /\ QuotaEnough /\ Growing

(* The CO asks for an expansion only if the volume is smaller. *)
LEMMA GrowingSend ==
  ASSUME IInv, Capacity, NEW r \in Requests, NEW h \in Handler, Send(r, h),
         r.op = "ControllerExpandVolume"
  PROVE  /\ Known(r.vol)
         /\ r.vol \in nef.vols /\ ~Retired(r.vol) => nef.quota[r.vol] <= r.size
<1>1. Known(r.vol)
  BY RequestsOK DEF Send, Prerequisite, Creations, Copying, Capacity, Growing
<1>2. ASSUME r.vol \in nef.vols, ~Retired(r.vol)
      PROVE  nef.quota[r.vol] <= r.size
  <2>1. r.size \in Nat /\ nef.quota[r.vol] \in Nat
    BY RequestFields DEF IInv, TypeOK, NS!Appliance
  <2>2. CASE nef.quota[r.vol] = 0
    BY <2>1, <2>2
  <2>3. ASSUME NEW e \in Requests, e.op = "ControllerExpandVolume", e.vol = r.vol,
               Sent(e), nef.quota[r.vol] = e.size
        PROVE  nef.quota[r.vol] <= r.size
    BY <2>1, <2>3 DEF Send, Superseded
  <2>4. ASSUME NEW q \in Requests, q.op \in Creations, q.vol = r.vol,
               \A p \in Requests : Created(p) /\ p.vol = r.vol => nef.quota[r.vol] = p.size
        PROVE  nef.quota[r.vol] <= r.size
    <3>1. PICK p \in Requests : p.op \in Creations /\ p.vol = r.vol /\ Granted(p)
      BY <1>1, <1>2, <2>4, KnownExists
    <3>2. nef.quota[r.vol] = p.size
      BY <2>4, <3>1 DEF Created
    <3>3. ~(p.size >= r.size)
      BY <3>1 DEF Send, Superseded
    <3> QED BY <2>1, <3>2, <3>3
  <2> QED BY <1>2, <2>2, <2>3, <2>4 DEF Capacity, QuotaKnown
<1> QED BY <1>1, <1>2

(* The steps that leave the appliance alone. *)
LEMMA CapacityQuiet ==
  ASSUME ~CallsTimeOut, IInv, Attended, Capacity, [Next]_vars,
         \A h \in Handler : ~CallNef(h)
  PROVE  Capacity'
<1>1. /\ \A v \in Volume : ~Retired(v)' => ~Retired(v)
      /\ \A r \in Requests : Sent(r) => Sent(r)'
  <2>1. CASE Next
    BY <2>1, DroppedStays, SentStays DEF IInv
  <2>2. CASE UNCHANGED vars
    BY <2>2 DEF vars, Retired, Sent
  <2> QED BY <2>1, <2>2
<1>2. Quiet
  BY QuietStep
<1>3. QuotaKnown'
  <2> SUFFICES ASSUME NEW v \in nef'.vols, ~Retired(v)'
               PROVE  (\/ v \in Existing /\ nef.quota[v] = 0
                       \/ \E e \in Requests :
                            /\ e.op = "ControllerExpandVolume" /\ e.vol = v /\ Sent(e)
                            /\ nef.quota[v] = e.size
                       \/ /\ \E q \in Requests :
                               q.op \in Creations /\ q.vol = v /\ nef.quota[v] = q.size
                          /\ \A r \in Requests :
                               Created(r) /\ r.vol = v => nef.quota[v] = r.size)'
    BY DEF QuotaKnown
  <2>1. v \in nef.vols /\ v \in Volume /\ ~Retired(v) /\ nef'.quota = nef.quota
    BY <1>1, <1>2 DEF Quiet, IInv, TypeOK, NS!Appliance
  <2> QED BY <1>1, <1>2, <2>1 DEF Capacity, QuotaKnown, Quiet
<1>4. QuotaEnough'
  BY <1>1, <1>2, RequestFields DEF Capacity, QuotaEnough, Quiet
<1>5. (\A r \in Requests : r.op = "ControllerExpandVolume" /\ Sent(r) => Known(r.vol))'
  BY <1>2, KnownStays, GrowingSend, RequestFields DEF Quiet, Capacity, Growing
<1>6. ASSUME NEW h \in Handler, NEW r, r = call'[h].req,
             call'[h].pc \in {"Resolve", "UpdateFilesystem"},
             r.op = "ControllerExpandVolume", r.vol \in nef'.vols, ~Retired(r.vol)'
      PROVE  nef'.quota[r.vol] <= r.size
  <2>1. /\ r.vol \in nef.vols /\ r.vol \in Volume /\ ~Retired(r.vol)
        /\ nef'.quota = nef.quota
    BY <1>1, <1>2, <1>6 DEF Quiet, IInv, TypeOK, NS!Appliance
  <2>2. CASE call'[h].req = call[h].req /\ call'[h].pc = call[h].pc
    BY <1>6, <2>1, <2>2 DEF Capacity, Growing
  <2>3. CASE r \in Requests /\ Send(r, h)
    BY <1>6, <2>1, <2>3, GrowingSend
  <2>4. call'[h] # Idle
    BY <1>6 DEF Idle
  <2>5. ASSUME NEW q \in Requests, NEW g \in Handler, Send(q, g)
        PROVE  call'[h] = call[h] \/ (g = h /\ r = q)
    BY <1>6, <2>5 DEF Send, IInv, TypeOK
  <2>6. ASSUME NEW g \in Handler, Reply(g)
        PROVE  call'[h] = call[h]
    BY <2>4, <2>6 DEF Reply, IInv, TypeOK
  <2> QED
    BY <2>2, <2>3, <2>4, <2>5, <2>6
    DEF Next, PodWrites, Timeout, Crash, vars
<1> QED BY <1>3, <1>4, <1>5, <1>6 DEF Capacity, Growing

(* A creation that goes on knows the size of its volume, or that the       *)
(* volume has grown since.                                                 *)
LEMMA CreatedSize ==
  ASSUME IInv, SizesAgree, Capacity, NEW h \in Handler, CallNef(h),
         NEW q \in Requests, q = call[h].req, q.op \in Creations,
         IsDone(h)', ~IsDone(h), ~Retired(q.vol)
  PROVE  /\ q.vol \in nef'.vols
         /\ \/ nef'.quota[q.vol] = q.size
            \/ /\ UNCHANGED nef /\ nef.quota[q.vol] >= q.size
               /\ \A p \in Requests : p.op \in Creations /\ p.vol = q.vol => p.size = q.size
<1>1. Proceeds(h, q) /\ q.vol \in Volume /\ q.size \in Nat
  BY CallProceeds, RequestFields
<1>2. CASE nef'.quota[q.vol] = q.size
  BY <1>1, <1>2 DEF Proceeds, Sound
<1>3. CASE UNCHANGED nef /\ (q.size = 0 \/ q.op \in Copying)
  <2>1. q.vol \in nef.vols /\ nef.quota[q.vol] \in Nat
    BY <1>1, <1>3 DEF Proceeds, Sound, IInv, TypeOK, NS!Appliance
  <2>2. \A p \in Requests : p.op \in Creations /\ p.vol = q.vol => p.size = q.size
    BY <1>3 DEF SizesAgree
  <2>3. ASSUME NEW e \in Requests, e.op = "ControllerExpandVolume", e.vol = q.vol, Sent(e)
        PROVE  nef.quota[q.vol] >= q.size
    <3>1. PICK p \in Requests : p.op \in Creations /\ p.vol = q.vol /\ Granted(p)
      BY <2>3, KnownExists DEF Capacity, Growing
    <3> QED BY <2>2, <3>1 DEF Capacity, QuotaEnough, Created
  <2>4. nef.quota[q.vol] >= q.size
    BY <1>1, <2>1, <2>2, <2>3, RequestsOK DEF Capacity, QuotaKnown
  <2> QED BY <1>1, <1>3, <2>1, <2>2, <2>4
<1> QED BY <1>1, <1>2, <1>3 DEF Proceeds, Sound

(* The quota is known after every call. *)
LEMMA QuotaKnownCall ==
  ASSUME IInv, SizesAgree, Capacity, NEW h \in Handler, CallNef(h)
  PROVE  QuotaKnown'
<1>1. PICK q \in Requests : q = call[h].req /\ Proceeds(h, q) /\ Sent(q)
  BY CallProceeds, CallFrame
<1>2. \A r \in Requests : Sent(r)' <=> Sent(r)
  BY CallAssures
<1>3. ASSUME NEW v \in nef'.vols, ~Retired(v)'
      PROVE  (\/ v \in Existing /\ nef.quota[v] = 0
              \/ \E e \in Requests :
                   /\ e.op = "ControllerExpandVolume" /\ e.vol = v /\ Sent(e)
                   /\ nef.quota[v] = e.size
              \/ /\ \E p \in Requests :
                      p.op \in Creations /\ p.vol = v /\ nef.quota[v] = p.size
                 /\ \A r \in Requests : Created(r) /\ r.vol = v => nef.quota[v] = r.size)'
  <2>1. v \in Volume /\ ~Retired(v)
    <3>1. nef' \in NS!Appliance
      BY CallNefStep DEF HandlerStep
    <3> QED BY <1>2, <1>3, <3>1 DEF Retired, NS!Appliance
  <2>2. CASE nef'.quota[v] = nef.quota[v] /\ v \in nef.vols
    <3>1. ASSUME NEW p \in Requests, p.op \in Creations, p.vol = v, nef.quota[v] = p.size,
                 NEW r \in Requests, Created(r)', ~Created(r), r.vol = v
          PROVE  nef'.quota[v] = r.size
      <4>1. r = q /\ r.op \in Creations /\ IsDone(h)' /\ ~IsDone(h)
        BY <1>1, <3>1, CallAssures
      <4> QED BY <1>1, <2>1, <2>2, <3>1, <4>1, CreatedSize
    <3> QED BY <1>2, <1>3, <2>1, <2>2, <3>1 DEF Capacity, QuotaKnown
  <2>3. CASE v = q.vol /\ MakesVolume(q) /\ nef'.quota[v] = q.size
    <3>1. ASSUME NEW r \in Requests, Created(r)', r.vol = v
          PROVE  nef'.quota[v] = r.size
      <4>1. ~Created(r)
        <5>1. v \notin nef.vols
          BY <2>3 DEF MakesVolume
        <5> QED
          BY <2>1, <3>1, <5>1, ActiveHandler
          DEF Created, Done, Sharing, IInv, Secured, CallOK
      <4>2. r = q
        BY <1>1, <3>1, <4>1, CallAssures
      <4> QED BY <2>3, <4>2
    <3> QED BY <2>3, <3>1 DEF MakesVolume
  <2>4. CASE v = q.vol /\ SetsQuota(q) /\ nef'.quota[v] = q.size
    BY <1>1, <1>2, <2>4 DEF SetsQuota
  <2> QED BY <1>1, <1>3, <2>1, <2>2, <2>3, <2>4, QuotaEffect DEF Proceeds
<1> QED BY <1>3 DEF QuotaKnown

(* A volume is made before its creation is reported and before it is       *)
(* expanded.                                                               *)
LEMMA MadeFirst ==
  ASSUME IInv, Capacity, NEW q \in Requests, MakesVolume(q), NEW r \in Requests,
         r.vol = q.vol, ~Retired(q.vol)
  PROVE  /\ ~Created(r)
         /\ r.op = "ControllerExpandVolume" => ~Sent(r)
<1>1. q.op \in Creations /\ q.vol \notin nef.vols
  BY DEF MakesVolume
<1>2. ~Created(r)
  BY <1>1, ActiveHandler DEF Created, Done, Sharing, IInv, Secured, CallOK
<1>3. r.op = "ControllerExpandVolume" => ~Sent(r)
  BY <1>1, KnownExists DEF Capacity, Growing
<1> QED BY <1>2, <1>3

(* No call makes a volume smaller than it was promised. *)
LEMMA QuotaEnoughCall ==
  ASSUME IInv, SizesAgree, Capacity, NEW h \in Handler, CallNef(h)
  PROVE  QuotaEnough'
<1>1. PICK q \in Requests : q = call[h].req /\ Proceeds(h, q) /\ Sent(q)
  BY CallProceeds, CallFrame
<1>2. ASSUME NEW r \in Requests, ~Retired(r.vol)',
             Created(r)' \/ (r.op = "ControllerExpandVolume" /\ Assured(r)')
      PROVE  nef'.quota[r.vol] >= r.size
  <2>1. ~Retired(r.vol) /\ r.vol \in Volume /\ r.size \in Nat
    BY <1>2, CallAssures, RequestFields DEF Retired
  <2>2. nef.quota[r.vol] \in Nat
    BY <2>1 DEF IInv, TypeOK, NS!Appliance
  <2>3. CASE Created(r) \/ (r.op = "ControllerExpandVolume" /\ Assured(r))
    <3>1. nef.quota[r.vol] >= r.size
      BY <2>1, <2>3 DEF Capacity, QuotaEnough
    <3>2. ~(r.vol = q.vol /\ MakesVolume(q))
      BY <2>1, <2>3, MadeFirst, AssuredSent
    <3>3. ASSUME r.vol = q.vol, SetsQuota(q), nef'.quota[r.vol] = q.size
          PROVE  nef'.quota[r.vol] >= r.size
      <4>1. CASE UNCHANGED nef
        BY <3>1, <4>1
      <4>2. CASE ~UNCHANGED nef
        <5>1. nef.quota[q.vol] <= q.size /\ q.size \in Nat
          BY <1>1, <2>1, <3>3, <4>2, RequestFields
          DEF Proceeds, Sound, SetsQuota, Capacity, Growing
        <5> QED BY <2>1, <2>2, <3>1, <3>3, <5>1
      <4> QED BY <4>1, <4>2
    <3> QED BY <1>1, <2>1, <3>1, <3>2, <3>3, QuotaEffect DEF Proceeds
  <2>4. CASE r = q /\ r.op \in Creations /\ IsDone(h)' /\ ~IsDone(h)
    BY <1>1, <2>1, <2>4, CreatedSize
  <2>5. CASE r = q /\ r.op = "ControllerExpandVolume" /\ Succeeds(h)'
    BY <1>1, <2>1, <2>5 DEF Proceeds, Truthful
  <2> QED BY <1>1, <1>2, <2>3, <2>4, <2>5, CallAssures
<1> QED BY <1>2 DEF QuotaEnough

(* An expansion in progress is the only one of its volume. *)
LEMMA GrowingCall ==
  ASSUME IInv, Attended, Capacity, NEW h \in Handler, CallNef(h)
  PROVE  Growing'
<1>1. PICK q \in Requests : q = call[h].req /\ Proceeds(h, q) /\ Sent(q)
  BY CallProceeds, CallFrame
<1>2. /\ \A r \in Requests : Sent(r)' <=> Sent(r)
      /\ \A v : Known(v)' <=> Known(v)
  BY CallFrame DEF Sent, Known, Granted
<1>3. (\A r \in Requests : r.op = "ControllerExpandVolume" /\ Sent(r) => Known(r.vol))'
  BY <1>2 DEF Capacity, Growing
<1>4. ASSUME NEW g \in Handler, NEW r, r = call'[g].req,
             call'[g].pc \in {"Resolve", "UpdateFilesystem"},
             r.op = "ControllerExpandVolume", r.vol \in nef'.vols, ~Retired(r.vol)'
      PROVE  nef'.quota[r.vol] <= r.size
  <2>1. Active(g)
    <3>1. call'[g] # Idle
      BY <1>4 DEF Idle
    <3> QED BY <3>1, CallFrame DEF Active
  <2>2. r = call[g].req /\ r \in Requests /\ Sent(r)
    BY <1>4, <2>1, CallFrame DEF Active, IInv, TypeOK, Call, CallOK
  <2>3. r.vol \in Volume /\ ~Retired(r.vol)
    BY <1>2, <1>4, <2>2, RequestFields DEF Retired
  <2>4. CASE g = h
    BY <1>1, <1>4, <2>2, <2>3, <2>4 DEF Proceeds, Sound, Capacity, Growing
  <2>5. CASE g # h
    <3>1. call'[g] = call[g]
      BY <2>5, CallFrame
    <3>2. ~(r.vol = q.vol /\ MakesVolume(q))
      BY <1>4, <2>2, <2>3, MadeFirst
    <3>3. ~(r.vol = q.vol /\ SetsQuota(q))
      <4>1. ~SameObject(q, r)
        BY <1>1, <2>1, <2>2, <2>5, CallFrame DEF Attended
      <4> QED BY <1>4, <4>1 DEF SetsQuota, SameObject, Sidecar, Creations
    <3>4. nef'.quota[r.vol] = nef.quota[r.vol] /\ r.vol \in nef.vols
      BY <1>1, <1>4, <2>3, <3>2, <3>3, QuotaEffect DEF Proceeds
    <3> QED BY <1>4, <2>2, <2>3, <3>1, <3>4 DEF Capacity, Growing
  <2> QED BY <2>4, <2>5
<1> QED BY <1>3, <1>4 DEF Growing

(* A volume is never smaller than a size that CreateVolume or              *)
(* ControllerExpandVolume answered OK for it, as long as no deadline       *)
(* expires and the creations of a volume that take it as they find it ask  *)
(* for one size: expansions of a volume follow one another, each larger    *)
(* than the last.                                                          *)
THEOREM CapacityHolds ==
  ASSUME ~CallsTimeOut, SizesAgree
  PROVE  Spec => []AckedCapacity
<1>1. Init => Capacity
  <2> SUFFICES ASSUME Init PROVE Capacity
    OBVIOUS
  <2>1. \A r \in Requests : ~Assured(r) /\ ~Created(r) /\ ~Sent(r)
    BY ConstantsOK DEF Init, Assured, Created, Granted, Sent, Idle, Succeeds, Done, Sharing
  <2>2. nef.vols = Existing /\ \A v \in Volume : nef.quota[v] = 0
    BY DEF Init, NS!Blank
  <2>3. QuotaKnown
    BY <2>2, ConstantsOK DEF QuotaKnown
  <2>4. \A h \in Handler : call[h].pc = "idle"
    BY DEF Init, Idle
  <2> QED BY <2>1, <2>3, <2>4 DEF Capacity, QuotaEnough, Growing
<1>2. IInv /\ Attended /\ Capacity /\ [Next]_vars => Capacity'
  BY CapacityQuiet, QuotaKnownCall, QuotaEnoughCall, GrowingCall DEF Capacity
<1>3. Capacity => AckedCapacity
  BY DEF Capacity, QuotaEnough, AckedCapacity, Created, Assured
<1> QED BY <1>1, <1>2, <1>3, Invariance, AttendedInvariance, PTL DEF Spec
=============================================================================
