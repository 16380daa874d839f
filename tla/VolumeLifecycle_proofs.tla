------------------------- MODULE VolumeLifecycle_proofs -------------------------
(***************************************************************************)
(* ControllerServer implements VolumeLifecycle as long as no deadline of   *)
(* the CO expires, only originals are deleted and the names of the         *)
(* driver's own snapshots are no user's.                                   *)
(***************************************************************************)
EXTENDS TimelyController_proofs

-----------------------------------------------------------------------------
(* A clone that goes on has its snapshot, or somebody wants that gone:     *)
(* only what deletes it on request can come between.                       *)
LEMMA CloneHasSourceStep ==
  ASSUME IInv, CloneHasSource, [Next]_vars
  PROVE  CloneHasSource'
<1>1. \A s \in NS!Snapshot : Dropped(s) => Dropped(s)'
  <2>1. CASE Next
    BY <2>1, DroppedStays DEF IInv
  <2>2. CASE UNCHANGED vars
    BY <2>2 DEF vars, Dropped, Retired, Discarded, Sent
  <2> QED BY <2>1, <2>2
<1>2. CASE \A h \in Handler : ~CallNef(h)
  <2>1. nef'.snaps = nef.snaps
    BY <1>2, QuietAppliance
  <2>2. \A h \in Handler : \A r \in Requests :
          call'[h].req = r /\ call'[h].pc # "Resolve" =>
            call[h].req = r /\ call[h].pc = call'[h].pc /\ call[h].code = call'[h].code
    BY <1>2, QuietHandlers
  <2> QED
    BY <1>1, <2>1, <2>2, RequestFields DEF CloneHasSource, Done, Sharing
<1>3. ASSUME NEW h \in Handler, CallNef(h), NEW g \in Handler, NEW r \in Requests,
             call'[g].req = r, r.op = "CloneVolume",
             call'[g].pc = "CloneSnapshot" \/ Done(call'[g].pc, call'[g].code)
      PROVE  SnapshotOf(r) \in nef'.snaps \/ Dropped(SnapshotOf(r))'
  <2>1. PICK q \in Requests :
          q = call[h].req /\ Proceeds(h, q) /\ Sent(q) /\ Keeps(q)
    BY <1>3, CallProceeds, CallFrame, CallNefStep DEF HandlerStep
  <2>2. SnapshotOf(r) \in NS!Snapshot
    BY RequestFields
  <2>3. UNCHANGED answer /\ call[g].req = r
    BY <1>3, CallFrame
  <2>4. CASE g = h /\ call'[g].pc = "CloneSnapshot"
    BY <1>3, <2>1, <2>3, <2>4 DEF Proceeds, Sound
  <2>5. CASE SnapshotOf(r) \in nef.snaps \/ Dropped(SnapshotOf(r))
    <3>1. Dropped(SnapshotOf(r)) => Dropped(SnapshotOf(r))'
      BY <1>1, <2>2
    <3>2. q.op = "DeleteVolume" => Retired(q.vol)'
      BY <2>1, <2>3 DEF Retired, Sent
    <3>3. q.op = "DeleteSnapshot" => Discarded(SnapshotOf(q))'
      BY <2>1, <2>3 DEF Discarded, Sent
    <3> QED BY <2>1, <2>5, <3>1, <3>2, <3>3 DEF Keeps, Dropped
  <2>6. CASE g = h /\ Done(call'[g].pc, call'[g].code)
    <3>1. call[g].pc = "CloneSnapshot" \/ Done(call[g].pc, call[g].code)
      BY <1>3, <2>1, <2>3, <2>6 DEF Proceeds, Sound, IsDone
    <3> QED BY <1>3, <2>3, <2>5, <3>1 DEF CloneHasSource
  <2>7. CASE g # h
    <3>1. call'[g] = call[g]
      BY <1>3, <2>7, CallFrame
    <3> QED BY <1>3, <2>3, <2>5, <3>1 DEF CloneHasSource
  <2> QED BY <1>3, <2>4, <2>6, <2>7
<1> QED BY <1>2, <1>3 DEF CloneHasSource

-----------------------------------------------------------------------------
(* The same words mean the same in both specifications.                    *)
LEMMA SameWords ==
  /\ \A v : Lifecycle!Retired(v) <=> Retired(v)
  /\ \A s : Lifecycle!Discarded(s) <=> Discarded(s)
  /\ \A s : Lifecycle!Dropped(s) <=> Dropped(s)
<1>1. \A v : Lifecycle!Retired(v) <=> Retired(v)
  BY DEF Lifecycle!Retired, Lifecycle!Asked, Retired, Sent
<1>2. \A s : Lifecycle!Discarded(s) <=> Discarded(s)
  BY DEF Lifecycle!Discarded, Lifecycle!Asked, Discarded, Sent
<1> QED BY <1>1, <1>2 DEF Lifecycle!Dropped, Dropped

(* The controller starts where the abstract specification starts.          *)
LEMMA InitMaps == Init => Lifecycle!Init
  BY ConstantsOK DEF Init, Lifecycle!Init, NS!Blank

-----------------------------------------------------------------------------
(* The steps of the CO. *)

(* A call is made. *)
LEMMA SendMaps ==
  ASSUME IInv, Attended, NamesApart, NEW r \in Requests, NEW h \in Handler, Send(r, h)
  PROVE  Lifecycle!Ask(r)
<1>1. answer[r] \in {"new", "failed"} /\ ~Superseded(r)
  BY DEF Send
<1>2. r.op \in Creations => ~Lifecycle!Retired(r.vol)
  BY <1>1, SameWords DEF Superseded
<1>3. \A q, p \in Requests :
        q.op = "CloneVolume" /\ p.op = "DeleteSnapshot" => SnapshotOf(q) # SnapshotOf(p)
  BY RequestFields, RequestsOK DEF NamesApart, SnapshotOf
<1>4. r.op \in {"CloneVolume", "CreateSnapshot"} => ~Lifecycle!Discarded(SnapshotOf(r))
  BY <1>1, <1>3, SameWords DEF Superseded, Discarded
<1>5. ASSUME NEW q \in Requests, answer[q] = "waiting"
      PROVE  ~SameObject(q, r)
  BY <1>5 DEF Attended, Send
<1>6. ASSUME NEW q \in Requests, answer[q] = "waiting"
      PROVE  /\ q.op \in Creations /\ r.op = "DeleteVolume" => q.vol # r.vol
             /\ q.op \in {"CloneVolume", "CreateSnapshot"} /\ r.op = "DeleteSnapshot"
                  => SnapshotOf(q) # SnapshotOf(r)
  BY <1>3, <1>5, <1>6, OpposedIsSame
<1>7. answer' = [answer EXCEPT ![r] = "waiting"] /\ UNCHANGED <<nef.vols, nef.snaps>>
  BY DEF Send
<1> QED BY <1>1, <1>2, <1>4, <1>6, <1>7 DEF Lifecycle!Ask, Lifecycle!Waiting

(* A call is answered. *)
LEMMA ReplyMaps ==
  ASSUME IInv, Attended, VolumesGone, SnapshotsGone, CloneHasSource,
         NEW h \in Handler, Reply(h)
  PROVE  \/ \E r \in Requests : Lifecycle!AnswerOK(r)
         \/ Lifecycle!Fail
<1>1. PICK r \in Requests : r = call[h].req /\ CallOK(call[h])
  BY ActiveHandler DEF Reply, At
<1>2. Active(h)
  BY DEF Reply, At, Idle, Active
<1>3. /\ answer[r] = "waiting" /\ UNCHANGED <<nef.vols, nef.snaps>>
      /\ answer' = [answer EXCEPT ![r] = IF call[h].code = "OK" THEN "OK" ELSE "failed"]
  BY <1>1, <1>2 DEF Attended, Reply
<1>4. CASE call[h].code = "OK"
  <2>1. Assured(r) /\ Secured(r)
    BY <1>1, <1>4 DEF Assured, Succeeds, Reply, At, CallOK, Done
  <2>2. r.op = "CloneVolume" => SnapshotOf(r) \in nef.snaps \/ Dropped(SnapshotOf(r))
    BY <1>1, <1>4 DEF CloneHasSource, Reply, At, Done
  <2>3. Lifecycle!Achieved(r)
    BY <2>1, <2>2, SameWords
    DEF Lifecycle!Achieved, Secured, VolumesGone, SnapshotsGone
  <2> QED BY <1>3, <1>4, <2>3 DEF Lifecycle!AnswerOK, Lifecycle!Waiting
<1>5. CASE call[h].code # "OK"
  <2>1. answer' = [q \in Requests |-> IF q \in {r} THEN "failed" ELSE answer[q]]
    BY <1>3, <1>5 DEF IInv, TypeOK
  <2>2. {r} \in SUBSET {q \in Requests : Lifecycle!Waiting(q)}
    BY <1>3 DEF Lifecycle!Waiting
  <2> QED BY <1>3, <2>1, <2>2 DEF Lifecycle!Fail
<1> QED BY <1>4, <1>5

(* The driver restarts. *)
LEMMA CrashMaps == Crash => Lifecycle!Fail
<1> SUFFICES ASSUME Crash PROVE Lifecycle!Fail
  OBVIOUS
<1> DEFINE F == {r \in Requests : Lifecycle!Waiting(r)}
<1>1. answer' = [r \in Requests |-> IF r \in F THEN "failed" ELSE answer[r]]
  BY DEF Crash, Lifecycle!Waiting
<1>2. UNCHANGED <<nef.vols, nef.snaps>>
  BY DEF Crash
<1> QED BY <1>1, <1>2 DEF Lifecycle!Fail

-----------------------------------------------------------------------------
(* The calls to the appliance. *)

(* A promotion changes the snapshots only by handing some over. *)
LEMMA PromotionSnaps ==
  ASSUME NEW n \in NS!Appliance, NEW v \in Volume, NEW m \in NS!AfterPromotion(n, v)
  PROVE  \/ m.snaps = n.snaps
         \/ \E c \in NS!Clones(n, v), M \in SUBSET NS!SnapshotsOf(n, v) :
              /\ \A s \in M : NS!Moved(s, c) \notin n.snaps
              /\ m.snaps = (n.snaps \ M) \cup {NS!Moved(s, c) : s \in M}
<1>1. \/ m.snaps = n.snaps /\ m.origin = n.origin
      \/ \E c \in NS!Clones(n, v), M \in SUBSET NS!SnapshotsOf(n, v) :
           /\ \A s \in M : NS!Moved(s, c) \notin n.snaps
           /\ m.snaps = (n.snaps \ M) \cup {NS!Moved(s, c) : s \in M}
           /\ m.origin =
                [u \in Volume |->
                   IF u = c THEN n.origin[v]
                   ELSE IF u = v THEN NS!Moved(n.origin[c], c)
                   ELSE IF n.origin[u] \in M THEN NS!Moved(n.origin[u], c)
                   ELSE n.origin[u]]
  BY PromotionFields, Zenon
<1> QED BY <1>1

(* What DeleteVolume does: its volume hands snapshots over, or goes. *)
LEMMA DestroysMaps ==
  ASSUME IInv, OriginalsOnly, Lineage, NEW q \in Requests, answer[q] = "waiting",
         DestroysVolume(q), UNCHANGED answer
  PROVE  Lifecycle!Destroy(q)
<1> DEFINE v == q.vol
<1>1. v \in Volume /\ nef \in NS!Appliance /\ v \in nef.vols /\ q.op = "DeleteVolume"
  BY RequestFields DEF IInv, TypeOK, DestroysVolume
<1>2. PICK n \in NS!AfterPromotion(nef, v) : nef' = n \/ nef' = NS!Remove(n, v)
  BY DEF DestroysVolume
<1>3. n \in NS!Appliance /\ n.vols = nef.vols
  BY <1>1, PromotionType, PromotionFields
<1>4. n.snaps \in Lifecycle!HandedOver(v)
  <2>1. CASE n.snaps = nef.snaps
    BY <2>1 DEF Lifecycle!HandedOver
  <2>2. CASE n.snaps # nef.snaps
    <3>1. PICK c \in NS!Clones(nef, v), M \in SUBSET NS!SnapshotsOf(nef, v) :
            /\ \A s \in M : NS!Moved(s, c) \notin nef.snaps
            /\ n.snaps = (nef.snaps \ M) \cup {NS!Moved(s, c) : s \in M}
      BY <1>1, <2>2, PromotionSnaps, Zenon
    <3>2. c \in nef.vols \ {v}
      BY <1>1, PromotesCopy
    <3>3. M \in SUBSET Lifecycle!SnapshotsOf(v)
      BY DEF NS!SnapshotsOf, Lifecycle!SnapshotsOf
    <3>4. \A s, u : NS!Moved(s, u) = Lifecycle!Moved(s, u)
      BY DEF NS!Moved, Lifecycle!Moved
    <3> DEFINE p == <<c, M>>
    <3>5. p \in (nef.vols \ {v}) \X SUBSET Lifecycle!SnapshotsOf(v)
      BY <3>2, <3>3
    <3>6. /\ \A s \in p[2] : Lifecycle!Moved(s, p[1]) \notin nef.snaps
          /\ n.snaps = (nef.snaps \ p[2]) \cup {Lifecycle!Moved(s, p[1]) : s \in p[2]}
      BY <3>1, <3>4
    <3> QED BY <3>5, <3>6 DEF Lifecycle!HandedOver
  <2> QED BY <2>1, <2>2
<1>5. \/ nef'.vols = nef.vols \ {v} /\ nef'.snaps = {s \in n.snaps : s.parent # v}
      \/ nef'.vols = nef.vols /\ nef'.snaps = n.snaps
  <2>1. CASE nef' = n
    BY <1>3, <2>1
  <2>2. CASE nef' = NS!Remove(n, v)
    BY <1>1, <1>3, <2>2, RemovalFields
  <2> QED BY <1>2, <2>1, <2>2
<1> QED BY <1>1, <1>4, <1>5 DEF Lifecycle!Destroy, Lifecycle!Waiting

(* Every call happens while its request is waiting, and is an effect of it *)
(* or none at all.                                                         *)
LEMMA CallMaps ==
  ASSUME IInv, Attended, OriginalsOnly, Lineage, NEW h \in Handler, CallNef(h)
  PROVE  \/ \E r \in Requests : \/ Lifecycle!Make(r) \/ Lifecycle!Take(r)
                                \/ Lifecycle!Discard(r) \/ Lifecycle!Destroy(r)
         \/ UNCHANGED Lifecycle!vars
<1>1. PICK q \in Requests : q = call[h].req /\ Effect(q)
  BY CallProceeds DEF Proceeds
<1>2. UNCHANGED answer /\ answer[q] = "waiting"
  BY <1>1, CallFrame DEF Attended
<1>3. CASE MakesVolume(q)
  BY <1>2, <1>3 DEF MakesVolume, Lifecycle!Make, Lifecycle!Waiting
<1>4. CASE TakesSnapshot(q)
  BY <1>2, <1>4 DEF TakesSnapshot, Lifecycle!Take, Lifecycle!Waiting
<1>5. CASE DiscardsSnapshot(q)
  BY <1>2, <1>5 DEF DiscardsSnapshot, Lifecycle!Discard, Lifecycle!Waiting
<1>6. CASE DestroysVolume(q)
  BY <1>2, <1>6, DestroysMaps
<1>7. CASE UNCHANGED nef \/ SetsShare(q) \/ SetsQuota(q)
  BY <1>2, <1>7 DEF SetsShare, SetsQuota, Lifecycle!vars
<1> QED BY <1>1, <1>3, <1>4, <1>5, <1>6, <1>7 DEF Effect

-----------------------------------------------------------------------------
(* Every step of the handlers and of the CO is a step of the promise. *)
LEMMA NextMaps ==
  ASSUME ~CallsTimeOut, OriginalsOnly, NamesApart,
         IInv, Attended, Lineage, VolumesGone, SnapshotsGone, CloneHasSource,
         [Next]_vars
  PROVE  [Lifecycle!Next]_(Lifecycle!vars)
<1>1. CASE Crash
  BY <1>1, CrashMaps DEF Lifecycle!Next
<1>2. ASSUME NEW r \in Requests, NEW h \in Handler, Send(r, h)
      PROVE  Lifecycle!Next
  BY <1>2, SendMaps DEF Lifecycle!Next
<1>3. ASSUME NEW h \in Handler, CallNef(h)
      PROVE  [Lifecycle!Next]_(Lifecycle!vars)
  BY <1>3, CallMaps DEF Lifecycle!Next
<1>4. ASSUME NEW h \in Handler, Reply(h)
      PROVE  Lifecycle!Next
  BY <1>4, ReplyMaps DEF Lifecycle!Next
<1>5. ASSUME NEW v \in Volume, NEW w \in WriteId, PodWrites(v, w)
      PROVE  UNCHANGED Lifecycle!vars
  BY <1>5 DEF PodWrites, NS!WriteData, NS!Appliance, IInv, TypeOK, Lifecycle!vars
<1>6. CASE UNCHANGED vars
  BY <1>6 DEF vars, Lifecycle!vars
<1> QED BY <1>1, <1>2, <1>3, <1>4, <1>5, <1>6 DEF Next, Timeout

(* The controller service implements its abstract specification: every     *)
(* effect of a call lies between the call and its answer, no other call,   *)
(* retry or restart undoes it, and OK is answered only when it is true.    *)
THEOREM Refinement ==
  ASSUME ~CallsTimeOut, OriginalsOnly, NamesApart
  PROVE  Spec => ImplementsLifecycle
<1>1. Init => CloneHasSource
  BY ConstantsOK DEF Init, CloneHasSource, Idle
<1>2. IInv /\ CloneHasSource /\ [Next]_vars => CloneHasSource'
  BY CloneHasSourceStep
<1>3. IInv /\ Lineage /\ [Next]_vars => Lineage'
  BY LineageStep
<1>4. IInv /\ Attended /\ Lineage /\ VolumesGone /\ SnapshotsGone /\ CloneHasSource
        /\ [Next]_vars => [Lifecycle!Next]_(Lifecycle!vars)
  BY NextMaps
<1> QED
  BY <1>1, <1>2, <1>3, <1>4, InitMaps, GoneInit, Invariance, AttendedInvariance,
    VolumesGoneInvariance, SnapshotsGoneInvariance, PTL
  DEF Spec, ImplementsLifecycle, Lifecycle!Spec
=============================================================================
