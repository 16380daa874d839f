--------------------------- MODULE SourceData_proofs ---------------------------
(***************************************************************************)
(* What copies and snapshots hold: no write that was in their source when  *)
(* they were asked for is missing, through retries, promotions and what    *)
(* earlier tries left behind.  Deadlines may expire.                       *)
(***************************************************************************)
EXTENDS TimelyController_proofs

-----------------------------------------------------------------------------
(* The hypotheses. *)

(* Hypothesis: a snapshot name is asked for by one request, of one volume. *)
(* A CreateSnapshot that finds its name taken on its volume answers OK     *)
(* (844), with the contents of whoever asked before.                       *)
OneTaking ==
  \A q, r \in Requests :
    q.op = "CreateSnapshot" /\ r.op = "CreateSnapshot" /\ q.name = r.name => q = r

(* Hypothesis: if deadlines may expire, no volume is deleted from which    *)
(* others are made. A creation and a snapshot that nobody waits for any    *)
(* more would make the deleted source again, without its writes.           *)
SourcesStay ==
  CallsTimeOut =>
    \A q, r \in Requests : q.op = "DeleteVolume" /\ r.op \in Copying => q.vol # r.src

-----------------------------------------------------------------------------
(* The layers of the invariant. *)

(* Who is waited for waits for one handler.                                *)
Heard ==
  /\ \A h \in Handler : Active(h) => call[h].live \/ CallsTimeOut
  /\ \A h \in Handler : call[h].live => answer[call[h].req] = "waiting"
  /\ \A g, h \in Handler :
       call[g].live /\ call[h].live /\ g # h => call[g].req # call[h].req

(* The requests that have a source, and those that take a snapshot of it.  *)
Sourced == Copying \cup {"CreateSnapshot"}
Taking  == {"CloneVolume", "CreateSnapshot"}

(* The snapshots of a name: the one that is taken, or where promotions put *)
(* it.                                                                     *)
Namesakes(r) == {s \in nef.snaps : s.name = SnapshotOf(r).name}

(* A volume that was known is not made again.                              *)
Lasting(v) == ~Retired(v) \/ ~CallsTimeOut

(* The source is known, and a promotion takes its snapshot away only if    *)
(* the source is being deleted.                                            *)
Handed(r) ==
  /\ Known(r.src)
  /\ r.op = "CreateVolumeFromSnapshot" => Taken(SnapshotOf(r))
  /\ \A s \in Namesakes(r) : s.parent = r.src \/ Retired(r.src)

(* The source, and the snapshot wherever it is, hold what they have to.    *)
Held(r) ==
  /\ r.src \in nef.vols => asked[r] \subseteq nef.data[r.src]
  /\ \A s \in Namesakes(r) : asked[r] \subseteq nef.sdata[s]
  /\ ~Retired(r.src) => \A s \in Namesakes(r) : nef.sdata[s] \subseteq nef.data[r.src]

SourceOK(r) ==
  /\ r.op \in Sourced /\ Sent(r) => Handed(r) /\ (Lasting(r.src) => Held(r))
  /\ r.op \in Taking /\ ~Sent(r) => Namesakes(r) = {}
  /\ r.op \notin Sourced => asked[r] = {}

(* A copy that is there was asked for, and is complete.                    *)
CopyOK(r) ==
  r.op \in Copying /\ r.vol \in nef.vols =>
    Sent(r) /\ (SourcesStay => asked[r] \subseteq nef.data[r.vol])

DataInv == Heard /\ \A r \in Requests : SourceOK(r) /\ CopyOK(r)

-----------------------------------------------------------------------------
(* What the calls to the appliance do to contents. *)

(* A filesystem that is made holds what was left at its path. *)
LEMMA CreationData ==
  ASSUME NEW n \in NS!Appliance, NEW v \in Volume, NEW q \in Nat
  PROVE  LET m == NS!CreateFilesystem(n, v, q) IN
         /\ m.vols = n.vols \cup {v} /\ m.snaps = n.snaps
         /\ m.data = n.data /\ m.sdata = n.sdata
  BY DEF NS!CreateFilesystem, NS!Appliance

(* A clone holds what the snapshot does. *)
LEMMA CloneData ==
  ASSUME NEW n \in NS!Appliance, NEW v \in Volume, NEW q \in Nat, NEW s \in NS!Snapshot
  PROVE  LET m == NS!CloneSnapshot(n, s, v, q) IN
         /\ m.vols = n.vols \cup {v} /\ m.snaps = n.snaps
         /\ m.data = [n.data EXCEPT ![v] = n.sdata[s]] /\ m.sdata = n.sdata
  BY DEF NS!CloneSnapshot, NS!Appliance

(* A snapshot holds what its filesystem does. *)
LEMMA SnapshotData ==
  ASSUME NEW n \in NS!Appliance, NEW s \in NS!Snapshot
  PROVE  LET m == NS!CreateSnapshot(n, s) IN
         /\ m.vols = n.vols /\ m.snaps = n.snaps \cup {s}
         /\ m.data = n.data /\ m.sdata = [n.sdata EXCEPT ![s] = n.data[s.parent]]
  BY DEF NS!CreateSnapshot, NS!Appliance

(* Shares and quotas do not touch contents. *)
LEMMA SettingData ==
  ASSUME NEW n \in NS!Appliance, NEW v \in Volume, NEW q \in Nat,
         NEW l \in AccessList \cup {NoShare}
  PROVE  \A m \in {NS!UpdateFilesystem(n, v, q), NS!CreateNfsShare(n, v, l),
                   NS!DeleteNfsShare(n, v)} :
           m.vols = n.vols /\ m.snaps = n.snaps /\ m.data = n.data /\ m.sdata = n.sdata
  BY DEF NS!UpdateFilesystem, NS!CreateNfsShare, NS!DeleteNfsShare, NS!Appliance

(* Filesystems and snapshots that go. *)
LEMMA RemovalData ==
  ASSUME NEW n \in NS!Appliance, NEW v \in Volume, NEW s \in NS!Snapshot
  PROVE  /\ LET m == NS!Remove(n, v) IN
              /\ m.vols = n.vols \ {v} /\ m.snaps = {t \in n.snaps : t.parent # v}
              /\ \A u \in Volume \ {v} : m.data[u] = n.data[u]
              /\ \A t \in m.snaps : m.sdata[t] = n.sdata[t]
         /\ LET m == NS!DestroySnapshot(n, s) IN
              /\ m.vols = n.vols /\ m.snaps = n.snaps \ {s}
              /\ m.data = n.data
              /\ \A t \in m.snaps : m.sdata[t] = n.sdata[t]
<1>1. LET m == NS!Remove(n, v) IN
        /\ m.vols = n.vols \ {v} /\ m.snaps = {t \in n.snaps : t.parent # v}
        /\ \A u \in Volume \ {v} : m.data[u] = n.data[u]
        /\ \A t \in m.snaps : m.sdata[t] = n.sdata[t]
  BY DEF NS!Remove, NS!SnapshotsOf, NS!Appliance
<1>2. LET m == NS!DestroySnapshot(n, s) IN
        /\ m.vols = n.vols /\ m.snaps = n.snaps \ {s}
        /\ m.data = n.data
        /\ \A t \in m.snaps : m.sdata[t] = n.sdata[t]
  BY DEF NS!DestroySnapshot, NS!Appliance
<1> QED BY <1>1, <1>2

(* A promotion moves snapshots with their names and contents. *)
LEMMA PromotionData ==
  ASSUME NEW n \in NS!Appliance, NEW v \in Volume, NEW m \in NS!AfterPromotion(n, v)
  PROVE  /\ m.vols = n.vols /\ m.data = n.data
         /\ \A s \in m.snaps :
              \/ s \in n.snaps /\ m.sdata[s] = n.sdata[s]
              \/ \E t \in n.snaps :
                   t.parent = v /\ t.name = s.name /\ m.sdata[s] = n.sdata[t]
<1>1. CASE m = n
  BY <1>1
<1>2. ASSUME NEW c \in NS!Clones(n, v), NEW M \in SUBSET NS!SnapshotsOf(n, v),
             NS!Promotable(n, v, c, M), m = NS!Promote(n, v, c, M)
      PROVE  /\ m.vols = n.vols /\ m.data = n.data
             /\ \A s \in m.snaps :
                  \/ s \in n.snaps /\ m.sdata[s] = n.sdata[s]
                  \/ \E t \in n.snaps :
                       t.parent = v /\ t.name = s.name /\ m.sdata[s] = n.sdata[t]
  <2>1. /\ m.vols = n.vols /\ m.data = n.data
        /\ m.snaps = (n.snaps \ M) \cup {NS!Moved(s, c) : s \in M}
        /\ m.sdata = [s \in NS!Snapshot |->
              IF s \in M THEN {}
              ELSE IF s.parent = c /\ \E t \in M : NS!Moved(t, c) = s
                THEN n.sdata[[parent |-> v, name |-> s.name]]
                ELSE n.sdata[s]]
    BY <1>2 DEF NS!Promote, NS!Appliance
  <2>2. /\ n.snaps \subseteq NS!Snapshot /\ c \in Volume
        /\ \A t \in M : t \in n.snaps /\ t.parent = v
        /\ \A t \in M : NS!Moved(t, c) \notin n.snaps
    BY <1>2 DEF NS!Clones, NS!SnapshotsOf, NS!Promotable, NS!MayMove, NS!NamesFree, NS!Appliance
  <2>3. \A t \in M : /\ NS!Moved(t, c) \in NS!Snapshot
                     /\ NS!Moved(t, c).parent = c /\ NS!Moved(t, c).name = t.name
                     /\ [parent |-> v, name |-> t.name] = t
    BY <2>2 DEF NS!Moved, NS!Snapshot
  <2>4. ASSUME NEW s \in n.snaps \ M
        PROVE  s \in n.snaps /\ m.sdata[s] = n.sdata[s]
    <3>1. s \in NS!Snapshot /\ s \in n.snaps /\ ~ \E t \in M : NS!Moved(t, c) = s
      BY <2>2, <2>4
    <3> QED BY <2>1, <2>4, <3>1
  <2>5. ASSUME NEW t \in M
        PROVE  m.sdata[NS!Moved(t, c)] = n.sdata[t]
    <3>1. NS!Moved(t, c) \notin M
      BY <2>2
    <3> QED BY <2>1, <2>3, <3>1
  <2>6. ASSUME NEW s \in m.snaps
        PROVE  \/ s \in n.snaps /\ m.sdata[s] = n.sdata[s]
               \/ \E t \in n.snaps :
                    t.parent = v /\ t.name = s.name /\ m.sdata[s] = n.sdata[t]
    <3>1. CASE s \in n.snaps \ M
      BY <2>4, <3>1
    <3>2. CASE \E t \in M : s = NS!Moved(t, c)
      BY <2>2, <2>3, <2>5, <3>2
    <3> QED BY <2>1, <3>1, <3>2
  <2> QED BY <2>1, <2>6
<1>3. CASE m # n
  <2>1. PICK p \in NS!Clones(n, v) \X SUBSET NS!SnapshotsOf(n, v) :
          NS!Promotable(n, v, p[1], p[2]) /\ m = NS!Promote(n, v, p[1], p[2])
    BY <1>3 DEF NS!AfterPromotion
  <2>2. p[1] \in NS!Clones(n, v) /\ p[2] \in SUBSET NS!SnapshotsOf(n, v)
    BY <2>1
  <2> QED BY <2>1, <2>2, <1>2
<1> QED BY <1>1, <1>3

-----------------------------------------------------------------------------
(* What a step of a handler that works on r does to contents. *)

(* Everything that is there was there before, or was moved from a volume   *)
(* that is being deleted; nothing of it is lost.                           *)
Inherits ==
  /\ nef'.vols \subseteq nef.vols
  /\ \A u \in Volume : ~Retired(u) \/ u \in nef'.vols => nef.data[u] \subseteq nef'.data[u]
  /\ \A s \in nef'.snaps : \E t \in nef.snaps :
       /\ t.name = s.name /\ nef'.sdata[s] = nef.sdata[t]
       /\ t = s \/ Retired(t.parent)

(* The request makes its volume, empty or as a copy.                       *)
Fills(r) ==
  /\ r.op \in Creations /\ r.vol \notin nef.vols
  /\ nef'.vols = nef.vols \cup {r.vol}
  /\ nef'.snaps = nef.snaps /\ nef'.sdata = nef.sdata
  /\ \A u \in Volume \ {r.vol} : nef'.data[u] = nef.data[u]
  /\ r.op \in Copying =>
       SnapshotOf(r) \in nef.snaps /\ nef'.data[r.vol] = nef.sdata[SnapshotOf(r)]

(* The request takes its snapshot.                                         *)
Takes(r) ==
  /\ r.op \in Taking /\ r.src \in nef.vols /\ SnapshotOf(r) \notin nef.snaps
  /\ nef'.snaps = nef.snaps \cup {SnapshotOf(r)}
  /\ nef'.sdata = [nef.sdata EXCEPT ![SnapshotOf(r)] = nef.data[r.src]]
  /\ nef'.vols = nef.vols /\ nef'.data = nef.data

(* Contents that stay are inherited.                                       *)
LEMMA SameInherits ==
  ASSUME TypeOK, nef'.vols = nef.vols, nef'.data = nef.data,
         nef'.snaps \subseteq nef.snaps, \A s \in nef'.snaps : nef'.sdata[s] = nef.sdata[s]
  PROVE  Inherits
  BY DEF Inherits

(* A deletion hands on what it does not destroy.                           *)
LEMMA DestroyInherits ==
  ASSUME IInv, NEW h \in Handler, NEW r \in Requests, call[h].req = r, DestroyFilesystem(h)
  PROVE  Inherits
<1>1. call[h].pc = "DestroyFilesystem" /\ r.vol \in Volume /\ nef \in NS!Appliance
  BY RequestFields DEF DestroyFilesystem, At, IInv, TypeOK
<1>2. Retired(r.vol)
  BY <1>1, ActiveHandler DEF CallOK, Fits, Retired
<1>3. CASE UNCHANGED nef
  BY <1>3, SameInherits DEF IInv
<1>4. ASSUME NEW n \in NS!AfterPromotion(nef, r.vol), nef' = n \/ nef' = NS!Remove(n, r.vol)
      PROVE  Inherits
  <2>1. n \in NS!Appliance
    BY <1>1, PromotionType
  <2>2. /\ n.vols = nef.vols /\ n.data = nef.data
        /\ \A s \in n.snaps :
             \/ s \in nef.snaps /\ n.sdata[s] = nef.sdata[s]
             \/ \E t \in nef.snaps :
                  t.parent = r.vol /\ t.name = s.name /\ n.sdata[s] = nef.sdata[t]
    BY <1>1, PromotionData
  <2>3. /\ nef'.vols \subseteq n.vols /\ nef'.snaps \subseteq n.snaps
        /\ \A s \in nef'.snaps : nef'.sdata[s] = n.sdata[s]
        /\ \A u \in Volume : u # r.vol \/ u \in nef'.vols => nef'.data[u] = n.data[u]
    <3>1. CASE nef' = n
      BY <3>1
    <3>2. CASE nef' = NS!Remove(n, r.vol)
      <4>1. NS!Snapshot # {}
        BY RequestFields
      <4> QED BY <1>1, <2>1, <3>2, <4>1, RemovalData
    <3> QED BY <1>4, <3>1, <3>2
  <2>4. \A s \in nef'.snaps : \E t \in nef.snaps :
          /\ t.name = s.name /\ nef'.sdata[s] = nef.sdata[t]
          /\ t = s \/ Retired(t.parent)
    BY <1>2, <2>2, <2>3
  <2>5. \A u \in Volume : ~Retired(u) \/ u \in nef'.vols => nef.data[u] \subseteq nef'.data[u]
    BY <1>2, <2>2, <2>3
  <2> QED BY <2>2, <2>3, <2>4, <2>5 DEF Inherits
<1> QED BY <1>3, <1>4 DEF DestroyFilesystem

(* What the calls do.                                                      *)
LEMMA CallData ==
  ASSUME IInv, NEW h \in Handler, CallNef(h), NEW r \in Requests, call[h].req = r
  PROVE  Inherits \/ Fills(r) \/ Takes(r)
<1>1. /\ nef \in NS!Appliance /\ r.vol \in Volume /\ r.size \in Nat
      /\ r.acl \in AccessList \cup {NoShare} /\ SnapshotOf(r) \in NS!Snapshot
      /\ SnapshotOf(r).parent = r.src
  BY RequestFields DEF IInv, TypeOK
<1>2. Fits(r.op, call[h].pc)
  <2>1. call[h] \in Call
    BY CallNefStep
  <2>2. call[h] # Idle
    BY <2>1 DEF Call, Idle, NefCalls
  <2> QED BY <2>2 DEF IInv, CallOK
<1>3. CASE UNCHANGED nef
  BY <1>3, SameInherits DEF IInv
<1>4. CASE CreateFilesystem(h)
  <2>1. r.op = "CreateVolume"
    BY <1>2, <1>4 DEF CreateFilesystem, At, Fits
  <2>2. ASSUME r.vol \notin nef.vols, nef' = NS!CreateFilesystem(nef, r.vol, r.size)
        PROVE  Fills(r)
    BY <1>1, <2>1, <2>2, CreationData DEF Fills, Creations, Copying
  <2> QED BY <1>3, <1>4, <2>2 DEF CreateFilesystem
<1>5. CASE CloneSnapshot(h)
  <2>1. r.op \in Copying
    BY <1>2, <1>5 DEF CloneSnapshot, At, Fits, Copying
  <2>2. ASSUME r.vol \notin nef.vols, SnapshotOf(r) \in nef.snaps,
               nef' = NS!CloneSnapshot(nef, SnapshotOf(r), r.vol, r.size)
        PROVE  Fills(r)
    <3>1. /\ nef'.vols = nef.vols \cup {r.vol} /\ nef'.snaps = nef.snaps
          /\ nef'.data = [nef.data EXCEPT ![r.vol] = nef.sdata[SnapshotOf(r)]]
          /\ nef'.sdata = nef.sdata
      BY <1>1, <2>2, CloneData
    <3>2. nef.data \in [Volume -> SUBSET WriteId]
      BY <1>1 DEF NS!Appliance
    <3> QED BY <1>1, <2>1, <2>2, <3>1, <3>2 DEF Fills, Creations, Copying
  <2> QED BY <1>3, <1>5, <2>2 DEF CloneSnapshot
<1>6. CASE CreateSnapshot(h)
  <2>1. r.op \in Taking
    BY <1>2, <1>6 DEF CreateSnapshot, At, Fits, Taking
  <2>2. ASSUME SnapshotOf(r).parent \in nef.vols, SnapshotOf(r) \notin nef.snaps,
               nef' = NS!CreateSnapshot(nef, SnapshotOf(r))
        PROVE  Takes(r)
    BY <1>1, <2>1, <2>2, SnapshotData DEF Takes
  <2> QED BY <1>3, <1>6, <2>2 DEF CreateSnapshot
<1>7. CASE CreateNfsShare(h) \/ DeleteNfsShare(h) \/ RecreateNfsShare(h) \/ UpdateFilesystem(h)
  <2>1. \/ UNCHANGED nef
        \/ nef' \in {NS!UpdateFilesystem(nef, r.vol, r.size), NS!CreateNfsShare(nef, r.vol, r.acl),
                     NS!DeleteNfsShare(nef, r.vol)}
    BY <1>7 DEF CreateNfsShare, DeleteNfsShare, RecreateNfsShare, UpdateFilesystem
  <2> QED BY <1>1, <1>3, <2>1, SettingData, SameInherits DEF IInv
<1>8. CASE DestroyFilesystem(h)
  BY <1>8, DestroyInherits
<1>9. CASE DestroySnapshot(h)
  <2>1. UNCHANGED nef \/ nef' = NS!DestroySnapshot(nef, SnapshotOf(r))
    BY <1>9 DEF DestroySnapshot
  <2>2. ASSUME nef' = NS!DestroySnapshot(nef, SnapshotOf(r))
        PROVE  Inherits
    BY <1>1, <2>2, RemovalData, SameInherits DEF IInv
  <2> QED BY <1>3, <2>1, <2>2
<1>10. CASE Resolve(h) \/ GetFilesystem(h) \/ GetSnapshots(h) \/ GetSnapshot(h)
            \/ GetSourceSnapshot(h) \/ NefFails(h)
  BY <1>3, <1>10 DEF Resolve, GetFilesystem, GetSnapshots, GetSnapshot, GetSourceSnapshot,
    NefFails
<1> QED BY <1>4, <1>5, <1>6, <1>7, <1>8, <1>9, <1>10 DEF CallNef

-----------------------------------------------------------------------------
(* What the CO knows. *)

(* Whoever is waited for works on a request.                               *)
LEMMA LiveActive ==
  ASSUME IInv, NEW h \in Handler, call[h].live
  PROVE  Active(h) /\ call[h] \in Call /\ call[h].req \in Requests
  BY DEF IInv, TypeOK, Active, Idle, Call

(* Nobody is answered twice.                                               *)
LEMMA HeardStep ==
  ASSUME IInv, Heard, [Next]_vars
  PROVE  Heard'
<1>1. ASSUME NEW r \in Requests, NEW h \in Handler, Send(r, h)
      PROVE  Heard'
  <2>1. /\ \A g \in Handler \ {h} : call'[g] = call[g]
        /\ call'[h].req = r /\ call'[h].live = TRUE
        /\ answer'[r] = "waiting" /\ \A q \in Requests \ {r} : answer'[q] = answer[q]
    BY <1>1 DEF Send, IInv, TypeOK
  <2>2. \A g \in Handler : call[g].live => call[g].req # r /\ call[g].req \in Requests
    BY <1>1, LiveActive DEF Send, Heard
  <2>3. \A g \in Handler : g # h /\ Active(g)' => Active(g)
    BY <2>1 DEF Active
  <2> QED BY <2>1, <2>2, <2>3 DEF Heard
<1>2. ASSUME NEW h \in Handler, CallNef(h)
      PROVE  Heard'
  BY <1>2, CallFrame DEF Heard
<1>3. ASSUME NEW h \in Handler, Reply(h)
      PROVE  Heard'
  <2>1. /\ \A g \in Handler \ {h} : call'[g] = call[g]
        /\ call'[h] = Idle
        /\ \A q \in Requests : answer'[q] # answer[q] => call[h].live /\ q = call[h].req
    BY <1>3, LiveActive DEF Reply, IInv, TypeOK
  <2>2. ~Active(h)' /\ ~call'[h].live
    BY <2>1 DEF Active, Idle
  <2>3. \A g \in Handler : g # h /\ call[g].live =>
          call[g].req \in Requests /\ answer'[call[g].req] = answer[call[g].req]
    BY <2>1, LiveActive DEF Heard
  <2>4. \A g \in Handler : g # h => (Active(g)' <=> Active(g)) /\ call'[g] = call[g]
    BY <2>1 DEF Active
  <2> QED BY <2>2, <2>3, <2>4 DEF Heard
<1>4. ASSUME NEW h \in Handler, Timeout(h)
      PROVE  Heard'
  <2>1. /\ CallsTimeOut /\ call[h].live /\ call[h] \in Call
        /\ \A g \in Handler \ {h} : call'[g] = call[g]
        /\ call'[h] = [call[h] EXCEPT !.live = FALSE]
        /\ \A q \in Requests : answer'[q] # answer[q] => q = call[h].req
    BY <1>4, LiveActive DEF Timeout, IInv, TypeOK
  <2>2. ~call'[h].live
    BY <2>1 DEF Call
  <2>3. \A g \in Handler : g # h /\ call[g].live =>
          call[g].req \in Requests /\ answer'[call[g].req] = answer[call[g].req]
    BY <2>1, LiveActive DEF Heard
  <2>4. \A g \in Handler : call'[g].live => g # h /\ call'[g] = call[g]
    BY <2>1, <2>2
  <2>5. \A g \in Handler : call'[g].live => answer'[call'[g].req] = "waiting"
    BY <2>3, <2>4 DEF Heard
  <2>6. \A f, g \in Handler :
          call'[f].live /\ call'[g].live /\ f # g => call'[f].req # call'[g].req
    BY <2>4 DEF Heard
  <2> QED BY <2>1, <2>5, <2>6 DEF Heard
<1>5. CASE Crash
  <2>1. \A h \in Handler : ~Active(h)' /\ ~call'[h].live
    BY <1>5 DEF Crash, Active, Idle
  <2> QED BY <2>1 DEF Heard
<1>6. CASE UNCHANGED <<call, answer>>
  BY <1>6 DEF Heard, Active
<1> QED BY <1>1, <1>2, <1>3, <1>4, <1>5, <1>6 DEF Next, PodWrites, vars

(* What was answered OK stays so.                                          *)
LEMMA GrantedStays ==
  ASSUME IInv, Heard, [Next]_vars, NEW r \in Requests, Granted(r)
  PROVE  Granted(r)'
<1>1. ASSUME NEW h \in Handler, Reply(h)
      PROVE  Granted(r)'
  <2>1. call[h].live => call[h].req # r
    BY DEF Heard, Granted
  <2> QED BY <1>1, <2>1 DEF Reply, Granted, IInv, TypeOK
<1>2. ASSUME NEW h \in Handler, Timeout(h)
      PROVE  Granted(r)'
  <2>1. call[h].req # r
    BY <1>2 DEF Heard, Granted, Timeout
  <2> QED BY <1>2, <2>1 DEF Timeout, Granted, IInv, TypeOK
<1>3. ASSUME NEW q \in Requests, NEW h \in Handler, Send(q, h)
      PROVE  Granted(r)'
  BY <1>3 DEF Send, Granted, IInv, TypeOK
<1>4. CASE Crash
  BY <1>4 DEF Crash, Granted
<1>5. CASE UNCHANGED answer
  BY <1>5 DEF Granted
<1> QED BY <1>1, <1>2, <1>3, <1>4, <1>5 DEF Next, PodWrites, CallNef, vars

(* So is what follows from it, and what was asked for.                     *)
LEMMA WordsStay ==
  ASSUME IInv, Heard, [Next]_vars
  PROVE  /\ \A v \in Volume : (Known(v) => Known(v)') /\ (Retired(v) => Retired(v)')
         /\ \A s \in NS!Snapshot : Taken(s) => Taken(s)'
         /\ \A r \in Requests : Sent(r) => Sent(r)'
<1>1. \A v \in Volume : Known(v) => Known(v)'
  BY GrantedStays DEF Known
<1>2. \A s \in NS!Snapshot : Taken(s) => Taken(s)'
  BY GrantedStays DEF Taken
<1>3. \A r \in Requests : Sent(r) => Sent(r)'
  <2>1. CASE UNCHANGED vars
    BY <2>1 DEF vars, Sent
  <2> QED BY <2>1, SentStays DEF IInv
<1>4. \A v \in Volume : Retired(v) => Retired(v)'
  BY <1>3 DEF Retired
<1> QED BY <1>1, <1>2, <1>3, <1>4

-----------------------------------------------------------------------------
(* The invariant, one kind of step at a time. *)

(* A request that is not made now loses nothing when contents are          *)
(* inherited.                                                              *)
LEMMA SourceStays ==
  ASSUME IInv, Heard, [Next]_vars, Inherits, NEW r \in Requests, SourceOK(r),
         Sent(r)' <=> Sent(r), asked'[r] = asked[r]
  PROVE  SourceOK(r)'
<1>1. r.src \in Volume /\ SnapshotOf(r) \in NS!Snapshot
  BY RequestFields
<1>2. /\ Known(r.src) => Known(r.src)'
      /\ Taken(SnapshotOf(r)) => Taken(SnapshotOf(r))'
      /\ \A v \in Volume : Retired(v) => Retired(v)'
  BY <1>1, WordsStay
<1>3. Lasting(r.src)' => Lasting(r.src)
  BY <1>1, <1>2 DEF Lasting
<1>4. ASSUME NEW s \in Namesakes(r)'
      PROVE  \E t \in Namesakes(r) :
               nef'.sdata[s] = nef.sdata[t] /\ (t = s \/ Retired(t.parent))
  BY <1>4 DEF Namesakes, Inherits
<1>5. \A t \in Namesakes(r) : t.parent \in Volume
  BY DEF Namesakes, IInv, TypeOK, NS!Appliance, NS!Snapshot
<1>6. Handed(r) => Handed(r)'
  <2> SUFFICES ASSUME Handed(r), NEW s \in Namesakes(r)'
               PROVE  s.parent = r.src \/ Retired(r.src)'
    BY <1>2 DEF Handed
  <2>1. PICK t \in Namesakes(r) : t = s \/ Retired(t.parent)
    BY <1>4
  <2>2. t.parent = r.src \/ Retired(r.src)
    BY DEF Handed
  <2> QED BY <1>1, <1>2, <2>1, <2>2
<1>7. Held(r) => Held(r)'
  <2> SUFFICES ASSUME Held(r) PROVE Held(r)'
    OBVIOUS
  <2>1. r.src \in nef'.vols => asked'[r] \subseteq nef'.data[r.src]
    <3>1. r.src \in nef'.vols => r.src \in nef.vols /\ nef.data[r.src] \subseteq nef'.data[r.src]
      BY <1>1 DEF Inherits
    <3> QED BY <3>1 DEF Held
  <2>2. \A s \in Namesakes(r)' : asked'[r] \subseteq nef'.sdata[s]
    BY <1>4 DEF Held
  <2>3. ASSUME ~Retired(r.src)', NEW s \in Namesakes(r)'
        PROVE  nef'.sdata[s] \subseteq nef'.data[r.src]
    <3>1. ~Retired(r.src)
      BY <1>1, <1>2, <2>3
    <3>2. nef.data[r.src] \subseteq nef'.data[r.src]
      BY <1>1, <3>1 DEF Inherits
    <3>3. PICK t \in Namesakes(r) : nef'.sdata[s] = nef.sdata[t]
      BY <1>4
    <3>4. nef.sdata[t] \subseteq nef.data[r.src]
      BY <3>1 DEF Held
    <3> QED BY <3>2, <3>3, <3>4
  <2> QED BY <2>1, <2>2, <2>3 DEF Held
<1>8. Namesakes(r) = {} => Namesakes(r)' = {}
  BY <1>4
<1> QED BY <1>3, <1>6, <1>7, <1>8 DEF SourceOK

(* Nor does its copy.                                                      *)
LEMMA CopyStays ==
  ASSUME IInv, Heard, [Next]_vars, Inherits, NEW r \in Requests, CopyOK(r),
         asked'[r] = asked[r] \/ ~Sent(r)
  PROVE  CopyOK(r)'
<1>1. r.vol \in Volume /\ (Sent(r) => Sent(r)')
  BY RequestFields, WordsStay
<1>2. r.vol \in nef'.vols => r.vol \in nef.vols /\ nef.data[r.vol] \subseteq nef'.data[r.vol]
  BY <1>1 DEF Inherits
<1> QED BY <1>1, <1>2 DEF CopyOK, SourcesStay

(* One request takes the snapshots of a name.                              *)
LEMMA OneTaker ==
  ASSUME OneCreation, NamesApart, OneTaking,
         NEW q \in Requests, NEW r \in Requests, q.op \in Taking, r.op \in Sourced,
         SnapshotOf(q).name = SnapshotOf(r).name
  PROVE  /\ r.op \in Taking => q = r
         /\ r.op = "CreateVolumeFromSnapshot" => q.op = "CreateSnapshot" /\ q.name = r.name
<1>1. /\ q.op = "CloneVolume" => SnapshotOf(q).name = CloneSnapshotName(q.vol)
      /\ q.op # "CloneVolume" => SnapshotOf(q).name = q.name
      /\ r.op = "CloneVolume" => SnapshotOf(r).name = CloneSnapshotName(r.vol)
      /\ r.op # "CloneVolume" => SnapshotOf(r).name = r.name
  BY DEF SnapshotOf
<1>2. /\ q.op = "CreateSnapshot" => q.name \in UserSnapName
      /\ r.op \in {"CreateSnapshot", "CreateVolumeFromSnapshot"} => r.name \in UserSnapName
  BY RequestsOK
<1>3. q.vol \in Volume /\ r.vol \in Volume
  BY RequestFields
<1>4. CASE q.op = "CloneVolume"
  <2>1. r.op = "CloneVolume"
    BY <1>1, <1>2, <1>3, <1>4 DEF Sourced, Copying, NamesApart
  <2>2. q.vol = r.vol
    BY <1>1, <1>4, <2>1 DEF CloneSnapshotName
  <2> QED BY <1>4, <2>1, <2>2 DEF OneCreation, Creations
<1>5. CASE q.op = "CreateSnapshot"
  <2>1. r.op # "CloneVolume"
    BY <1>1, <1>2, <1>3, <1>5 DEF NamesApart
  <2>2. q.name = r.name
    BY <1>1, <1>5, <2>1
  <2> QED BY <1>5, <2>1, <2>2 DEF OneTaking, Taking
<1> QED BY <1>4, <1>5 DEF Taking

(* A request is made: its source is as its prerequisites say.              *)
LEMMA FirstSend ==
  ASSUME IInv, DataInv, OneCreation, NamesApart, OneTaking,
         NEW r \in Requests, NEW h \in Handler, Send(r, h), ~Sent(r)
  PROVE  SourceOK(r)'
<1>1. /\ asked'[r] = SourceData(r) /\ nef' = nef /\ Prerequisite(r)
      /\ answer' = [answer EXCEPT ![r] = "waiting"] /\ Sent(r)'
  BY DEF Send, Sent, IInv, TypeOK
<1>2. /\ r.src \in Volume /\ r.op \in Operations
      /\ SnapshotOf(r) \in NS!Snapshot /\ SnapshotOf(r).parent = r.src
  BY RequestFields
<1>3. /\ Known(r.src) => Known(r.src)'
      /\ Taken(SnapshotOf(r)) => Taken(SnapshotOf(r))'
      /\ Retired(r.src) => Retired(r.src)'
  <2>1. [Next]_vars
    BY DEF Next
  <2> QED BY <1>2, <2>1, WordsStay DEF DataInv
<1>4. Namesakes(r)' = Namesakes(r)
  BY <1>1 DEF Namesakes
<1>5. CASE r.op \in Taking
  <2>1. Namesakes(r) = {}
    BY <1>5 DEF DataInv, SourceOK
  <2>2. Known(r.src) /\ asked'[r] = nef.data[r.src]
    BY <1>1, <1>5 DEF Prerequisite, SourceData, Taking
  <2>3. Handed(r)' /\ Held(r)'
    BY <1>1, <1>3, <1>4, <1>5, <2>1, <2>2 DEF Handed, Held, Taking
  <2> QED BY <1>1, <1>5, <2>3 DEF SourceOK, Sourced, Taking, Copying
<1>6. CASE r.op = "CreateVolumeFromSnapshot"
  <2>1. /\ Taken(SnapshotOf(r)) /\ ~Dropped(SnapshotOf(r))
        /\ asked'[r] = nef.sdata[SnapshotOf(r)]
    BY <1>1, <1>6 DEF Prerequisite, SourceData
  <2>2. PICK t \in Requests :
          t.op = "CreateSnapshot" /\ SnapshotOf(t) = SnapshotOf(r) /\ Granted(t)
    BY <2>1 DEF Taken
  <2>3. SnapshotOf(r) \in nef.snaps /\ ~Retired(r.src)
    BY <1>2, <2>1, <2>2 DEF IInv, Secured, Dropped
  <2>4. t.src = r.src /\ Namesakes(t) = Namesakes(r)
    BY <1>2, <2>2, RequestFields DEF Namesakes
  <2>5. Handed(t) /\ Held(t)
    BY <2>2, <2>3, <2>4 DEF DataInv, SourceOK, Sourced, Sent, Granted, Lasting
  <2>6. \A s \in Namesakes(r) : s = SnapshotOf(r)
    <3> SUFFICES ASSUME NEW s \in Namesakes(r) PROVE s = SnapshotOf(r)
      OBVIOUS
    <3>1. s.parent = r.src /\ s.name = SnapshotOf(r).name /\ s \in NS!Snapshot
      BY <2>3, <2>4, <2>5 DEF Handed, Namesakes, IInv, TypeOK, NS!Appliance
    <3> QED BY <1>2, <3>1 DEF NS!Snapshot
  <2>7. SnapshotOf(r) \in Namesakes(r)
    BY <2>3 DEF Namesakes
  <2>8. nef.sdata[SnapshotOf(r)] \subseteq nef.data[r.src]
    BY <2>3, <2>4, <2>5, <2>7 DEF Held
  <2>9. Handed(r)'
    BY <1>2, <1>3, <1>4, <2>1, <2>4, <2>5, <2>6 DEF Handed
  <2>10. Held(r)'
    BY <1>1, <1>4, <2>1, <2>6, <2>8 DEF Held
  <2> QED BY <1>1, <1>6, <2>9, <2>10 DEF SourceOK, Sourced, Taking, Copying
<1>7. CASE r.op \notin Sourced
  <2>1. asked'[r] = {}
    BY <1>1, <1>7 DEF SourceData, Sourced, Copying
  <2> QED BY <1>7, <2>1 DEF SourceOK, Sourced, Taking, Copying
<1> QED BY <1>5, <1>6, <1>7 DEF Sourced, Taking, Copying

(* A volume that was known is not made again, or no promise depends on it. *)
LEMMA NotAgain ==
  ASSUME IInv, DataInv, OneCreation, NEW h \in Handler, NEW q \in Requests,
         call[h].req = q, Active(h), q.op \in Creations, q.vol \notin nef.vols,
         Known(q.vol)
  PROVE  Retired(q.vol) /\ CallsTimeOut
<1>1. PICK p \in Requests : p.op \in Creations /\ p.vol = q.vol /\ Granted(p)
  BY RequestsOK DEF Known
<1>2. Granted(q)
  BY <1>1 DEF OneCreation
<1>3. Retired(q.vol)
  BY <1>2 DEF IInv, Secured
<1>4. CallsTimeOut
  <2>1. ~call[h].live
    BY <1>2 DEF DataInv, Heard, Granted
  <2> QED BY <2>1 DEF DataInv, Heard
<1> QED BY <1>3, <1>4

(* A volume is made.                                                       *)
LEMMA FillKeeps ==
  ASSUME IInv, DataInv, OneCreation, NEW h \in Handler, CallNef(h),
         NEW q \in Requests, call[h].req = q, Fills(q),
         NEW r \in Requests
  PROVE  SourceOK(r)' /\ CopyOK(r)'
<1>1. /\ Active(h) /\ Sent(q) /\ UNCHANGED <<answer, asked>>
      /\ q.op \in Creations /\ q.vol \notin nef.vols
  BY CallFrame DEF Fills
<1>2. /\ Sent(r)' = Sent(r)
      /\ \A v : (Known(v)' <=> Known(v)) /\ (Retired(v)' <=> Retired(v))
      /\ \A s : Taken(s)' <=> Taken(s)
      /\ Namesakes(r)' = Namesakes(r) /\ nef'.sdata = nef.sdata
  BY <1>1 DEF Fills, Sent, Known, Retired, Taken, Granted, Sent, Namesakes
<1>3. r.src \in Volume /\ r.vol \in Volume
  BY RequestFields
<1>4. Handed(r)' <=> Handed(r)
  BY <1>2 DEF Handed
<1>5. Lasting(r.src)' <=> Lasting(r.src)
  BY <1>2 DEF Lasting
<1>6. ASSUME Handed(r), Lasting(r.src)
      PROVE  r.src # q.vol
  BY <1>1, <1>6, NotAgain DEF Handed, Lasting
<1>7. ASSUME Handed(r), Lasting(r.src), Held(r)
      PROVE  Held(r)'
  <2>1. r.src # q.vol
    BY <1>6, <1>7
  <2>2. nef'.data[r.src] = nef.data[r.src] /\ (r.src \in nef'.vols => r.src \in nef.vols)
    BY <1>3, <2>1 DEF Fills
  <2> QED BY <1>1, <1>2, <1>7, <2>2 DEF Held
<1>8. SourceOK(r)'
  BY <1>1, <1>2, <1>4, <1>5, <1>7 DEF DataInv, SourceOK
<1>9. CopyOK(r)'
  <2>1. CASE r.vol = q.vol /\ r.op \in Copying
    <3>1. q = r
      BY <1>1, <2>1 DEF OneCreation, Creations, Copying
    <3>2. /\ SnapshotOf(r) \in Namesakes(r)
          /\ nef'.data[r.vol] = nef.sdata[SnapshotOf(r)]
      BY <2>1, <3>1 DEF Fills, Namesakes
    <3>3. SourcesStay => Lasting(r.src)
      BY <2>1 DEF SourcesStay, Lasting, Retired
    <3>4. SourcesStay => asked[r] \subseteq nef.sdata[SnapshotOf(r)]
      BY <1>1, <2>1, <3>1, <3>2, <3>3 DEF DataInv, SourceOK, Sourced, Held
    <3> QED BY <1>1, <1>2, <3>1, <3>2, <3>4 DEF CopyOK, SourcesStay
  <2>2. CASE r.vol # q.vol
    <3>1. nef'.data[r.vol] = nef.data[r.vol] /\ (r.vol \in nef'.vols => r.vol \in nef.vols)
      BY <1>3, <2>2 DEF Fills
    <3> QED BY <1>1, <1>2, <3>1 DEF DataInv, CopyOK, SourcesStay
  <2> QED BY <2>1, <2>2 DEF CopyOK
<1> QED BY <1>8, <1>9

(* A snapshot is taken.                                                    *)
LEMMA TakeKeeps ==
  ASSUME IInv, DataInv, OneCreation, NamesApart, OneTaking, NEW h \in Handler, CallNef(h),
         NEW q \in Requests, call[h].req = q, Takes(q),
         NEW r \in Requests
  PROVE  SourceOK(r)' /\ CopyOK(r)'
<1>1. Sent(q) /\ UNCHANGED <<answer, asked>>
  BY CallFrame
<1>2. /\ Sent(r)' = Sent(r)
      /\ \A v : (Known(v)' <=> Known(v)) /\ (Retired(v)' <=> Retired(v))
      /\ \A s : Taken(s)' <=> Taken(s)
  BY <1>1 DEF Sent, Known, Retired, Taken, Granted
<1>3. /\ q.op \in Taking /\ q.src \in nef.vols /\ SnapshotOf(q) \notin nef.snaps
      /\ nef'.snaps = nef.snaps \cup {SnapshotOf(q)}
      /\ nef'.vols = nef.vols /\ nef'.data = nef.data
      /\ nef'.sdata[SnapshotOf(q)] = nef.data[q.src]
      /\ \A s \in nef.snaps : nef'.sdata[s] = nef.sdata[s]
      /\ SnapshotOf(q).parent = q.src
  <2>1. /\ nef.sdata \in [NS!Snapshot -> SUBSET WriteId] /\ nef.snaps \subseteq NS!Snapshot
        /\ SnapshotOf(q) \in NS!Snapshot /\ SnapshotOf(q).parent = q.src
    BY RequestFields DEF IInv, TypeOK, NS!Appliance
  <2> QED BY <2>1 DEF Takes
<1>4. CopyOK(r)'
  BY <1>1, <1>2, <1>3 DEF DataInv, CopyOK, SourcesStay
<1>5. Lasting(r.src)' <=> Lasting(r.src)
  BY <1>2 DEF Lasting
<1>6. ASSUME SnapshotOf(q).name # SnapshotOf(r).name \/ r.op \notin Sourced
      PROVE  SourceOK(r)'
  <2>1. r.op \in Sourced => Namesakes(r)' = Namesakes(r)
    BY <1>3, <1>6 DEF Namesakes
  <2>2. \A s \in Namesakes(r) : nef'.sdata[s] = nef.sdata[s]
    BY <1>3 DEF Namesakes
  <2>3. r.op \in Sourced => (Handed(r) => Handed(r)') /\ (Held(r) => Held(r)')
    BY <1>1, <1>2, <1>3, <2>1, <2>2 DEF Handed, Held
  <2> QED
    BY <1>1, <1>2, <1>5, <2>1, <2>3 DEF DataInv, SourceOK, Sourced, Taking, Copying
<1>7. ASSUME SnapshotOf(q).name = SnapshotOf(r).name, r.op \in Sourced
      PROVE  SourceOK(r)'
  <2>1. /\ r.op \in Taking => q = r
        /\ r.op = "CreateVolumeFromSnapshot" => q.op = "CreateSnapshot" /\ q.name = r.name
    BY <1>3, <1>7, OneTaker
  <2>2. r.op \in Taking => Sent(r)
    BY <1>1, <2>1
  <2>3. CASE ~Sent(r)
    BY <1>2, <1>7, <2>2, <2>3 DEF SourceOK
  <2>4. CASE Sent(r)
    <3>1. Handed(r) /\ (Lasting(r.src) => Held(r))
      BY <1>7, <2>4 DEF DataInv, SourceOK
    <3>2. q.src = r.src
      <4>1. CASE r.op \in Taking
        BY <2>1, <4>1
      <4>2. CASE r.op = "CreateVolumeFromSnapshot"
        <5>1. PICK t \in Requests : t.op = "CreateSnapshot" /\ SnapshotOf(t) = SnapshotOf(r)
          BY <3>1, <4>2 DEF Handed, Taken
        <5>2. t = q
          BY <1>3, <1>7, <5>1, OneTaker DEF Sourced, Taking
        <5> QED BY <5>1, <5>2, RequestFields
      <4> QED BY <1>7, <4>1, <4>2 DEF Sourced, Taking, Copying
    <3>3. /\ Namesakes(r)' \subseteq Namesakes(r) \cup {SnapshotOf(q)}
          /\ \A s \in Namesakes(r) : nef'.sdata[s] = nef.sdata[s]
      BY <1>3 DEF Namesakes
    <3>4. Handed(r)'
      BY <1>2, <1>3, <3>1, <3>2, <3>3 DEF Handed
    <3>5. Held(r) => Held(r)'
      <4> SUFFICES ASSUME Held(r) PROVE Held(r)'
        OBVIOUS
      <4>1. asked[r] \subseteq nef.data[r.src]
        BY <1>3, <3>2 DEF Held
      <4>2. \A s \in Namesakes(r)' : asked[r] \subseteq nef'.sdata[s]
        BY <1>3, <3>2, <3>3, <4>1 DEF Held
      <4>3. ~Retired(r.src) => \A s \in Namesakes(r)' : nef'.sdata[s] \subseteq nef.data[r.src]
        BY <1>3, <3>2, <3>3 DEF Held
      <4> QED BY <1>1, <1>2, <1>3, <4>1, <4>2, <4>3 DEF Held
    <3> QED BY <1>2, <1>5, <1>7, <2>4, <3>1, <3>4, <3>5 DEF SourceOK, Sourced, Taking, Copying
  <2> QED BY <2>3, <2>4
<1> QED BY <1>4, <1>6, <1>7

(* A pod adds to a volume.                                                 *)
LEMMA WriteInherits ==
  ASSUME IInv, NEW v \in Volume, NEW w \in WriteId, PodWrites(v, w)
  PROVE  Inherits
<1>1. /\ nef'.vols = nef.vols /\ nef'.snaps = nef.snaps /\ nef'.sdata = nef.sdata
      /\ nef'.data = [nef.data EXCEPT ![v] = @ \cup {w}]
      /\ nef.data \in [Volume -> SUBSET WriteId]
  BY DEF PodWrites, NS!WriteData, NS!Appliance, IInv, TypeOK
<1> QED BY <1>1 DEF Inherits

(* Every step keeps the invariant.                                         *)
LEMMA DataStep ==
  ASSUME IInv, DataInv, OneCreation, NamesApart, OneTaking, [Next]_vars
  PROVE  DataInv'
<1>1. Heard'
  BY HeardStep DEF DataInv
<1>2. UNCHANGED nef => Inherits
  BY SameInherits DEF IInv
<1>3. ASSUME NEW r \in Requests
      PROVE  SourceOK(r)' /\ CopyOK(r)'
  <2>1. ASSUME Inherits, Sent(r)' <=> Sent(r), asked'[r] = asked[r]
        PROVE  SourceOK(r)' /\ CopyOK(r)'
    BY <2>1, SourceStays, CopyStays DEF DataInv
  <2>2. ASSUME NEW q \in Requests, NEW h \in Handler, Send(q, h)
        PROVE  SourceOK(r)' /\ CopyOK(r)'
    <3>1. Inherits
      BY <1>2, <2>2 DEF Send
    <3>2. CASE q = r /\ ~Sent(r)
      BY <2>2, <3>1, <3>2, FirstSend, CopyStays DEF DataInv
    <3>3. CASE q # r \/ Sent(r)
      <4>1. (Sent(r)' <=> Sent(r)) /\ asked'[r] = asked[r]
        BY <2>2, <3>3 DEF Send, Sent, IInv, TypeOK
      <4> QED BY <2>1, <3>1, <4>1
    <3> QED BY <3>2, <3>3
  <2>3. ASSUME NEW h \in Handler, CallNef(h)
        PROVE  SourceOK(r)' /\ CopyOK(r)'
    <3>1. UNCHANGED <<answer, asked>> /\ call[h] \in Call
      BY <2>3, CallFrame, CallNefStep
    <3>2. PICK q \in Requests : q = call[h].req
      BY <3>1 DEF Call
    <3>3. Inherits \/ Fills(q) \/ Takes(q)
      BY <2>3, <3>2, CallData
    <3>4. CASE Inherits
      BY <2>1, <3>1, <3>4 DEF Sent
    <3> QED BY <2>3, <3>2, <3>3, <3>4, FillKeeps, TakeKeeps
  <2>4. ASSUME NEW v \in Volume, NEW w \in WriteId, PodWrites(v, w)
        PROVE  SourceOK(r)' /\ CopyOK(r)'
    BY <2>1, <2>4, WriteInherits DEF PodWrites, Sent
  <2>5. ASSUME NEW h \in Handler, Reply(h) \/ Timeout(h)
        PROVE  SourceOK(r)' /\ CopyOK(r)'
    <3>1. Sent(call[h].req)
      <4>1. CASE Reply(h)
        BY <4>1, ActiveHandler DEF Reply, At, CallOK
      <4>2. CASE Timeout(h)
        BY <4>2, LiveActive DEF Timeout, IInv, CallOK, Active
      <4> QED BY <2>5, <4>1, <4>2
    <3>2. Sent(r)' <=> Sent(r)
      BY <2>5, <3>1 DEF Reply, Timeout, Sent, IInv, TypeOK
    <3> QED BY <1>2, <2>1, <2>5, <3>2 DEF Reply, Timeout
  <2>6. CASE Crash
    <3>1. Sent(r)' <=> Sent(r)
      BY <2>6 DEF Crash, Sent
    <3> QED BY <1>2, <2>1, <2>6, <3>1 DEF Crash
  <2>7. CASE UNCHANGED vars
    BY <1>2, <2>1, <2>7 DEF vars, Sent
  <2> QED BY <2>2, <2>3, <2>4, <2>5, <2>6, <2>7 DEF Next
<1> QED BY <1>1, <1>3 DEF DataInv

(* Nothing was asked for in the beginning.                                 *)
LEMMA DataInit == Init => DataInv
<1> SUFFICES ASSUME Init PROVE DataInv
  OBVIOUS
<1>1. \A h \in Handler : call[h] = Idle /\ ~Active(h) /\ ~call[h].live
  BY DEF Init, Active, Idle
<1>2. nef.vols = Existing /\ nef.snaps = {}
  BY DEF Init, NS!Blank
<1>3. \A r \in Requests : ~Sent(r) /\ asked[r] = {} /\ Namesakes(r) = {}
  BY <1>2 DEF Init, Sent, Namesakes
<1>4. \A r \in Requests : r.op \in Copying => r.vol \notin nef.vols
  BY <1>2, RequestsOK DEF Creations, Copying
<1> QED BY <1>1, <1>3, <1>4 DEF DataInv, Heard, SourceOK, CopyOK

(* The invariant holds in every state.                                     *)
LEMMA DataInvariance ==
  ASSUME OneCreation, NamesApart, OneTaking
  PROVE  Spec => []DataInv
<1>1. IInv /\ DataInv /\ [Next]_vars => DataInv'
  BY DataStep
<1> QED BY <1>1, DataInit, Invariance, PTL DEF Spec

-----------------------------------------------------------------------------
(* The theorems. *)

(* A snapshot that CreateSnapshot answered OK for.                         *)
SnapshotDataKept ==
  \A r \in Requests :
    r.op = "CreateSnapshot" /\ Granted(r) /\ ~Dropped(SnapshotOf(r))
      => asked[r] \subseteq nef.sdata[SnapshotOf(r)]

(* A snapshot that CreateSnapshot answered OK for holds every write that   *)
(* its volume held when it was first asked for, also when deadlines expire *)
(* and late handlers go on.                                                *)
THEOREM SnapshotDataHolds ==
  ASSUME OneCreation, NamesApart, OneTaking
  PROVE  Spec => []SnapshotDataKept
<1>1. IInv /\ DataInv => SnapshotDataKept
  <2> SUFFICES ASSUME IInv, DataInv, NEW r \in Requests, r.op = "CreateSnapshot",
                      Granted(r), ~Dropped(SnapshotOf(r))
               PROVE  asked[r] \subseteq nef.sdata[SnapshotOf(r)]
    BY DEF SnapshotDataKept
  <2>1. SnapshotOf(r) \in Namesakes(r)
    BY DEF IInv, Secured, Namesakes
  <2>2. ~Retired(r.src)
    BY RequestFields DEF Dropped
  <2>3. Held(r)
    BY <2>2 DEF DataInv, SourceOK, Sourced, Sent, Granted, Lasting
  <2> QED BY <2>1, <2>3 DEF Held
<1> QED BY <1>1, Invariance, DataInvariance, PTL

(* A snapshot, a clone or a restored volume holds every write its source   *)
(* held when it was first asked for, however often it was retried,         *)
(* whatever the promotions of its source's deletion move, and whichever    *)
(* snapshot of an earlier try createClonedVolume picks up.                 *)
THEOREM SourceDataHolds ==
  ASSUME OneCreation, NamesApart, OneTaking, SourcesStay
  PROVE  Spec => []SourceDataKept
<1>1. IInv /\ DataInv /\ SnapshotDataKept => SourceDataKept
  <2> SUFFICES ASSUME IInv, DataInv, NEW r \in Requests, r.op \in Creations,
                      Granted(r), ~Retired(r.vol)
               PROVE  asked[r] \subseteq nef.data[r.vol]
    BY DEF SourceDataKept, SnapshotDataKept
  <2>1. r.vol \in nef.vols
    BY DEF IInv, Secured
  <2>2. CASE r.op \in Copying
    BY <2>1, <2>2 DEF DataInv, CopyOK
  <2>3. CASE r.op \notin Copying
    BY <2>3 DEF DataInv, SourceOK, Sourced, Creations, Copying
  <2> QED BY <2>2, <2>3
<1> QED BY <1>1, Invariance, DataInvariance, SnapshotDataHolds, PTL
=============================================================================
