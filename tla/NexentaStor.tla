------------------------------ MODULE NexentaStor ------------------------------
(***************************************************************************)
(* The NexentaStor appliance, as the driver sees it through the calls of   *)
(* ns.ProviderInterface (package github.com/Nexenta/go-nexentastor, which  *)
(* is outside the repository).  Every operator is a function from the      *)
(* appliance's state n to the state after a call that succeeds; whether a  *)
(* call succeeds is decided by the caller's guards, so that this module    *)
(* holds only the effects.                                                 *)
(*                                                                         *)
(* The state n is a record:                                                *)
(*   vols    the filesystems that exist under the driver's dataset         *)
(*   snaps   the snapshots that exist                                      *)
(*   quota   referenced quota of each filesystem, 0 for none               *)
(*   origin  the snapshot a filesystem was cloned from, if any             *)
(*   data    the writes a filesystem holds                                 *)
(*   sdata   the writes a snapshot holds                                   *)
(*   share   the access list a filesystem is shared with over NFS, if any  *)
(* Fields of a filesystem or snapshot that does not exist have the value   *)
(* they have in Blank.                                                     *)
(***************************************************************************)
EXTENDS Naturals

CONSTANTS
  Volume,       \* the paths of the filesystems
  SnapName,     \* the names of the snapshots (the part after '@')
  AccessList,   \* the NFS access lists
  WriteId,      \* the writes made by pods
  NoSnapshot,   \* origin of a filesystem that is not a clone
  NoShare       \* share of a filesystem that is not shared

Snapshot == [parent: Volume, name: SnapName]

Appliance ==
  [vols:   SUBSET Volume,
   snaps:  SUBSET Snapshot,
   quota:  [Volume -> Nat],
   origin: [Volume -> Snapshot \cup {NoSnapshot}],
   data:   [Volume -> SUBSET WriteId],
   sdata:  [Snapshot -> SUBSET WriteId],
   share:  [Volume -> AccessList \cup {NoShare}]]

(* An appliance that holds the empty filesystems V, made by hand. *)
Blank(V) ==
  [vols   |-> V,
   snaps  |-> {},
   quota  |-> [v \in Volume |-> 0],
   origin |-> [v \in Volume |-> NoSnapshot],
   data   |-> [v \in Volume |-> {}],
   sdata  |-> [s \in Snapshot |-> {}],
   share  |-> [v \in Volume |-> NoShare]]

-----------------------------------------------------------------------------
(* Filesystems *)

CreateFilesystem(n, v, q) ==
  [n EXCEPT !.vols = @ \cup {v}, !.quota[v] = q]

UpdateFilesystem(n, v, q) == [n EXCEPT !.quota[v] = q]

(* A filesystem that starts with what the snapshot s holds and depends on it. *)
CloneSnapshot(n, s, v, q) ==
  [n EXCEPT !.vols = @ \cup {v}, !.quota[v] = q,
            !.origin[v] = s, !.data[v] = n.sdata[s]]

WriteData(n, v, w) == [n EXCEPT !.data[v] = @ \cup {w}]

-----------------------------------------------------------------------------
(* Snapshots *)

CreateSnapshot(n, s) ==
  [n EXCEPT !.snaps = @ \cup {s}, !.sdata[s] = n.data[s.parent]]

DestroySnapshot(n, s) ==
  [n EXCEPT !.snaps = @ \ {s}, !.sdata[s] = {}]

SnapshotsOf(n, v) == {s \in n.snaps : s.parent = v}

(* A snapshot with a dependent filesystem is busy. *)
IsBusy(n, s) == \E c \in n.vols : n.origin[c] = s

Clones(n, v) == {c \in n.vols : n.origin[c] \in SnapshotsOf(n, v)}

-----------------------------------------------------------------------------
(* Shares *)

CreateNfsShare(n, v, l) == [n EXCEPT !.share[v] = l]
DeleteNfsShare(n, v)    == [n EXCEPT !.share[v] = NoShare]

-----------------------------------------------------------------------------
(***************************************************************************)
(* DestroyFilesystem is called with DestroySnapshots and                   *)
(* PromoteMostRecentCloneIfExists.  Promoting the clone c of v hands c the *)
(* snapshots M of v that are not newer than c's origin, and makes the      *)
(* other clones of those snapshots depend on c.  The creation times of     *)
(* snapshots are not modelled: M is any set that holds every snapshot of v *)
(* that has a clone.  A promotion fails when c already has a snapshot of   *)
(* the same name.                                                          *)
(***************************************************************************)
Moved(s, c) == [parent |-> c, name |-> s.name]

Promote(n, v, c, M) ==
  [n EXCEPT
     !.snaps  = (@ \ M) \cup {Moved(s, c) : s \in M},
     !.sdata  = [s \in Snapshot |->
                   IF s \in M THEN {}
                   ELSE IF s.parent = c /\ \E m \in M : Moved(m, c) = s
                     THEN n.sdata[[parent |-> v, name |-> s.name]]
                     ELSE n.sdata[s]],
     !.origin = [u \in Volume |->
                   IF u = c THEN n.origin[v]
                   ELSE IF u = v THEN Moved(n.origin[c], c)
                   ELSE IF n.origin[u] \in M THEN Moved(n.origin[u], c)
                   ELSE n.origin[u]]]

MayMove(n, v, c, M) ==
  /\ c \in Clones(n, v)
  /\ M \subseteq SnapshotsOf(n, v)
  /\ \A u \in n.vols : n.origin[u] \in SnapshotsOf(n, v) => n.origin[u] \in M

NamesFree(n, c, M) == \A s \in M : Moved(s, c) \notin n.snaps

Promotable(n, v, c, M) == MayMove(n, v, c, M) /\ NamesFree(n, c, M)

PromotionRefused(n, v) ==
  \E c \in Clones(n, v), M \in SUBSET SnapshotsOf(n, v) :
    MayMove(n, v, c, M) /\ ~NamesFree(n, c, M)

(* What is left once v and all of its snapshots are destroyed. *)
Remove(n, v) ==
  [vols   |-> n.vols \ {v},
   snaps  |-> n.snaps \ SnapshotsOf(n, v),
   quota  |-> [n.quota EXCEPT ![v] = 0],
   origin |-> [n.origin EXCEPT ![v] = NoSnapshot],
   data   |-> [n.data EXCEPT ![v] = {}],
   sdata  |-> [s \in Snapshot |-> IF s.parent = v THEN {} ELSE n.sdata[s]],
   share  |-> [n.share EXCEPT ![v] = NoShare]]

(* The states a promotion that DestroyFilesystem(v) makes may lead to. *)
AfterPromotion(n, v) ==
  IF Clones(n, v) = {} THEN {n}
  ELSE {Promote(n, v, p[1], p[2]) :
          p \in {q \in Clones(n, v) \X SUBSET SnapshotsOf(n, v) :
                   Promotable(n, v, q[1], q[2])}}
=============================================================================
