---------------------------- MODULE VolumeLifecycle ----------------------------
(***************************************************************************)
(* What the controller service promises its callers, with no handlers and  *)
(* no calls to the appliance: a request is asked, has its effects at some  *)
(* moments before it is answered, and is answered OK only when what it     *)
(* asked for is the case.  Whatever fails, a volume or snapshot appears    *)
(* only while a request for it is waiting, disappears only while its       *)
(* deletion is, and a snapshot that has to make room for the deletion of   *)
(* its volume is handed to another one and not lost on the way.            *)
(*                                                                         *)
(* What a request means is given by four constants, each a function from   *)
(* requests to sets of objects.  ControllerServer implements this module   *)
(* as long as no deadline of a caller expires.                             *)
(***************************************************************************)

CONSTANTS
  Volume,    \* the volumes
  SnapName,  \* the names of snapshots
  Requests,  \* the requests
  Makes,     \* the volumes a request asks to make
  Takes,     \* the snapshots it asks to take, or takes on its way
  Destroys,  \* the volumes it asks to destroy
  Discards   \* the snapshots it asks to destroy

Snapshot == [parent: Volume, name: SnapName]

VARIABLES
  vols,      \* the volumes there are
  snaps,     \* the snapshots there are
  status     \* of each request: new, waiting, failed or OK

vars == <<vols, snaps, status>>

Init ==
  /\ vols \in SUBSET Volume
  /\ snaps = {}
  /\ status = [r \in Requests |-> "new"]

Asked(r)   == status[r] # "new"
Waiting(r) == status[r] = "waiting"

Retired(v)   == \E r \in Requests : Asked(r) /\ v \in Destroys[r]
Discarded(s) == \E r \in Requests : Asked(r) /\ s \in Discards[r]
Dropped(s)   == Retired(s.parent) \/ Discarded(s)

-----------------------------------------------------------------------------
(* The callers.  They do not ask for an object whose deletion they asked   *)
(* for, and wait with the deletion of an object until its creation was     *)
(* answered.                                                               *)
Ask(r) ==
  /\ status[r] \in {"new", "failed"}
  /\ \A v \in Makes[r] : ~Retired(v)
  /\ \A s \in Takes[r] : ~Discarded(s)
  /\ \A q \in Requests : Waiting(q) =>
       /\ Makes[q] \cap Destroys[r] = {}
       /\ Takes[q] \cap Discards[r] = {}
  /\ status' = [status EXCEPT ![r] = "waiting"]
  /\ UNCHANGED <<vols, snaps>>

(* What the answer OK says. *)
Achieved(r) ==
  /\ \A v \in Makes[r]    : v \in vols \/ Retired(v)
  /\ \A s \in Takes[r]    : s \in snaps \/ Dropped(s)
  /\ \A v \in Destroys[r] : v \notin vols
  /\ \A s \in Discards[r] : s \notin snaps

AnswerOK(r) ==
  /\ Waiting(r) /\ Achieved(r)
  /\ status' = [status EXCEPT ![r] = "OK"]
  /\ UNCHANGED <<vols, snaps>>

(* Any request may fail, and a restart fails several. *)
Fail ==
  /\ \E F \in SUBSET {r \in Requests : Waiting(r)} :
       status' = [r \in Requests |-> IF r \in F THEN "failed" ELSE status[r]]
  /\ UNCHANGED <<vols, snaps>>

-----------------------------------------------------------------------------
(* The effects of a request that is waiting. *)

Make(r) ==
  /\ Waiting(r)
  /\ \E v \in Makes[r] \ vols : vols' = vols \cup {v}
  /\ UNCHANGED <<snaps, status>>

Take(r) ==
  /\ Waiting(r)
  /\ \E s \in Takes[r] \ snaps : s.parent \in vols /\ snaps' = snaps \cup {s}
  /\ UNCHANGED <<vols, status>>

Discard(r) ==
  /\ Waiting(r)
  /\ \E s \in Discards[r] \cap snaps : snaps' = snaps \ {s}
  /\ UNCHANGED <<vols, status>>

SnapshotsOf(v) == {s \in snaps : s.parent = v}

Moved(s, c) == [parent |-> c, name |-> s.name]

(* The sets of snapshots once v has handed some of its own to another      *)
(* volume, where each finds its name free.                                 *)
HandedOver(v) ==
  {snaps} \cup
  {(snaps \ cm[2]) \cup {Moved(s, cm[1]) : s \in cm[2]} :
     cm \in {p \in (vols \ {v}) \X SUBSET SnapshotsOf(v) :
               \A s \in p[2] : Moved(s, p[1]) \notin snaps}}

(* The volume goes with the snapshots it still has, or only hands over. *)
Destroy(r) ==
  /\ Waiting(r)
  /\ \E v \in Destroys[r] \cap vols : \E S \in HandedOver(v) :
       \/ vols' = vols \ {v} /\ snaps' = {s \in S : s.parent # v}
       \/ vols' = vols /\ snaps' = S
  /\ UNCHANGED status

Next ==
  \/ \E r \in Requests :
       Ask(r) \/ AnswerOK(r) \/ Make(r) \/ Take(r) \/ Discard(r) \/ Destroy(r)
  \/ Fail

Spec == Init /\ [][Next]_vars
=============================================================================
