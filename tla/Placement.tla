------------------------------- MODULE Placement -------------------------------
(***************************************************************************)
(* Several appliances: where CreateVolume puts a volume, and whether the   *)
(* requests that carry its ID find it again.                               *)
(*                                                                         *)
(* Each request is resolved anew (module ResolveNS), and may be resolved   *)
(* differently when it is repeated.  Of what follows only the presence of  *)
(* filesystems is kept: ControllerServer has the rest, on one appliance.   *)
(* Failures, at most MaxFaults: appliances that do not answer while a      *)
(* request is resolved, lost replies, and restarts of the driver.  A panic *)
(* of the driver is a restart that the request causes itself.              *)
(*                                                                         *)
(* "Mistake:" marks variants that only show that the properties notice     *)
(* plausible bugs.                                                         *)
(***************************************************************************)
EXTENDS Naturals, FiniteSets, ResolveNS

CONSTANTS
  cfg,        \* the entries of the configuration, by their names
  Datasets,   \* the datasets on each appliance
  OldVolumes, \* the filesystems on each appliance that version 1.3 made
  Requests,   \* what the CO may ask for
  NoRequest,
  Handler,
  MaxFaults

Name == DOMAIN cfg

(* filepath.Join *)
Join(dataset, volume) == Append(dataset, volume)

(* A creation names an entry, a zone and a dataset, or leaves them Empty;  *)
(* src is the ID of the volume whose snapshot or clone it asks for.  For a *)
(* deletion vol is the name of a volume that a creation asks for.          *)
Creation(vol, name, zone, dataset, src) ==
  [op |-> "CreateVolume", vol |-> vol, name |-> name, zone |-> zone,
   dataset |-> dataset, src |-> src]

Deletion(vol) ==
  [op |-> "DeleteVolume", vol |-> vol, name |-> Empty, zone |-> Empty,
   dataset |-> Empty, src |-> Empty]

Creations == {r \in Requests : r.op = "CreateVolume"}

(* README.md, "v13Compatibility": for one entry only, and not with zones. *)
ASSUME ConfigOK ==
  /\ Cardinality({n \in Name : cfg[n].v13Compatibility}) <= 1
  /\ \A r \in Creations : r.zone # Empty /\ r.src # Empty => Len(r.src) = 2
  /\ \A q, r \in Requests : q.op = r.op /\ q.vol = r.vol => q = r

(* Paths are lists of names, and a volume that is deleted was created.     *)
ASSUME RequestsOK ==
  /\ IsFiniteSet(Name) /\ Empty \notin Name
  /\ \A n \in Name : \A p \in Datasets[n] \cup OldVolumes[n] : p \in Seq(STRING) /\ p # Empty
  /\ \A r \in Requests :
       /\ r.op \in {"CreateVolume", "DeleteVolume"} /\ r.vol \in STRING
       /\ \E q \in Creations : q.vol = r.vol
  /\ \A r \in Creations : r.name \in Name \cup {Empty}
  /\ \A r \in Creations : r.src # Empty /\ Len(r.src) = 2 => r.src[1] \in Name
  /\ MaxFaults \in Nat

(* The paths that requests and entries name as datasets are not volumes:   *)
(* they are datasets of some appliance, or of none at all.                 *)
Named == {r.dataset : r \in Creations} \cup {cfg[n].defaultDataset : n \in Name}

ASSUME DatasetsOK ==
  \A d \in Named, n \in Name :
    /\ d \in OldVolumes[n] => d \in Datasets[n]
    /\ \A e \in Datasets[n], r \in Creations : d # Append(e, r.vol) /\ Append(e, r.vol) # Empty

VARIABLES
  fs,      \* the paths of the filesystems on each appliance
  call,    \* what each handler does
  answer,  \* what the CO knows of each request
  id,      \* the ID that each creation was answered with
  faults

vars == <<fs, call, answer, id, faults>>

Idle == [pc |-> "idle", req |-> NoRequest, at |-> Empty, path |-> Empty]

Init ==
  /\ fs = [n \in Name |-> Datasets[n] \cup OldVolumes[n]]
  /\ call = [h \in Handler |-> Idle]
  /\ answer = [r \in Requests |-> "new"]
  /\ id = [r \in Creations |-> Empty]
  /\ faults = 0

-----------------------------------------------------------------------------
Sent(r)    == answer[r] # "new"
Granted(r) == answer[r] = "OK"

CreationOf(r) == CHOOSE q \in Creations : q.vol = r.vol
Retired(r) == \E q \in Requests : q.op = "DeleteVolume" /\ q.vol = r.vol /\ Sent(q)

(* A deletion follows the creation; one call at a time for each volume. *)
Send(r, h) ==
  /\ answer[r] \in {"new", "failed"}
  /\ IF r.op = "DeleteVolume" THEN Granted(CreationOf(r)) ELSE ~Retired(r)
  /\ call[h] = Idle
  /\ \A g \in Handler : call[g] # Idle => call[g].req.vol # r.vol
  /\ call' = [call EXCEPT ![h] = [Idle EXCEPT !.pc = "resolve", !.req = r]]
  /\ answer' = [answer EXCEPT ![r] = "waiting"]
  /\ UNCHANGED <<fs, id, faults>>

(* Mistake: a copy is placed like a new volume. *)
ParamsOfNew(r) == Params(r.dataset, r.zone, r.name, FALSE)

(* What CreateVolume and DeleteVolume give to resolveNS: a copy goes where *)
(* its source is.                                                          *)
ParamsOf(r) ==
  IF r.op = "DeleteVolume" THEN ParamsOfID(id[CreationOf(r)])
  ELSE IF r.src = Empty THEN Params(r.dataset, r.zone, r.name, FALSE)
  ELSE LET i == ParseVolumeID(r.src)
       IN Params(r.dataset, r.zone, i.configName, i.v13)

Answer(h, result) ==
  /\ answer' = [answer EXCEPT ![call[h].req] = result]
  /\ call' = [call EXCEPT ![h] = Idle]

(* Every call in progress is cut off. *)
CutOff ==
  /\ call' = [h \in Handler |-> Idle]
  /\ answer' = [r \in Requests |->
                  IF answer[r] = "waiting" THEN "failed" ELSE answer[r]]

(* Mistake: a volume that cannot be looked up needs no deletion. *)
GoneIfUnresolved(code) == code # "OK"

Gone(code) == code = "NotFound"

Resolve(h) ==
  LET r == call[h].req IN
  /\ call[h].pc = "resolve"
  /\ \E down \in SUBSET Name :
       /\ faults' = IF down = {} THEN faults ELSE faults + 1
       /\ faults' <= MaxFaults
       /\ \E o \in resolveNS(cfg, fs, down, ParamsOf(r)) :
            CASE o.code = "OK" ->
                   /\ call' = [call EXCEPT ![h].pc = r.op, ![h].at = o.configName,
                        ![h].path = IF r.op = "DeleteVolume" THEN o.datasetPath
                                    ELSE Join(o.datasetPath, r.vol)]
                   /\ UNCHANGED answer
              [] o.code = "panic" -> CutOff
              [] OTHER -> Answer(h, IF r.op = "DeleteVolume" /\ Gone(o.code)
                                      THEN "OK" ELSE "failed")
  /\ UNCHANGED <<fs, id>>

(* Mistake: the ID names the entry that was asked for. *)
IDOfRequest(h) == VolumeID(call[h].req.name, call[h].path)

IDOf(h) == VolumeID(call[h].at, call[h].path)

(* A filesystem that is there already is taken; the source of a copy has   *)
(* to be on the same appliance.  The reply of the appliance may be lost.   *)
CreateVolume(h) ==
  LET c == call[h]
      Source == ParseVolumeID(c.req.src).path
  IN
  /\ c.pc = "CreateVolume"
  /\ IF c.req.src # Empty /\ Source \notin fs[c.at]
       THEN Answer(h, "failed") /\ UNCHANGED <<fs, id, faults>>
       ELSE /\ fs' = [fs EXCEPT ![c.at] = @ \cup {c.path}]
            /\ \/ /\ Answer(h, "OK")
                  /\ id' = [id EXCEPT ![c.req] = IDOf(h)]
                  /\ UNCHANGED faults
               \/ /\ faults < MaxFaults /\ faults' = faults + 1
                  /\ Answer(h, "failed")
                  /\ UNCHANGED id

DeleteVolume(h) ==
  LET c == call[h] IN
  /\ c.pc = "DeleteVolume"
  /\ fs' = [fs EXCEPT ![c.at] = @ \ {c.path}]
  /\ \/ Answer(h, "OK") /\ UNCHANGED faults
     \/ faults < MaxFaults /\ faults' = faults + 1 /\ Answer(h, "failed")
  /\ UNCHANGED id

Crash ==
  /\ faults < MaxFaults /\ faults' = faults + 1
  /\ \E h \in Handler : call[h] # Idle
  /\ CutOff
  /\ UNCHANGED <<fs, id>>

Next ==
  \/ \E r \in Requests, h \in Handler : Send(r, h)
  \/ \E h \in Handler : Resolve(h) \/ CreateVolume(h) \/ DeleteVolume(h)
  \/ Crash

Spec == Init /\ [][Next]_vars

-----------------------------------------------------------------------------
(* Properties *)

Live(r) == r \in Creations /\ Granted(r) /\ ~Retired(r)

Located(r) == ParseVolumeID(id[r])

(* The filesystems of a volume, on all appliances. *)
Copies(r) ==
  {n \in Name : \E p \in fs[n] \ (Datasets[n] \cup OldVolumes[n]) : p[Len(p)] = r.vol}

(* Paths lie in a dataset, every handler works on a request, and an ID is  *)
(* the name of an entry with the path of a volume.                         *)
Paths == (UNION {Datasets[n] \cup OldVolumes[n] : n \in Name})
         \cup {Join(d, r.vol) : d \in UNION {Datasets[n] : n \in Name}, r \in Creations}

TypeOK ==
  /\ fs \in [Name -> SUBSET Paths]
  /\ \A h \in Handler : call[h] # Idle =>
       /\ call[h].pc \in {"resolve", "CreateVolume", "DeleteVolume"}
       /\ call[h].req \in Requests /\ answer[call[h].req] = "waiting"
       /\ call[h].at \in Name \cup {Empty} /\ call[h].path \in Paths \cup {Empty}
  /\ answer \in [Requests -> {"new", "waiting", "failed", "OK"}]
  /\ \A r \in Creations : id[r] = Empty \/ id[r] \in {VolumeID(n, p) : n \in Name, p \in Paths}
  /\ faults \in 0 .. MaxFaults

(* The ID CreateVolume answers, sent back to resolveNS, leads to the       *)
(* appliance where the volume is and nowhere else, whatever the entries    *)
(* have in common and wherever earlier tries left copies.                  *)
IDLeadsToVolume ==
  \A r \in Requests : Live(r) =>
    /\ resolveNS(cfg, fs, {}, ParamsOfID(id[r])) =
         {[code |-> "OK", configName |-> Located(r).configName,
           datasetPath |-> Located(r).path]}
    /\ Located(r).path[Len(Located(r).path)] = r.vol

(* A volume lies in the zone, under the entry and in the dataset that were *)
(* asked for, also when CreateVolume was repeated.                         *)
PlacedAsAsked ==
  \A r \in Requests : Live(r) =>
    /\ r.zone # Empty => cfg[Located(r).configName].zone = r.zone
    /\ r.name # Empty /\ r.src = Empty => Located(r).configName = r.name
    /\ r.dataset # Empty => Located(r).path = Join(r.dataset, r.vol)

(* Where only one appliance can serve a creation, because it names the     *)
(* entry or a zone with one entry or has a source, its repetitions leave   *)
(* no second filesystem, and the deletion leaves none at all.  (Where      *)
(* several can, they do: each try picks one.)                              *)
Settled(r) ==
  \/ r.name # Empty
  \/ r.src # Empty
  \/ r.zone # Empty /\ Cardinality({n \in Name : cfg[n].zone = r.zone}) = 1

NoStrayCopies ==
  \A r \in Creations : Settled(r) =>
    /\ Cardinality(Copies(r)) <= 1
    /\ \A q \in Requests :
         q.op = "DeleteVolume" /\ q.vol = r.vol /\ Granted(q) => Copies(r) = {}
=============================================================================
