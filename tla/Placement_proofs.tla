---------------------------- MODULE Placement_proofs ----------------------------
(***************************************************************************)
(* Where volumes lie and how their IDs lead to them, proved for every      *)
(* configuration, every set of appliances and every set of requests.       *)
(***************************************************************************)
EXTENDS Placement, FiniteSetTheorems, TLAPS

(* The filesystems that were there before the driver.                      *)
Base(n) == Datasets[n] \cup OldVolumes[n]

(* What a creation gives to resolveNS: it does not depend on the state.    *)
CreationParams(r) ==
  IF r.src = Empty THEN Params(r.dataset, r.zone, r.name, FALSE)
  ELSE LET i == ParseVolumeID(r.src) IN Params(r.dataset, r.zone, i.configName, i.v13)

(* The entries that may serve a creation.                                  *)
Serves(r, n) ==
  LET p == CreationParams(r) IN
  /\ p.zone # Empty => cfg[n].zone = p.zone
  /\ p.zone = Empty /\ p.IsV13Compatible => cfg[n].v13Compatibility
  /\ p.configName # Empty => n = p.configName

(* The volume of a creation may lie here.                                  *)
Placed(r, n, p) ==
  LET dataset == PathAt(cfg, CreationParams(r), n) IN
  /\ n \in Name
  /\ Serves(r, n)
  /\ dataset \in Datasets[n]
  /\ p = Join(dataset, r.vol)

-----------------------------------------------------------------------------
(* The inductive invariant. *)

(* The variables are functions on the handlers, requests and entries.      *)
ShapeOK ==
  /\ fs \in [Name -> SUBSET Paths]
  /\ call \in [Handler -> [pc : {"idle", "resolve", "CreateVolume", "DeleteVolume"},
                           req : Requests \cup {NoRequest},
                           at : Name \cup {Empty}, path : Paths \cup {Empty}]]
  /\ answer \in [Requests -> {"new", "waiting", "failed", "OK"}]
  /\ id \in [Creations -> (Name \X Paths) \cup {Empty}]
  /\ faults \in 0 .. MaxFaults

(* Every filesystem was there before, or is where its creation may put it. *)
FilesystemsOK ==
  \A n \in Name : \A p \in fs[n] : p \in Base(n) \/ \E r \in Creations : Placed(r, n, p)

(* A creation works before the deletion is asked for, at a place that can  *)
(* serve it; a deletion works after the creation, at the place of its ID.  *)
Working(h) ==
  LET c == call[h] IN
  /\ c.pc # "idle" /\ c.req \in Requests /\ answer[c.req] = "waiting"
  /\ c.req.op = "CreateVolume" => ~Retired(c.req)
  /\ c.req.op = "DeleteVolume" => Granted(CreationOf(c.req))
  /\ c.pc = "CreateVolume" => c.req.op = "CreateVolume" /\ Placed(c.req, c.at, c.path)
  /\ c.pc = "DeleteVolume" => /\ c.req.op = "DeleteVolume"
                              /\ id[CreationOf(c.req)] = VolumeID(c.at, c.path)

(* Every request in progress is such a one.                                *)
HandlersOK == \A h \in Handler : call[h] # Idle => Working(h)

(* One call at a time for each volume.                                     *)
AloneOK ==
  \A g, h \in Handler :
    g # h /\ call[g] # Idle /\ call[h] # Idle => call[g].req.vol # call[h].req.vol

(* The ID that a creation was answered with names a place that can serve   *)
(* it, and the volume is there until its deletion is asked for.            *)
AnswersOK ==
  \A r \in Creations : Granted(r) =>
    \E n \in Name, p \in Paths :
      /\ id[r] = VolumeID(n, p)
      /\ Placed(r, n, p)
      /\ ~Retired(r) => p \in fs[n]

(* A deletion that was answered leaves nothing of a volume that could be   *)
(* in one place only.                                                      *)
GoneOK ==
  \A q \in Requests, r \in Creations :
    q.op = "DeleteVolume" /\ Granted(q) /\ q.vol = r.vol /\ Settled(r) =>
      \A n \in Name : \A p \in fs[n] : Placed(r, n, p) => p \in Base(n)

(* All of it.                                                              *)
PlacementInv ==
  ShapeOK /\ FilesystemsOK /\ HandlersOK /\ AloneOK /\ AnswersOK /\ GoneOK

-----------------------------------------------------------------------------
(* What resolveNS answers. *)

(* An appliance that is asked has the path, or says that it has not, or    *)
(* does not answer.                                                        *)
LEMMA AskOutcome ==
  ASSUME NEW F, NEW down, NEW p, NEW n
  PROVE  LET o == Ask(cfg, F, down, p, n) IN
         /\ o.code = "OK" => /\ o.configName = n /\ o.datasetPath = PathAt(cfg, p, n)
                             /\ PathAt(cfg, p, n) \in F[n]
         /\ o.code = "NotFound" => PathAt(cfg, p, n) \notin F[n]
<1> DEFINE code == Lookup(F, down, n, PathAt(cfg, p, n))
<1>1. /\ code = "OK" => PathAt(cfg, p, n) \in F[n]
      /\ code = "NotFound" => PathAt(cfg, p, n) \notin F[n]
  BY DEF Lookup
<1> HIDE DEF code
<1>2. Ask(cfg, F, down, p, n) = IF code = "OK"
        THEN [code |-> "OK", configName |-> n, datasetPath |-> PathAt(cfg, p, n)]
        ELSE [code |-> code, configName |-> Empty, datasetPath |-> Empty]
  BY DEF Ask, Refused, code
<1> QED BY <1>1, <1>2

(* One of several appliances that are asked.                               *)
LEMMA FirstOutcome ==
  ASSUME NEW F, NEW down, NEW p, NEW names,
         NEW o \in FirstThatHas(cfg, F, down, p, names), o.code \in {"OK", "NotFound"}
  PROVE  o.code = "OK" /\ \E n \in names : o = Ask(cfg, F, down, p, n)
  BY DEF FirstThatHas, Refused

(* An entry that resolveNS chooses has the path, and is one that the       *)
(* parameters allow.                                                       *)
LEMMA ResolveOutcome ==
  ASSUME NEW F, NEW down, NEW p, p.configName \in Name \cup {Empty},
         NEW o \in resolveNS(cfg, F, down, p), o.code = "OK"
  PROVE  LET n == o.configName IN
         /\ n \in Name /\ o.datasetPath = PathAt(cfg, p, n) /\ PathAt(cfg, p, n) \in F[n]
         /\ p.zone # Empty => cfg[n].zone = p.zone
         /\ p.zone = Empty /\ p.IsV13Compatible => cfg[n].v13Compatibility
         /\ p.configName # Empty /\ ~p.IsV13Compatible => n = p.configName
<1>1. ASSUME NEW n \in Name, o = Ask(cfg, F, down, p, n)
      PROVE  o.configName = n /\ o.datasetPath = PathAt(cfg, p, n) /\ PathAt(cfg, p, n) \in F[n]
  BY <1>1, AskOutcome
<1>2. CASE p.zone = Empty /\ p.IsV13Compatible
  <2>1. o \in resolveCompatibilityConfig(cfg, F, down, p)
    BY <1>2 DEF resolveNS, resolveNSNoZone
  <2>2. PICK n \in Name : cfg[n].v13Compatibility /\ o = Ask(cfg, F, down, p, n)
    BY <2>1 DEF resolveCompatibilityConfig, Refused, Name
  <2> QED BY <1>1, <1>2, <2>2
<1>3. CASE p.zone = Empty /\ ~p.IsV13Compatible
  <2>1. CASE p.configName # Empty
    <3>1. o = Ask(cfg, F, down, p, p.configName)
      BY <1>3, <2>1 DEF resolveNS, resolveNSNoZone
    <3> QED BY <1>1, <1>3, <2>1, <3>1
  <2>2. CASE p.configName = Empty
    <3>1. o \in FirstThatHas(cfg, F, down, p, Name)
      BY <1>3, <2>2 DEF resolveNS, resolveNSNoZone, Name
    <3>2. PICK n \in Name : o = Ask(cfg, F, down, p, n)
      BY <3>1, FirstOutcome
    <3> QED BY <1>1, <1>3, <2>2, <3>2
  <2> QED BY <2>1, <2>2
<1>4. CASE p.zone # Empty
  <2>1. CASE p.configName # Empty
    <3>1. cfg[p.configName].zone = p.zone /\ o = Ask(cfg, F, down, p, p.configName)
      BY <1>4, <2>1 DEF resolveNS, resolveNSWithZone, Refused
    <3> QED BY <1>1, <1>4, <2>1, <3>1
  <2>2. CASE p.configName = Empty
    <3>1. o \in FirstThatHas(cfg, F, down, p, {n \in Name : cfg[n].zone = p.zone})
      BY <1>4, <2>2 DEF resolveNS, resolveNSWithZone, Name
    <3>2. PICK n \in Name : cfg[n].zone = p.zone /\ o = Ask(cfg, F, down, p, n)
      BY <3>1, FirstOutcome
    <3> QED BY <1>1, <1>4, <2>2, <3>2
  <2> QED BY <2>1, <2>2
<1> QED BY <1>2, <1>3, <1>4

(* The parts of an ID are found again.                                     *)
LEMMA ParsedID ==
  ASSUME NEW n, NEW p
  PROVE  ParseVolumeID(VolumeID(n, p)) = [configName |-> n, path |-> p, v13 |-> FALSE]
<1>1. /\ Len(VolumeID(n, p)) = 2 /\ VolumeID(n, p)[1] = n /\ VolumeID(n, p)[2] = p
  BY DEF VolumeID
<1> QED BY <1>1 DEF ParseVolumeID

(* An ID with a name leads to the appliance of the name only.              *)
LEMMA ResolveID ==
  ASSUME NEW F, NEW down, NEW n \in Name, NEW p, p # Empty
  PROVE  /\ resolveNS(cfg, F, down, ParamsOfID(VolumeID(n, p))) =
              {Ask(cfg, F, down, ParamsOfID(VolumeID(n, p)), n)}
         /\ PathAt(cfg, ParamsOfID(VolumeID(n, p)), n) = p
<1>1. ParamsOfID(VolumeID(n, p)) =
        [datasetPath |-> p, zone |-> Empty, configName |-> n, IsV13Compatible |-> FALSE]
  <2>1. ParseVolumeID(VolumeID(n, p)) = [configName |-> n, path |-> p, v13 |-> FALSE]
    BY ParsedID
  <2> QED BY <2>1 DEF ParamsOfID, Params
<1> QED BY <1>1, RequestsOK DEF resolveNS, resolveNSNoZone, PathAt

-----------------------------------------------------------------------------
(* Creations, their places and their deletions. *)

(* A set with no two elements has one at most, and the other way around.   *)
LEMMA AtMostOne ==
  ASSUME NEW S, IsFiniteSet(S)
  PROVE  Cardinality(S) <= 1 <=> \A x, y \in S : x = y
<1>1. Cardinality(S) \in Nat
  BY FS_CardinalityType
<1>2. ASSUME Cardinality(S) <= 1, NEW x \in S, NEW y \in S PROVE x = y
  <2>1. IsFiniteSet(S \ {x}) /\ Cardinality(S \ {x}) = Cardinality(S) - 1
    BY <1>2, FS_RemoveElement
  <2>2. Cardinality(S \ {x}) = 0
    BY <1>1, <1>2, <2>1, FS_CardinalityType
  <2> QED BY <2>1, <2>2, FS_EmptySet
<1>3. ASSUME \A x, y \in S : x = y PROVE Cardinality(S) <= 1
  <2>1. S = {} \/ \E x \in S : S = {x}
    BY <1>3
  <2> QED BY <2>1, FS_EmptySet, FS_Singleton
<1> QED BY <1>2, <1>3

(* What a creation gives to resolveNS.                                     *)
LEMMA ParamsOfCreation ==
  ASSUME NEW r \in Creations
  PROVE  /\ ParamsOf(r) = CreationParams(r)
         /\ CreationParams(r).datasetPath = r.dataset /\ CreationParams(r).zone = r.zone
         /\ CreationParams(r).configName \in Name \cup {Empty}
         /\ CreationParams(r).IsV13Compatible => CreationParams(r).configName = Empty
         /\ r.src = Empty => /\ CreationParams(r).configName = r.name
                             /\ ~CreationParams(r).IsV13Compatible
         /\ r.src # Empty =>
              \/ CreationParams(r).configName # Empty
              \/ r.zone = Empty /\ CreationParams(r).IsV13Compatible
<1>1. r.op = "CreateVolume" /\ r \in Requests
  BY DEF Creations
<1>2. ParamsOf(r) = CreationParams(r)
  BY <1>1 DEF ParamsOf, CreationParams
<1>3. CASE r.src = Empty
  BY <1>2, <1>3, RequestsOK DEF CreationParams, Params
<1>4. CASE r.src # Empty /\ Len(r.src) = 2
  <2>1. ParseVolumeID(r.src) = [configName |-> r.src[1], path |-> r.src[2], v13 |-> FALSE]
    BY <1>4 DEF ParseVolumeID
  <2> QED BY <1>2, <1>4, <2>1, RequestsOK DEF CreationParams, Params
<1>5. CASE r.src # Empty /\ Len(r.src) # 2
  <2>1. ParseVolumeID(r.src) = [configName |-> Empty, path |-> r.src[1], v13 |-> TRUE]
    BY <1>5 DEF ParseVolumeID
  <2>2. r.zone = Empty
    BY <1>5, ConfigOK
  <2> QED BY <1>2, <1>5, <2>1, <2>2 DEF CreationParams, Params
<1> QED BY <1>3, <1>4, <1>5

(* The path of a volume ends with its name, and is not a dataset of Named. *)
LEMMA PlacedPath ==
  ASSUME NEW r \in Creations, NEW n, NEW p, Placed(r, n, p)
  PROVE  /\ n \in Name /\ p \in Paths /\ p # Empty /\ p[Len(p)] = r.vol /\ p \notin Named
         /\ r.dataset # Empty => p = Join(r.dataset, r.vol)
<1> DEFINE d == PathAt(cfg, CreationParams(r), n)
<1>1. n \in Name /\ d \in Datasets[n] /\ p = Append(d, r.vol)
  BY DEF Placed, Join
<1>2. d \in Seq(STRING) /\ r.vol \in STRING /\ r \in Requests
  BY <1>1, RequestsOK DEF Creations
<1> HIDE DEF d
<1>3. p \in Paths
  <2>1. d \in UNION {Datasets[m] : m \in Name}
    BY <1>1
  <2>2. \E e \in UNION {Datasets[m] : m \in Name}, q \in Creations : p = Join(e, q.vol)
    BY <1>1, <2>1 DEF Join
  <2>3. p \in {Join(e, q.vol) : e \in UNION {Datasets[m] : m \in Name}, q \in Creations}
    BY <2>2
  <2> QED BY <2>3 DEF Paths
<1>4. p[Len(p)] = r.vol
  BY <1>1, <1>2
<1>5. p \notin Named
  BY <1>1, DatasetsOK
<1>6. p # Empty
  BY <1>1, DatasetsOK DEF Named
<1>7. r.dataset # Empty => d = r.dataset
  BY ParamsOfCreation DEF PathAt, d
<1> QED BY <1>1, <1>3, <1>4, <1>5, <1>6, <1>7 DEF Join

(* Where resolveNS sends a creation its volume may lie.                    *)
LEMMA CreationResolved ==
  ASSUME FilesystemsOK, NEW r \in Creations, NEW down,
         NEW o \in resolveNS(cfg, fs, down, CreationParams(r)), o.code = "OK"
  PROVE  Placed(r, o.configName, Join(o.datasetPath, r.vol))
<1> DEFINE p == CreationParams(r)
           n == o.configName
           d == PathAt(cfg, p, n)
<1>1. /\ p.configName \in Name \cup {Empty} /\ p.datasetPath = r.dataset
      /\ p.IsV13Compatible => p.configName = Empty
  BY ParamsOfCreation
<1>2. /\ n \in Name /\ o.datasetPath = d /\ d \in fs[n]
      /\ p.zone # Empty => cfg[n].zone = p.zone
      /\ p.zone = Empty /\ p.IsV13Compatible => cfg[n].v13Compatibility
      /\ p.configName # Empty /\ ~p.IsV13Compatible => n = p.configName
  BY <1>1, ResolveOutcome
<1>3. d \in Named
  BY <1>1, <1>2 DEF PathAt, Named
<1>4. d \in Base(n)
  <2>1. ASSUME NEW q \in Creations, Placed(q, n, d) PROVE FALSE
    BY <1>3, <2>1, PlacedPath
  <2> QED BY <1>2, <2>1 DEF FilesystemsOK
<1>5. d \in Datasets[n]
  BY <1>2, <1>3, <1>4, DatasetsOK DEF Base
<1> QED BY <1>1, <1>2, <1>5 DEF Placed, Serves

(* The creation of a volume is the only one with its name.                 *)
LEMMA OneCreationOf ==
  ASSUME NEW q \in Requests
  PROVE  /\ CreationOf(q) \in Creations /\ CreationOf(q).vol = q.vol
         /\ \A r \in Creations : r.vol = q.vol => r = CreationOf(q)
<1>1. \E r \in Creations : r.vol = q.vol
  BY RequestsOK
<1>2. CreationOf(q) \in Creations /\ CreationOf(q).vol = q.vol
  BY <1>1 DEF CreationOf
<1> QED BY <1>2, ConfigOK DEF Creations

(* A settled creation has one entry that may serve it.                     *)
LEMMA OnePlace ==
  ASSUME NEW r \in Creations, Settled(r),
         NEW m, NEW n, NEW p, NEW q, Placed(r, m, p), Placed(r, n, q)
  PROVE  m = n /\ p = q
<1>1. m \in Name /\ n \in Name /\ Serves(r, m) /\ Serves(r, n)
  BY DEF Placed
<1>2. m = n
  <2>1. CASE r.src # Empty
    <3>1. CASE CreationParams(r).configName # Empty
      BY <1>1, <3>1 DEF Serves
    <3>2. CASE r.zone = Empty /\ CreationParams(r).IsV13Compatible
      <4> DEFINE S == {x \in Name : cfg[x].v13Compatibility}
      <4>1. m \in S /\ n \in S
        BY <1>1, <3>2, ParamsOfCreation DEF Serves
      <4>2. IsFiniteSet(S) /\ Cardinality(S) <= 1
        BY ConfigOK, RequestsOK, FS_Subset
      <4> QED BY <4>1, <4>2, AtMostOne
    <3> QED BY <2>1, <3>1, <3>2, ParamsOfCreation
  <2>2. CASE r.src = Empty /\ r.name # Empty
    BY <1>1, <2>2, ParamsOfCreation DEF Serves
  <2>3. CASE r.zone # Empty /\ Cardinality({x \in Name : cfg[x].zone = r.zone}) = 1
    <3> DEFINE S == {x \in Name : cfg[x].zone = r.zone}
    <3>1. m \in S /\ n \in S
      BY <1>1, <2>3, ParamsOfCreation DEF Serves
    <3>2. IsFiniteSet(S) /\ Cardinality(S) <= 1
      BY <2>3, RequestsOK, FS_Subset
    <3> QED BY <3>1, <3>2, AtMostOne
  <2> QED BY <2>1, <2>2, <2>3 DEF Settled
<1> QED BY <1>2 DEF Placed

-----------------------------------------------------------------------------
(* Each kind of step keeps the inductive invariant. *)

(* An answered request leaves its handler; the others go on as they were.  *)
LEMMA AnswerFields ==
  ASSUME ShapeOK, NEW h \in Handler, call[h].req \in Requests,
         NEW result \in {"OK", "failed"}, Answer(h, result)
  PROVE  /\ \A q \in Requests :
              answer'[q] = IF q = call[h].req THEN result ELSE answer[q]
         /\ \A g \in Handler : call'[g] = IF g = h THEN Idle ELSE call[g]
         /\ \A q \in Requests : answer[call[h].req] # "new" => (Sent(q)' <=> Sent(q))
  BY DEF Answer, ShapeOK, Sent

(* What a working handler has.                                             *)
LEMMA WorkingFields ==
  ASSUME ShapeOK, HandlersOK, NEW h \in Handler, call[h].pc # "idle"
  PROVE  /\ call[h] # Idle /\ Working(h)
         /\ call[h].req \in Requests /\ answer[call[h].req] = "waiting"
         /\ call[h].req.op = "DeleteVolume" \/ call[h].req \in Creations
  BY RequestsOK DEF HandlersOK, Working, Idle, Creations

(* The request of a handler is answered, and no ID changes that was given. *)
LEMMA AnswerStep ==
  ASSUME ShapeOK, HandlersOK, AloneOK, NEW h \in Handler, call[h].pc # "idle",
         NEW result \in {"OK", "failed"}, Answer(h, result),
         \A q \in Creations : Granted(q) => id'[q] = id[q]
  PROVE  /\ HandlersOK' /\ AloneOK'
         /\ \A q \in Requests : Granted(q)' <=> Granted(q) \/ (q = call[h].req /\ result = "OK")
         /\ \A q \in Requests : Retired(q)' <=> Retired(q)
<1> DEFINE r == call[h].req
<1>1. /\ call[h] # Idle /\ r \in Requests /\ answer[r] = "waiting"
  BY WorkingFields
<1>2. /\ \A q \in Requests : answer'[q] = IF q = r THEN result ELSE answer[q]
      /\ \A g \in Handler : call'[g] = IF g = h THEN Idle ELSE call[g]
      /\ \A q \in Requests : Sent(q)' <=> Sent(q)
  BY <1>1, AnswerFields
<1> HIDE DEF r
<1>3. \A q \in Requests : Granted(q)' <=> Granted(q) \/ (q = r /\ result = "OK")
  BY <1>1, <1>2 DEF Granted
<1>4. \A q \in Requests : Retired(q)' <=> Retired(q)
  BY <1>2 DEF Retired
<1>5. ASSUME NEW g \in Handler, call'[g] # Idle PROVE Working(g)'
  <2>1. g # h /\ call'[g] = call[g] /\ call[g] # Idle
    BY <1>2, <1>5
  <2>2. Working(g)
    BY <2>1 DEF HandlersOK
  <2>3. PICK q \in Requests : q = call[g].req /\ q # r
    BY <1>1, <2>1, <2>2 DEF AloneOK, Working, r
  <2>4. answer'[q] = "waiting" /\ (Retired(q)' <=> Retired(q))
    BY <1>2, <1>4, <2>2, <2>3 DEF Working
  <2>5. CASE q.op = "DeleteVolume"
    <3>1. PICK c \in Creations : c = CreationOf(q) /\ c \in Requests
      BY OneCreationOf DEF Creations
    <3>2. Granted(c) /\ Granted(c)' /\ id'[c] = id[c]
      BY <1>3, <2>2, <2>3, <2>5, <3>1 DEF Working
    <3> QED BY <2>1, <2>2, <2>3, <2>4, <3>1, <3>2 DEF Working
  <2>6. CASE q.op # "DeleteVolume"
    BY <2>1, <2>2, <2>3, <2>4, <2>6 DEF Working
  <2> QED BY <2>5, <2>6
<1>6. AloneOK'
  BY <1>2 DEF AloneOK
<1> QED BY <1>3, <1>4, <1>5, <1>6 DEF HandlersOK, r

(* resolveNS sends a request to a place that can serve it, or answers it.  *)
LEMMA ResolveCases ==
  ASSUME PlacementInv, NEW h \in Handler, Resolve(h)
  PROVE  LET r == call[h].req IN
         /\ call[h].pc = "resolve" /\ UNCHANGED <<fs, id>>
         /\ faults' = faults \/ faults' = faults + 1
         /\ faults' <= MaxFaults
         /\ \/ CutOff
            \/ Answer(h, "failed")
            \/ /\ Answer(h, "OK") /\ r.op = "DeleteVolume"
               /\ \E n \in Name, p \in Paths :
                    id[CreationOf(r)] = VolumeID(n, p) /\ p \notin fs[n]
            \/ /\ UNCHANGED answer
               /\ \E n \in Name, p \in Paths :
                    /\ call' = [call EXCEPT ![h].pc = r.op, ![h].at = n, ![h].path = p]
                    /\ r.op = "CreateVolume" => Placed(r, n, p)
                    /\ r.op = "DeleteVolume" => id[CreationOf(r)] = VolumeID(n, p)
<1> DEFINE r == call[h].req
<1>1. call[h].pc = "resolve" /\ UNCHANGED <<fs, id>>
  BY DEF Resolve
<1>2. r \in Requests /\ (r.op = "DeleteVolume" \/ r \in Creations) /\ Working(h)
  BY <1>1, WorkingFields DEF PlacementInv
<1>3. PICK down \in SUBSET Name :
        /\ faults' = IF down = {} THEN faults ELSE faults + 1
        /\ faults' <= MaxFaults
        /\ \E o \in resolveNS(cfg, fs, down, ParamsOf(r)) :
             CASE o.code = "OK" ->
                    /\ call' = [call EXCEPT ![h].pc = r.op, ![h].at = o.configName,
                         ![h].path = IF r.op = "DeleteVolume" THEN o.datasetPath
                                     ELSE Join(o.datasetPath, r.vol)]
                    /\ UNCHANGED answer
               [] o.code = "panic" -> CutOff
               [] OTHER -> Answer(h, IF r.op = "DeleteVolume" /\ Gone(o.code)
                                       THEN "OK" ELSE "failed")
  BY DEF Resolve
<1>4. PICK o \in resolveNS(cfg, fs, down, ParamsOf(r)) :
        CASE o.code = "OK" ->
               /\ call' = [call EXCEPT ![h].pc = r.op, ![h].at = o.configName,
                    ![h].path = IF r.op = "DeleteVolume" THEN o.datasetPath
                                ELSE Join(o.datasetPath, r.vol)]
               /\ UNCHANGED answer
          [] o.code = "panic" -> CutOff
          [] OTHER -> Answer(h, IF r.op = "DeleteVolume" /\ Gone(o.code)
                                  THEN "OK" ELSE "failed")
  BY <1>3
<1>5. CASE r \in Creations
  <2>1. ParamsOf(r) = CreationParams(r) /\ r.op = "CreateVolume"
    BY <1>5, ParamsOfCreation DEF Creations
  <2>2. CASE o.code = "OK"
    <3>1. Placed(r, o.configName, Join(o.datasetPath, r.vol))
      BY <1>4, <1>5, <2>1, <2>2, CreationResolved DEF PlacementInv
    <3>2. o.configName \in Name /\ Join(o.datasetPath, r.vol) \in Paths
      BY <1>5, <3>1, PlacedPath
    <3>3. /\ call' = [call EXCEPT ![h].pc = r.op, ![h].at = o.configName,
                                  ![h].path = Join(o.datasetPath, r.vol)]
          /\ UNCHANGED answer
      BY <1>4, <2>1, <2>2
    <3> QED BY <1>1, <1>3, <2>1, <3>1, <3>2, <3>3
  <2>3. CASE o.code # "OK"
    <3>1. CutOff \/ Answer(h, "failed")
      BY <1>4, <2>1, <2>3
    <3> QED BY <1>1, <1>3, <3>1
  <2> QED BY <2>2, <2>3
<1>6. CASE r.op = "DeleteVolume"
  <2>1. PICK c \in Creations : c = CreationOf(r) /\ Granted(c)
    BY <1>2, <1>6, OneCreationOf DEF Working
  <2>2. PICK n \in Name, p \in Paths : id[c] = VolumeID(n, p) /\ Placed(c, n, p)
    BY <2>1 DEF PlacementInv, AnswersOK
  <2>3. p # Empty
    BY <2>2, PlacedPath
  <2> DEFINE P == ParamsOfID(VolumeID(n, p))
  <2>4. o = Ask(cfg, fs, down, P, n) /\ PathAt(cfg, P, n) = p
    BY <1>4, <1>6, <2>1, <2>2, <2>3, ResolveID DEF ParamsOf
  <2> HIDE DEF P
  <2>5. /\ o.code = "OK" => o.configName = n /\ o.datasetPath = p
        /\ o.code = "NotFound" => p \notin fs[n]
    BY <2>4, AskOutcome
  <2>6. CASE o.code = "OK"
    <3>1. /\ call' = [call EXCEPT ![h].pc = r.op, ![h].at = n, ![h].path = p]
          /\ UNCHANGED answer
      BY <1>4, <1>6, <2>5, <2>6
    <3> QED BY <1>1, <1>3, <1>6, <2>1, <2>2, <3>1
  <2>7. CASE o.code = "NotFound"
    <3>1. Answer(h, "OK")
      BY <1>4, <1>6, <2>7 DEF Gone
    <3> QED BY <1>1, <1>3, <1>6, <2>1, <2>2, <2>5, <2>7, <3>1
  <2>8. CASE o.code \notin {"OK", "NotFound"}
    <3>1. CutOff \/ Answer(h, "failed")
      BY <1>4, <2>8 DEF Gone
    <3> QED BY <1>1, <1>3, <3>1
  <2> QED BY <2>6, <2>7, <2>8
<1> QED BY <1>2, <1>5, <1>6

(* While no request is granted nothing becomes of volumes and IDs.         *)
LEMMA NothingGranted ==
  ASSUME PlacementInv, UNCHANGED <<fs, id>>,
         \A q \in Requests : Granted(q)' <=> Granted(q),
         \A q \in Requests : Retired(q) => Retired(q)'
  PROVE  FilesystemsOK' /\ AnswersOK' /\ GoneOK'
<1>1. FilesystemsOK'
  BY DEF PlacementInv, FilesystemsOK
<1>2. AnswersOK'
  <2> SUFFICES ASSUME NEW r \in Creations, Granted(r)'
               PROVE  \E n \in Name, p \in Paths :
                        /\ id[r] = VolumeID(n, p)
                        /\ Placed(r, n, p)
                        /\ ~Retired(r)' => p \in fs[n]
    BY DEF AnswersOK
  <2>1. r \in Requests /\ Granted(r) /\ (Retired(r) => Retired(r)')
    BY DEF Creations
  <2> QED BY <2>1 DEF PlacementInv, AnswersOK
<1>3. GoneOK'
  <2> SUFFICES ASSUME NEW q \in Requests, NEW r \in Creations,
                      q.op = "DeleteVolume", Granted(q)', q.vol = r.vol, Settled(r),
                      NEW n \in Name, NEW p \in fs[n], Placed(r, n, p)
               PROVE  p \in Base(n)
    BY DEF GoneOK
  <2> QED BY DEF PlacementInv, GoneOK
<1> QED BY <1>1, <1>2, <1>3

(* A call is sent.                                                         *)
LEMMA SendStep ==
  ASSUME PlacementInv, NEW r \in Requests, NEW h \in Handler, Send(r, h)
  PROVE  PlacementInv'
<1> DEFINE d == [Idle EXCEPT !.pc = "resolve", !.req = r]
<1>0. /\ d.pc = "resolve" /\ d.req = r
      /\ d \in [pc : {"idle", "resolve", "CreateVolume", "DeleteVolume"},
                req : Requests \cup {NoRequest},
                at : Name \cup {Empty}, path : Paths \cup {Empty}]
  BY DEF Idle
<1> HIDE DEF d
<1>1. /\ call' = [call EXCEPT ![h] = d] /\ answer' = [answer EXCEPT ![r] = "waiting"]
      /\ answer[r] \in {"new", "failed"} /\ call[h] = Idle
      /\ UNCHANGED <<fs, id, faults>>
      /\ \A g \in Handler : call[g] # Idle => call[g].req.vol # r.vol
  BY DEF Send, d
<1>2. ShapeOK'
  BY <1>0, <1>1 DEF PlacementInv, ShapeOK
<1>3. /\ \A g \in Handler : call'[g] = IF g = h THEN d ELSE call[g]
      /\ \A q \in Requests : answer'[q] = IF q = r THEN "waiting" ELSE answer[q]
  BY <1>1 DEF PlacementInv, ShapeOK
<1>4. \A q \in Requests : Granted(q)' <=> Granted(q)
  BY <1>1, <1>3 DEF Granted
<1>5. \A q \in Requests :
        /\ Retired(q) => Retired(q)'
        /\ Retired(q)' => Retired(q) \/ (r.op = "DeleteVolume" /\ r.vol = q.vol)
  BY <1>1, <1>3 DEF Retired, Sent
<1>6. AloneOK'
  BY <1>0, <1>1, <1>3 DEF PlacementInv, AloneOK
<1>7. ASSUME NEW g \in Handler, call'[g] # Idle PROVE Working(g)'
  <2>1. CASE g = h
    <3>1. call'[g] = d /\ answer'[r] = "waiting"
      BY <1>3, <2>1
    <3>2. r.op = "CreateVolume" => ~Retired(r)'
      <4>1. r.op = "CreateVolume" => ~Retired(r)
        BY DEF Send
      <4> QED BY <1>5, <4>1
    <3>3. r.op = "DeleteVolume" => Granted(CreationOf(r))'
      <4>1. CreationOf(r) \in Requests
        BY OneCreationOf DEF Creations
      <4> QED BY <1>4, <4>1 DEF Send
    <3> QED BY <1>0, <3>1, <3>2, <3>3 DEF Working
  <2>2. CASE g # h
    <3>1. call'[g] = call[g] /\ call[g] # Idle /\ Working(g)
      BY <1>3, <1>7, <2>2 DEF PlacementInv, HandlersOK
    <3>2. PICK q \in Requests : q = call[g].req /\ q.vol # r.vol
      BY <1>1, <3>1 DEF Working
    <3>3. answer'[q] = "waiting" /\ (Retired(q)' <=> Retired(q))
      BY <1>3, <1>5, <3>1, <3>2 DEF Working
    <3>4. CASE q.op = "DeleteVolume"
      <4>1. PICK c \in Creations : c = CreationOf(q) /\ c \in Requests
        BY OneCreationOf DEF Creations
      <4>2. Granted(c)' /\ id'[c] = id[c]
        BY <1>1, <1>4, <3>1, <3>2, <3>4, <4>1 DEF Working
      <4> QED BY <3>1, <3>2, <3>3, <3>4, <4>1, <4>2 DEF Working
    <3>5. CASE q.op # "DeleteVolume"
      BY <3>1, <3>2, <3>3, <3>5 DEF Working
    <3> QED BY <3>4, <3>5
  <2> QED BY <2>1, <2>2
<1>8. FilesystemsOK' /\ AnswersOK' /\ GoneOK'
  BY <1>1, <1>4, <1>5, NothingGranted
<1> QED BY <1>2, <1>6, <1>7, <1>8 DEF PlacementInv, HandlersOK

(* The calls are cut off.                                                  *)
LEMMA CutOffStep ==
  ASSUME PlacementInv, CutOff, UNCHANGED <<fs, id>>, faults' \in 0 .. MaxFaults
  PROVE  PlacementInv'
<1>1. /\ \A g \in Handler : call'[g] = Idle
      /\ \A q \in Requests : /\ answer'[q] = "OK" <=> answer[q] = "OK"
                             /\ answer'[q] # "new" <=> answer[q] # "new"
  BY DEF CutOff, PlacementInv, ShapeOK
<1>2. ShapeOK'
  BY DEF CutOff, PlacementInv, ShapeOK, Idle
<1>3. \A q \in Requests : (Granted(q)' <=> Granted(q)) /\ (Retired(q) => Retired(q)')
  BY <1>1 DEF Granted, Retired, Sent
<1>4. FilesystemsOK' /\ AnswersOK' /\ GoneOK'
  BY <1>3, NothingGranted
<1> QED BY <1>1, <1>2, <1>4 DEF PlacementInv, HandlersOK, AloneOK

(* A resolved request goes on to the appliance.                            *)
LEMMA AdvanceStep ==
  ASSUME PlacementInv, NEW h \in Handler, call[h].pc = "resolve",
         UNCHANGED <<fs, id, answer>>, faults' \in 0 .. MaxFaults,
         NEW n \in Name, NEW p \in Paths,
         call' = [call EXCEPT ![h].pc = call[h].req.op, ![h].at = n, ![h].path = p],
         call[h].req.op = "CreateVolume" => Placed(call[h].req, n, p),
         call[h].req.op = "DeleteVolume" => id[CreationOf(call[h].req)] = VolumeID(n, p)
  PROVE  PlacementInv'
<1>1. PICK r \in Requests : r = call[h].req /\ r.op \in {"CreateVolume", "DeleteVolume"}
  BY WorkingFields, RequestsOK DEF PlacementInv
<1>2. Working(h) /\ call[h] # Idle
  BY WorkingFields DEF PlacementInv
<1>3. ShapeOK'
  <2> DEFINE C == [pc : {"idle", "resolve", "CreateVolume", "DeleteVolume"},
                   req : Requests \cup {NoRequest},
                   at : Name \cup {Empty}, path : Paths \cup {Empty}]
  <2>1. call \in [Handler -> C] /\ call[h] \in C
    BY DEF PlacementInv, ShapeOK
  <2>2. [call[h] EXCEPT !.pc = r.op, !.at = n, !.path = p] \in C
    BY <1>1, <2>1
  <2>3. call' = [call EXCEPT ![h] = [call[h] EXCEPT !.pc = r.op, !.at = n, !.path = p]]
    BY <1>1, <2>1
  <2>4. call' \in [Handler -> C]
    BY <2>1, <2>2, <2>3
  <2> QED BY <2>4 DEF PlacementInv, ShapeOK
<1>4. /\ call'[h].pc = r.op /\ call'[h].req = r /\ call'[h].at = n /\ call'[h].path = p
      /\ \A g \in Handler : g # h => call'[g] = call[g]
  BY <1>1 DEF PlacementInv, ShapeOK
<1>5. \A q \in Requests : (Granted(q)' <=> Granted(q)) /\ (Retired(q)' <=> Retired(q))
  BY DEF Granted, Retired, Sent
<1>6. AloneOK'
  <2>1. \A g \in Handler : call'[g].req = call[g].req /\ (call'[g] # Idle => call[g] # Idle)
    <3>1. \A g \in Handler : g = h \/ call'[g] = call[g]
      BY <1>4
    <3>2. call'[h].req = call[h].req
      BY <1>1, <1>4
    <3> QED BY <1>2, <3>1, <3>2
  <2>2. ASSUME NEW f \in Handler, NEW g \in Handler, f # g, call'[f] # Idle, call'[g] # Idle
        PROVE  call'[f].req.vol # call'[g].req.vol
    <3>1. call[f].req.vol # call[g].req.vol
      BY <2>1, <2>2 DEF PlacementInv, AloneOK
    <3> QED BY <2>1, <3>1
  <2> QED BY <2>2 DEF AloneOK
<1>7. ASSUME NEW g \in Handler, call'[g] # Idle PROVE Working(g)'
  <2>1. PICK q \in Requests : /\ q = call[g].req /\ q = call'[g].req /\ answer[q] = "waiting"
                              /\ Working(g)
    BY <1>1, <1>2, <1>4, <1>7 DEF PlacementInv, HandlersOK, Working
  <2>2. CreationOf(q) \in Requests
    BY OneCreationOf DEF Creations
  <2>3. q.op = "DeleteVolume" => Granted(CreationOf(q))'
    BY <1>5, <2>1, <2>2 DEF Working
  <2>4. q.op = "CreateVolume" => ~Retired(q)'
    BY <1>5, <2>1 DEF Working
  <2>5. CASE g = h
    BY <1>1, <1>4, <2>1, <2>3, <2>4, <2>5 DEF Working
  <2>6. CASE g # h
    BY <1>4, <2>1, <2>3, <2>4, <2>6 DEF Working
  <2> QED BY <2>5, <2>6
<1>8. FilesystemsOK' /\ AnswersOK' /\ GoneOK'
  BY <1>5, NothingGranted
<1> QED BY <1>3, <1>6, <1>7, <1>8 DEF PlacementInv, HandlersOK

(* A request is answered without a call to the appliance.                  *)
LEMMA RefusedStep ==
  ASSUME PlacementInv, NEW h \in Handler, call[h].pc # "idle", Answer(h, "failed"),
         UNCHANGED <<fs, id>>, faults' \in 0 .. MaxFaults
  PROVE  PlacementInv'
<1>1. ShapeOK'
  BY DEF Answer, PlacementInv, ShapeOK, Idle
<1>2. /\ HandlersOK' /\ AloneOK'
      /\ \A q \in Requests : (Granted(q)' <=> Granted(q)) /\ (Retired(q)' <=> Retired(q))
  BY AnswerStep DEF PlacementInv
<1> QED BY <1>1, <1>2, NothingGranted DEF PlacementInv

(* A deletion is done when the filesystem is not, or no longer, where the  *)
(* ID of the volume says.                                                  *)
LEMMA DeletedStep ==
  ASSUME PlacementInv, NEW h \in Handler, call[h].pc # "idle",
         call[h].req.op = "DeleteVolume",
         NEW result \in {"OK", "failed"}, Answer(h, result),
         UNCHANGED id, faults' \in 0 .. MaxFaults,
         NEW n \in Name, NEW p \in Paths, id[CreationOf(call[h].req)] = VolumeID(n, p),
         fs' = [fs EXCEPT ![n] = @ \ {p}]
  PROVE  PlacementInv'
<1>1. PICK r \in Requests : r = call[h].req /\ r.op = "DeleteVolume" /\ answer[r] = "waiting"
  BY WorkingFields DEF PlacementInv
<1>2. PICK c \in Creations : /\ c = CreationOf(r) /\ c.vol = r.vol /\ c \in Requests
                             /\ \A q \in Creations : q.vol = r.vol => q = c
  BY OneCreationOf DEF Creations
<1>3. Granted(c)
  BY <1>1, <1>2, WorkingFields DEF Working, PlacementInv
<1>4. Placed(c, n, p)
  <2>1. PICK m \in Name, q \in Paths : id[c] = VolumeID(m, q) /\ Placed(c, m, q)
    BY <1>2, <1>3 DEF PlacementInv, AnswersOK
  <2> QED BY <1>1, <1>2, <2>1 DEF VolumeID
<1>5. ShapeOK'
  BY DEF Answer, PlacementInv, ShapeOK, Idle
<1>6. /\ HandlersOK' /\ AloneOK'
      /\ \A q \in Requests : Granted(q)' <=> Granted(q) \/ (q = r /\ result = "OK")
      /\ \A q \in Requests : Retired(q)' <=> Retired(q)
  BY <1>1, AnswerStep DEF PlacementInv
<1>7. \A m \in Name : fs'[m] = IF m = n THEN fs[m] \ {p} ELSE fs[m]
  BY DEF PlacementInv, ShapeOK
<1>8. FilesystemsOK'
  BY <1>7 DEF PlacementInv, FilesystemsOK
<1>9. AnswersOK'
  <2> SUFFICES ASSUME NEW q \in Creations, Granted(q)'
               PROVE  \E m \in Name, d \in Paths :
                        id[q] = VolumeID(m, d) /\ Placed(q, m, d) /\ (~Retired(q)' => d \in fs'[m])
    BY DEF AnswersOK
  <2>1. q \in Requests /\ q.op = "CreateVolume"
    BY DEF Creations
  <2>2. Granted(q) /\ (Retired(q)' <=> Retired(q))
    BY <1>1, <1>6, <2>1
  <2>3. PICK m \in Name, d \in Paths :
          id[q] = VolumeID(m, d) /\ Placed(q, m, d) /\ (~Retired(q) => d \in fs[m])
    BY <2>2 DEF PlacementInv, AnswersOK
  <2>4. CASE q.vol = c.vol
    <3>1. Retired(q)
      BY <1>1, <1>2, <2>4 DEF Retired, Sent
    <3> QED BY <2>2, <2>3, <3>1
  <2>5. CASE q.vol # c.vol
    <3>1. d # p
      BY <1>4, <2>3, <2>5, PlacedPath
    <3> QED BY <1>7, <2>2, <2>3, <3>1
  <2> QED BY <2>4, <2>5
<1>10. GoneOK'
  <2> SUFFICES ASSUME NEW q \in Requests, NEW s \in Creations,
                      q.op = "DeleteVolume", Granted(q)', q.vol = s.vol, Settled(s),
                      NEW m \in Name, NEW d \in fs'[m], Placed(s, m, d)
               PROVE  d \in Base(m)
    BY DEF GoneOK
  <2>1. CASE Granted(q)
    BY <1>7, <2>1 DEF PlacementInv, GoneOK
  <2>2. CASE q = r
    <3>1. s = c
      BY <1>2, <2>2
    <3>2. m = n /\ d = p
      BY <1>4, <3>1, OnePlace
    <3> QED BY <1>7, <3>2
  <2> QED BY <1>6, <2>1, <2>2
<1> QED BY <1>5, <1>6, <1>8, <1>9, <1>10 DEF PlacementInv

(* resolveNS answers or sends on.                                          *)
LEMMA ResolveStep ==
  ASSUME PlacementInv, NEW h \in Handler, Resolve(h)
  PROVE  PlacementInv'
<1>1. call[h].pc = "resolve" /\ UNCHANGED <<fs, id>> /\ faults' \in 0 .. MaxFaults
  <2>1. /\ call[h].pc = "resolve" /\ UNCHANGED <<fs, id>>
        /\ faults' \in {faults, faults + 1} /\ faults' <= MaxFaults
    BY ResolveCases
  <2>2. faults \in 0 .. MaxFaults /\ MaxFaults \in Nat
    BY RequestsOK DEF PlacementInv, ShapeOK
  <2> QED BY <2>1, <2>2
<1>2. CASE CutOff
  BY <1>1, <1>2, CutOffStep
<1>3. CASE Answer(h, "failed")
  BY <1>1, <1>3, RefusedStep
<1>4. ASSUME Answer(h, "OK"), call[h].req.op = "DeleteVolume",
             NEW n \in Name, NEW p \in Paths,
             id[CreationOf(call[h].req)] = VolumeID(n, p), p \notin fs[n]
      PROVE  PlacementInv'
  <2>1. fs' = [fs EXCEPT ![n] = @ \ {p}]
    BY <1>1, <1>4 DEF PlacementInv, ShapeOK
  <2> QED BY <1>1, <1>4, <2>1, DeletedStep
<1>5. ASSUME UNCHANGED answer, NEW n \in Name, NEW p \in Paths,
             call' = [call EXCEPT ![h].pc = call[h].req.op, ![h].at = n, ![h].path = p],
             call[h].req.op = "CreateVolume" => Placed(call[h].req, n, p),
             call[h].req.op = "DeleteVolume" => id[CreationOf(call[h].req)] = VolumeID(n, p)
      PROVE  PlacementInv'
  BY <1>1, <1>5, AdvanceStep
<1> QED BY <1>2, <1>3, <1>4, <1>5, ResolveCases

(* A creation makes its filesystem where it was sent.                      *)
LEMMA CreateStep ==
  ASSUME PlacementInv, NEW h \in Handler, CreateVolume(h)
  PROVE  PlacementInv'
<1>1. PICK r \in Creations :
        /\ r = call[h].req /\ r \in Requests /\ answer[r] = "waiting"
        /\ Placed(r, call[h].at, call[h].path) /\ ~Retired(r)
  BY WorkingFields DEF CreateVolume, PlacementInv, Working, Creations
<1>2. PICK n \in Name, p \in Paths : n = call[h].at /\ p = call[h].path /\ p # Empty
  BY <1>1, PlacedPath
<1>3. call[h].pc # "idle" /\ faults \in 0 .. MaxFaults /\ MaxFaults \in Nat
  BY RequestsOK DEF CreateVolume, PlacementInv, ShapeOK
<1>4. CASE Answer(h, "failed") /\ UNCHANGED <<fs, id, faults>>
  BY <1>3, <1>4, RefusedStep
<1>5. ASSUME NEW result \in {"OK", "failed"}, Answer(h, result),
             fs' = [fs EXCEPT ![n] = @ \cup {p}], faults' \in 0 .. MaxFaults,
             id' = IF result = "OK" THEN [id EXCEPT ![r] = VolumeID(n, p)] ELSE id
      PROVE  PlacementInv'
  <2>1. ShapeOK'
    <3>1. fs' \in [Name -> SUBSET Paths]
      BY <1>5 DEF PlacementInv, ShapeOK
    <3>2. id' \in [Creations -> (Name \X Paths) \cup {Empty}]
      BY <1>5 DEF PlacementInv, ShapeOK, VolumeID
    <3>3. /\ answer' \in [Requests -> {"new", "waiting", "failed", "OK"}]
          /\ call' \in [Handler -> [pc : {"idle", "resolve", "CreateVolume", "DeleteVolume"},
                                    req : Requests \cup {NoRequest},
                                    at : Name \cup {Empty}, path : Paths \cup {Empty}]]
      BY <1>5 DEF Answer, PlacementInv, ShapeOK, Idle
    <3> QED BY <1>5, <3>1, <3>2, <3>3 DEF ShapeOK
  <2>2. \A q \in Creations : q # r => id'[q] = id[q]
    BY <1>5 DEF PlacementInv, ShapeOK
  <2>3. ~Granted(r)
    BY <1>1 DEF Granted
  <2>4. /\ HandlersOK' /\ AloneOK'
        /\ \A q \in Requests : Granted(q)' <=> Granted(q) \/ (q = r /\ result = "OK")
        /\ \A q \in Requests : Retired(q)' <=> Retired(q)
    BY <1>1, <1>3, <1>5, <2>2, <2>3, AnswerStep DEF PlacementInv
  <2>5. \A m \in Name : fs'[m] = IF m = n THEN fs[m] \cup {p} ELSE fs[m]
    BY <1>5 DEF PlacementInv, ShapeOK
  <2>6. FilesystemsOK'
    BY <1>1, <1>2, <2>5 DEF PlacementInv, FilesystemsOK
  <2>7. AnswersOK'
    <3> SUFFICES ASSUME NEW q \in Creations, Granted(q)'
                 PROVE  \E m \in Name, d \in Paths :
                          id'[q] = VolumeID(m, d) /\ Placed(q, m, d) /\ (~Retired(q)' => d \in fs'[m])
      BY DEF AnswersOK
    <3>1. q \in Requests /\ (Retired(q)' <=> Retired(q))
      BY <2>4 DEF Creations
    <3>2. CASE q = r
      <4>1. id'[q] = VolumeID(n, p)
        BY <1>5, <2>3, <2>4, <3>1, <3>2 DEF PlacementInv, ShapeOK
      <4> QED BY <1>1, <1>2, <2>5, <3>2, <4>1
    <3>3. CASE q # r
      <4>1. Granted(q) /\ id'[q] = id[q]
        BY <2>2, <2>4, <3>1, <3>3
      <4>2. PICK m \in Name, d \in Paths :
              id[q] = VolumeID(m, d) /\ Placed(q, m, d) /\ (~Retired(q) => d \in fs[m])
        BY <4>1 DEF PlacementInv, AnswersOK
      <4> QED BY <2>5, <3>1, <4>1, <4>2
    <3> QED BY <3>2, <3>3
  <2>8. GoneOK'
    <3> SUFFICES ASSUME NEW q \in Requests, NEW s \in Creations,
                        q.op = "DeleteVolume", Granted(q)', q.vol = s.vol, Settled(s),
                        NEW m \in Name, NEW d \in fs'[m], Placed(s, m, d)
                 PROVE  d \in Base(m)
      BY DEF GoneOK
    <3>1. Granted(q)
      BY <1>1, <2>4 DEF Creations
    <3>2. CASE d \in fs[m]
      BY <3>1, <3>2 DEF PlacementInv, GoneOK
    <3>3. CASE d = p
      <4>1. s.vol = r.vol
        BY <1>1, <1>2, <3>3, PlacedPath
      <4>2. Retired(r)
        BY <3>1, <4>1 DEF Retired, Granted, Sent
      <4> QED BY <1>1, <4>2
    <3> QED BY <2>5, <3>2, <3>3
  <2> QED BY <2>1, <2>4, <2>6, <2>7, <2>8 DEF PlacementInv
<1>6. CASE /\ fs' = [fs EXCEPT ![n] = @ \cup {p}]
           /\ Answer(h, "OK") /\ id' = [id EXCEPT ![r] = VolumeID(n, p)]
           /\ UNCHANGED faults
  BY <1>3, <1>5, <1>6
<1>7. CASE /\ fs' = [fs EXCEPT ![n] = @ \cup {p}]
           /\ faults < MaxFaults /\ faults' = faults + 1
           /\ Answer(h, "failed") /\ UNCHANGED id
  BY <1>3, <1>5, <1>7
<1> QED BY <1>1, <1>2, <1>4, <1>6, <1>7 DEF CreateVolume, IDOf

(* A deletion removes the filesystem that the ID names.                    *)
LEMMA DeleteStep ==
  ASSUME PlacementInv, NEW h \in Handler, DeleteVolume(h)
  PROVE  PlacementInv'
<1>1. PICK c \in Creations :
        /\ c = CreationOf(call[h].req) /\ call[h].req.op = "DeleteVolume" /\ Granted(c)
        /\ id[c] = VolumeID(call[h].at, call[h].path)
  BY WorkingFields, OneCreationOf DEF DeleteVolume, PlacementInv, Working
<1>2. PICK n \in Name, p \in Paths : n = call[h].at /\ p = call[h].path
  BY <1>1 DEF PlacementInv, AnswersOK, VolumeID
<1>3. /\ call[h].pc # "idle" /\ UNCHANGED id /\ fs' = [fs EXCEPT ![n] = @ \ {p}]
      /\ \/ Answer(h, "OK") /\ UNCHANGED faults
         \/ faults < MaxFaults /\ faults' = faults + 1 /\ Answer(h, "failed")
  BY <1>2 DEF DeleteVolume
<1>4. faults \in 0 .. MaxFaults /\ MaxFaults \in Nat
  BY RequestsOK DEF PlacementInv, ShapeOK
<1>5. faults' \in 0 .. MaxFaults /\ \E result \in {"OK", "failed"} : Answer(h, result)
  BY <1>3, <1>4
<1> QED BY <1>1, <1>2, <1>3, <1>5, DeletedStep

(* The inductive invariant holds in every state.                           *)
LEMMA PlacementInvariance == Spec => []PlacementInv
<1>1. Init => PlacementInv
  <2> SUFFICES ASSUME Init PROVE PlacementInv
    OBVIOUS
  <2>1. \A n \in Name : Base(n) \in SUBSET Paths
    BY DEF Base, Paths
  <2>2. ShapeOK
    BY <2>1, RequestsOK DEF Init, ShapeOK, Idle, Base
  <2>3. FilesystemsOK
    BY DEF Init, FilesystemsOK, Base
  <2>4. \A q \in Requests : ~Granted(q)
    BY DEF Init, Granted
  <2>5. \A h \in Handler : call[h] = Idle
    BY DEF Init
  <2> QED BY <2>2, <2>3, <2>4, <2>5
      DEF PlacementInv, HandlersOK, AloneOK, AnswersOK, GoneOK, Creations
<1>2. PlacementInv /\ [Next]_vars => PlacementInv'
  <2> SUFFICES ASSUME PlacementInv, [Next]_vars PROVE PlacementInv'
    OBVIOUS
  <2>1. CASE Crash
    <3>1. faults' \in 0 .. MaxFaults
      BY <2>1, RequestsOK DEF Crash, PlacementInv, ShapeOK
    <3> QED BY <2>1, <3>1, CutOffStep DEF Crash
  <2>2. CASE UNCHANGED vars
    <3>1. \A q \in Requests : (Granted(q)' <=> Granted(q)) /\ (Retired(q)' <=> Retired(q))
      BY <2>2 DEF vars, Granted, Retired, Sent
    <3>2. FilesystemsOK' /\ AnswersOK' /\ GoneOK'
      BY <2>2, <3>1, NothingGranted DEF vars
    <3>3. ShapeOK' /\ AloneOK'
      BY <2>2 DEF vars, PlacementInv, ShapeOK, AloneOK
    <3>4. HandlersOK'
      BY <2>2 DEF vars, PlacementInv, HandlersOK, Working, Retired, Sent, Granted
    <3> QED BY <3>2, <3>3, <3>4 DEF PlacementInv
  <2> QED
    BY <2>1, <2>2, SendStep, ResolveStep, CreateStep, DeleteStep DEF Next
<1> QED BY <1>1, <1>2, PTL DEF Spec

-----------------------------------------------------------------------------
(* The theorems. *)

(* Filesystems, requests and IDs have their types.                         *)
THEOREM PlacementTypeCorrect == Spec => []TypeOK
<1>1. PlacementInv => TypeOK
  <2> SUFFICES ASSUME PlacementInv PROVE TypeOK
    OBVIOUS
  <2>1. ASSUME NEW h \in Handler, call[h] # Idle
        PROVE  /\ call[h].pc \in {"resolve", "CreateVolume", "DeleteVolume"}
               /\ call[h].req \in Requests /\ answer[call[h].req] = "waiting"
               /\ call[h].at \in Name \cup {Empty} /\ call[h].path \in Paths \cup {Empty}
    BY <2>1 DEF PlacementInv, HandlersOK, Working, ShapeOK
  <2>2. ASSUME NEW r \in Creations
        PROVE  id[r] = Empty \/ id[r] \in {VolumeID(n, p) : n \in Name, p \in Paths}
    BY DEF PlacementInv, ShapeOK, VolumeID
  <2> QED BY <2>1, <2>2 DEF TypeOK, PlacementInv, ShapeOK
<1> QED BY <1>1, PlacementInvariance, PTL

(* The ID that CreateVolume answers leads to the volume and nowhere else,  *)
(* as long as no deletion was asked for.                                   *)
THEOREM IDHolds == Spec => []IDLeadsToVolume
<1>1. PlacementInv => IDLeadsToVolume
  <2> SUFFICES ASSUME PlacementInv, NEW r \in Requests, Live(r)
               PROVE  /\ resolveNS(cfg, fs, {}, ParamsOfID(id[r])) =
                           {[code |-> "OK", configName |-> Located(r).configName,
                             datasetPath |-> Located(r).path]}
                      /\ Located(r).path[Len(Located(r).path)] = r.vol
    BY DEF IDLeadsToVolume
  <2>1. PICK n \in Name, p \in Paths : id[r] = VolumeID(n, p) /\ Placed(r, n, p) /\ p \in fs[n]
    BY DEF Live, PlacementInv, AnswersOK
  <2>2. r \in Creations /\ p # Empty /\ p[Len(p)] = r.vol
    BY <2>1, PlacedPath DEF Live
  <2>3. /\ resolveNS(cfg, fs, {}, ParamsOfID(id[r])) = {Ask(cfg, fs, {}, ParamsOfID(id[r]), n)}
        /\ PathAt(cfg, ParamsOfID(id[r]), n) = p
        /\ Located(r).configName = n /\ Located(r).path = p
    BY <2>1, <2>2, ResolveID, ParsedID DEF Located
  <2>4. Lookup(fs, {}, n, p) = "OK"
    BY <2>1 DEF Lookup
  <2>5. Ask(cfg, fs, {}, ParamsOfID(id[r]), n) =
          [code |-> "OK", configName |-> n, datasetPath |-> p]
    BY <2>3, <2>4 DEF Ask
  <2> QED BY <2>2, <2>3, <2>5
<1> QED BY <1>1, PlacementInvariance, PTL

(* A volume lies in the zone, under the entry and in the dataset that were *)
(* asked for.                                                              *)
THEOREM PlacementHolds == Spec => []PlacedAsAsked
<1>1. PlacementInv => PlacedAsAsked
  <2> SUFFICES ASSUME PlacementInv, NEW r \in Requests, Live(r)
               PROVE  /\ r.zone # Empty => cfg[Located(r).configName].zone = r.zone
                      /\ r.name # Empty /\ r.src = Empty => Located(r).configName = r.name
                      /\ r.dataset # Empty => Located(r).path = Join(r.dataset, r.vol)
    BY DEF PlacedAsAsked
  <2>1. PICK n \in Name, p \in Paths : id[r] = VolumeID(n, p) /\ Placed(r, n, p) /\ r \in Creations
    BY DEF Live, PlacementInv, AnswersOK
  <2>2. Located(r).configName = n /\ Located(r).path = p
    BY <2>1, ParsedID DEF Located
  <2>3. Serves(r, n) /\ (r.dataset # Empty => p = Join(r.dataset, r.vol))
    BY <2>1, PlacedPath DEF Placed
  <2> QED BY <2>1, <2>2, <2>3, ParamsOfCreation DEF Serves
<1> QED BY <1>1, PlacementInvariance, PTL

(* A creation that only one appliance can serve leaves one filesystem at   *)
(* most, however often it was repeated, and its deletion none.             *)
THEOREM CopiesHold == Spec => []NoStrayCopies
<1>1. PlacementInv => NoStrayCopies
  <2> SUFFICES ASSUME PlacementInv, NEW r \in Creations, Settled(r)
               PROVE  /\ Cardinality(Copies(r)) <= 1
                      /\ \A q \in Requests :
                           q.op = "DeleteVolume" /\ q.vol = r.vol /\ Granted(q) => Copies(r) = {}
    BY DEF NoStrayCopies
  <2>1. ASSUME NEW n \in Copies(r)
        PROVE  \E p \in fs[n] : Placed(r, n, p) /\ n \in Name /\ p \notin Base(n)
    <3>1. PICK p \in fs[n] : n \in Name /\ p \notin Base(n) /\ p[Len(p)] = r.vol
      BY DEF Copies, Base
    <3>2. PICK q \in Creations : Placed(q, n, p)
      BY <3>1 DEF PlacementInv, FilesystemsOK
    <3>3. q = r
      BY <3>1, <3>2, PlacedPath, ConfigOK DEF Creations
    <3> QED BY <3>1, <3>2, <3>3
  <2>2. IsFiniteSet(Copies(r))
    BY RequestsOK, FS_Subset DEF Copies
  <2>3. \A m, n \in Copies(r) : m = n
    BY <2>1, OnePlace
  <2>4. ASSUME NEW q \in Requests, q.op = "DeleteVolume", q.vol = r.vol, Granted(q)
        PROVE  Copies(r) = {}
    BY <2>1, <2>4 DEF PlacementInv, GoneOK
  <2> QED BY <2>2, <2>3, <2>4, AtMostOne
<1> QED BY <1>1, PlacementInvariance, PTL
=============================================================================
