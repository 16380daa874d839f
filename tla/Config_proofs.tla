----------------------------- MODULE Config_proofs ------------------------------
(***************************************************************************)
(* What Refresh and the rebuilding of the resolvers guarantee, proved for  *)
(* every set of entries, files, secrets and services, and any number of    *)
(* requests at once.                                                       *)
(***************************************************************************)
EXTENDS Config, TLAPS

-----------------------------------------------------------------------------
(* Types. *)

(* What Unmarshal leaves is a configuration again.                         *)
LEMMA MergedType ==
  ASSUME NEW m \in NsMap, NEW c \in NsMap PROVE Merged(m, c) \in NsMap
  BY DEF Merged, NsMap

(* A request in progress has the fields of one.                            *)
LEMMA CallType ==
  ASSUME TypeOK, NEW h \in Handler, ~At(h, "idle")
  PROVE  /\ call[h] \in Call
         /\ call[h].caller \in Caller
         /\ call[h].secret \in Secrets \cup {NoSecret}
         /\ call[h].mtime \in 0 .. file.mtime
         /\ call[h].content \in NsMap \cup {Garbage}
<1>1. Idle.pc = "idle"
  BY DEF Idle
<1>2. call[h] \in Call
  BY <1>1 DEF TypeOK, At
<1> QED BY <1>2 DEF Call

(* The state has its types at the start.                                   *)
LEMMA TypeInit == Init => TypeOK
<1> SUFFICES ASSUME Init PROVE TypeOK
  OBVIOUS
<1>1. file.content \in NsMap /\ file.mtime = 0
  BY ConfigConstantsOK DEF Init
<1>2. file \in [content: NsMap \cup {Garbage}, mtime: 0 .. MaxEdits]
  BY <1>1, ConfigConstantsOK DEF Init
<1>3. call \in [Handler -> Call \cup {Idle}]
  BY DEF Init
<1>4. lastModTime \in 0 .. file.mtime
  BY <1>1 DEF Init
<1>5. nsMap \in NsMap /\ resolvers \in [Service -> NsMap] /\ temporary \in BOOLEAN
  <2>1. file.content \in NsMap
    BY ConfigConstantsOK DEF Init
  <2> QED BY <2>1 DEF Init, FirstResolvers
<1>6. reload \in [by: SUBSET Handler, of: SUBSET Service]
  BY DEF Init
<1> QED BY <1>2, <1>3, <1>4, <1>5, <1>6 DEF TypeOK

(* A step of a request in progress changes its place, and may note the     *)
(* modification time or what was read; its type stays.                     *)
LEMMA GotoType ==
  ASSUME TypeOK, NEW h \in Handler, ~At(h, "idle"),
         NEW p \in {"Stat", "Compare", "ReadFile", "Load", "Rebuild", "serve", "refuse"},
         Goto(h, p)
  PROVE  call' \in [Handler -> Call \cup {Idle}]
<1>1. call[h] \in Call /\ call \in [Handler -> Call \cup {Idle}]
  BY CallType DEF TypeOK
<1>2. [call[h] EXCEPT !.pc = p] \in Call
  BY <1>1 DEF Call
<1> QED BY <1>1, <1>2 DEF Goto

(* Stat notes the modification time.                                       *)
LEMMA SeenType ==
  ASSUME TypeOK, NEW h \in Handler, ~At(h, "idle"), NEW t \in 0 .. file.mtime
  PROVE  [call EXCEPT ![h].pc = "Compare", ![h].mtime = t] \in [Handler -> Call \cup {Idle}]
<1>1. call[h] \in Call /\ call \in [Handler -> Call \cup {Idle}]
  BY CallType DEF TypeOK
<1>2. [call[h] EXCEPT !.pc = "Compare", !.mtime = t] \in Call
  BY <1>1 DEF Call
<1> QED BY <1>1, <1>2

(* What is to be loaded is the file or the secret.                         *)
LEMMA ReadType ==
  ASSUME TypeOK, NEW h \in Handler, ~At(h, "idle"), NEW c \in NsMap \cup {Garbage}
  PROVE  [call EXCEPT ![h].pc = "Load", ![h].content = c] \in [Handler -> Call \cup {Idle}]
<1>1. call[h] \in Call /\ call \in [Handler -> Call \cup {Idle}]
  BY CallType DEF TypeOK
<1>2. [call[h] EXCEPT !.pc = "Load", !.content = c] \in Call
  BY <1>1 DEF Call
<1> QED BY <1>1, <1>2

(* The file keeps the types of the requests while it does not change.      *)
LEMMA SameFileType ==
  ASSUME file' = file, NEW f, f \in [Handler -> Call \cup {Idle}]
  PROVE  f \in [Handler -> Call' \cup {Idle}]
<1>1. Call' = Call
  BY DEF Call
<1> QED BY <1>1

(* Its modification time only grows, and so do the times a request has seen. *)
LEMMA EditType ==
  ASSUME TypeOK, Edit
  PROVE  TypeOK'
<1>1. PICK c \in Contents : file' = [content |-> c, mtime |-> file.mtime + 1]
  BY DEF Edit
<1>2. /\ file.mtime \in 0 .. MaxEdits /\ file.mtime < MaxEdits /\ MaxEdits \in Nat
      /\ c \in NsMap \cup {Garbage}
  BY ConfigConstantsOK DEF Edit, TypeOK
<1>3. /\ file' \in [content: NsMap \cup {Garbage}, mtime: 0 .. MaxEdits]
      /\ file'.mtime = file.mtime + 1
  BY <1>1, <1>2
<1>4. Call \subseteq Call'
  BY <1>2, <1>3 DEF Call
<1>5. call' \in [Handler -> Call' \cup {Idle}]
  BY <1>4 DEF Edit, TypeOK
<1>6. lastModTime' \in 0 .. file'.mtime
  BY <1>2, <1>3 DEF Edit, TypeOK
<1> QED BY <1>3, <1>5, <1>6 DEF Edit, TypeOK

(* Every step keeps the types.                                             *)
LEMMA TypeStep == TypeOK /\ [Next]_vars => TypeOK'
<1> SUFFICES ASSUME TypeOK, [Next]_vars PROVE TypeOK'
  OBVIOUS
<1> USE ConfigConstantsOK
<1>1. CASE Edit
  BY <1>1, EditType
<1>2. ASSUME NEW h \in Handler, NEW c \in Caller, NEW s \in Secrets \cup {NoSecret},
             Begin(h, c, s)
      PROVE  TypeOK'
  <2>1. file.mtime \in 0 .. MaxEdits
    BY DEF TypeOK
  <2>2. [caller |-> c, secret |-> s, pc |-> "Stat", mtime |-> 0, content |-> Garbage] \in Call
    BY <2>1 DEF Call
  <2>3. call' \in [Handler -> Call \cup {Idle}]
    BY <1>2, <2>2 DEF Begin, TypeOK
  <2> QED BY <1>2, <2>3, SameFileType DEF Begin, TypeOK
<1>3. ASSUME NEW h \in Handler, Stat(h) PROVE TypeOK'
  <2>1. file.mtime \in 0 .. file.mtime
    BY DEF TypeOK
  <2>2. ~At(h, "idle")
    BY <1>3 DEF Stat, At
  <2>3. call' \in [Handler -> Call \cup {Idle}]
    <3>1. CASE Goto(h, "refuse")
      BY <2>2, <3>1, GotoType
    <3>2. CASE call' = [call EXCEPT ![h].pc = "Compare", ![h].mtime = file.mtime]
      BY <2>1, <2>2, <3>2, SeenType
    <3> QED BY <1>3, <3>1, <3>2 DEF Stat
  <2> QED BY <1>3, <2>3, SameFileType DEF Stat, TypeOK
<1>4. ASSUME NEW h \in Handler, Compare(h) PROVE TypeOK'
  <2>1. ~At(h, "idle")
    BY <1>4 DEF Compare, At
  <2>2. /\ call[h].secret # NoSecret => call[h].secret \in NsMap
        /\ call[h].mtime \in 0 .. file.mtime
    BY <2>1, CallType
  <2>3. call' \in [Handler -> Call \cup {Idle}]
    <3>1. CASE Goto(h, "serve") \/ Goto(h, "ReadFile")
      BY <2>1, <3>1, GotoType
    <3>2. CASE /\ call' = [call EXCEPT ![h].pc = "Load", ![h].content = call[h].secret]
               /\ call[h].secret # NoSecret
      BY <2>1, <2>2, <3>2, ReadType
    <3> QED BY <1>4, <3>1, <3>2 DEF Compare
  <2>4. reload' \in [by: SUBSET Handler, of: SUBSET Service]
    <3>1. CASE UNCHANGED reload
      BY <3>1 DEF TypeOK
    <3>2. CASE Reload(h)
      BY <3>2 DEF Reload, TypeOK
    <3> QED BY <1>4, <3>1, <3>2 DEF Compare
  <2>5. file' = file /\ lastModTime' \in 0 .. file.mtime /\ temporary' \in BOOLEAN
    BY <1>4, <2>2 DEF Compare, TypeOK
  <2> QED BY <1>4, <2>3, <2>4, <2>5, SameFileType DEF Compare, TypeOK
<1>5. ASSUME NEW h \in Handler, ReadFile(h) PROVE TypeOK'
  <2>1. file.content \in NsMap \cup {Garbage}
    BY DEF TypeOK
  <2>2. ~At(h, "idle")
    BY <1>5 DEF ReadFile, At
  <2>3. call' \in [Handler -> Call \cup {Idle}]
    BY <1>5, <2>1, <2>2, ReadType DEF ReadFile
  <2> QED BY <1>5, <2>3, SameFileType DEF ReadFile, TypeOK
<1>6. ASSUME NEW h \in Handler, Load(h) PROVE TypeOK'
  <2>1. ~At(h, "idle")
    BY <1>6 DEF Load, At
  <2>2. call' \in [Handler -> Call \cup {Idle}]
    <3>1. \/ Goto(h, "refuse")
          \/ Goto(h, IF Valid(nsMap') THEN AfterLoad(h) ELSE "refuse")
      BY <1>6 DEF Load
    <3>2. (IF Valid(nsMap') THEN AfterLoad(h) ELSE "refuse") \in {"Rebuild", "serve", "refuse"}
      BY DEF AfterLoad
    <3> QED BY <2>1, <3>1, <3>2, GotoType
  <2>3. nsMap' \in NsMap
    BY <1>6, <2>1, CallType, MergedType DEF Load, TypeOK
  <2> QED BY <1>6, <2>2, <2>3, SameFileType DEF Load, TypeOK
<1>7. ASSUME NEW h \in Handler, Rebuild(h) PROVE TypeOK'
  <2>1. ~At(h, "idle")
    BY <1>7 DEF Rebuild, At
  <2>2. call' \in [Handler -> Call \cup {Idle}]
    BY <1>7, <2>1, GotoType DEF Rebuild
  <2>3. ASSUME NEW s \in Service PROVE Merged(resolvers[s], nsMap) \in NsMap
    BY MergedType DEF TypeOK
  <2>4. resolvers' \in [Service -> NsMap]
    BY <1>7, <2>3 DEF Rebuild, TypeOK
  <2> QED BY <1>7, <2>2, <2>4, SameFileType DEF Rebuild, TypeOK
<1>8. ASSUME NEW h \in Handler, End(h) PROVE TypeOK'
  <2>1. call' \in [Handler -> Call \cup {Idle}]
    BY <1>8 DEF End, TypeOK
  <2> QED BY <1>8, <2>1, SameFileType DEF End, TypeOK
<1>9. CASE UNCHANGED vars
  <2>1. call' \in [Handler -> Call \cup {Idle}] /\ file' = file
    BY <1>9 DEF vars, TypeOK
  <2> QED BY <1>9, <2>1, SameFileType DEF vars, TypeOK
<1> QED
  BY <1>1, <1>2, <1>3, <1>4, <1>5, <1>6, <1>7, <1>8, <1>9 DEF Next, Refresh

(* The configuration, the resolvers and the requests have their types.     *)
THEOREM ConfigTypeCorrect == Spec => []TypeOK
  BY TypeInit, TypeStep, PTL DEF Spec

-----------------------------------------------------------------------------
(* Agreement. *)

(* What was read prevails over what was there.                             *)
LEMMA MergedAgrees ==
  ASSUME NEW m \in NsMap, NEW c \in NsMap
  PROVE  Agrees(Merged(m, c), c)
  BY DEF Agrees, Merged, NsMap

(* Resolvers are made from all of the configuration, and so from all of    *)
(* what it agrees with.                                                    *)
LEMMA RebuiltAgrees ==
  ASSUME NEW r \in NsMap, NEW m \in NsMap, NEW c \in NsMap, Agrees(m, c)
  PROVE  Agrees(Merged(r, m), c)
  BY DEF Agrees, Merged, NsMap

-----------------------------------------------------------------------------
(* The steps of a request. *)

(* The fields of a request that its later steps leave alone.               *)
Same(h) ==
  /\ call'[h].caller = call[h].caller
  /\ call'[h].secret = call[h].secret
  /\ \A g \in Handler : g # h => call'[g] = call[g]

(* The steps of a request move it on as follows, and no other.             *)
LEMMA StepFields ==
  ASSUME TypeOK, NEW h \in Handler
  PROVE  /\ Stat(h) => Same(h) /\ call'[h].pc \in {"Compare", "refuse"}
         /\ Compare(h) => /\ Same(h)
                          /\ \/ call'[h].pc = "serve" /\ ~Changed(h)
                             \/ call'[h].pc = "ReadFile" /\ call[h].secret = NoSecret
                             \/ /\ call'[h].pc = "Load"
                                /\ call'[h].content = call[h].secret
                                /\ call[h].secret # NoSecret
         /\ ReadFile(h) => /\ Same(h)
                           /\ call'[h].pc = "Load"
                           /\ call'[h].content = file.content
         /\ Load(h) => Same(h) /\ call'[h].pc \in {AfterLoad(h), "refuse"}
         /\ Rebuild(h) => Same(h) /\ call'[h].pc = "serve"
<1>1. (At(h, "idle") \/ call[h] \in Call) /\ call \in [Handler -> Call \cup {Idle}]
  BY CallType DEF TypeOK
<1>2. CASE At(h, "idle")
  BY <1>2 DEF At, Stat, Compare, ReadFile, Load, Rebuild
<1>3. CASE call[h] \in Call /\ call \in [Handler -> Call \cup {Idle}]
  <2>1. Stat(h) => Same(h) /\ call'[h].pc \in {"Compare", "refuse"}
    BY <1>3 DEF Stat, Goto, Same, Call
  <2>2. Compare(h) => /\ Same(h)
                      /\ \/ call'[h].pc = "serve" /\ ~Changed(h)
                         \/ call'[h].pc = "ReadFile" /\ call[h].secret = NoSecret
                         \/ /\ call'[h].pc = "Load"
                            /\ call'[h].content = call[h].secret
                            /\ call[h].secret # NoSecret
    BY <1>3 DEF Compare, Goto, Same, Call
  <2>3. ReadFile(h) => /\ Same(h)
                       /\ call'[h].pc = "Load"
                       /\ call'[h].content = file.content
    BY <1>3 DEF ReadFile, Same, Call
  <2>4. Load(h) => Same(h) /\ call'[h].pc \in {AfterLoad(h), "refuse"}
    BY <1>3 DEF Load, Goto, Same, Call
  <2>5. Rebuild(h) => Same(h) /\ call'[h].pc = "serve"
    BY <1>3 DEF Rebuild, Goto, Same, Call
  <2> QED BY <2>1, <2>2, <2>3, <2>4, <2>5
<1> QED BY <1>1, <1>2, <1>3

-----------------------------------------------------------------------------
(* Who loads. *)

(* A request that loads is part of the last reload, and carries what its   *)
(* service and its secret call for.                                        *)
LoaderOK(h) ==
  LET c == call[h] IN
  Loading(h) =>
    /\ h \in reload.by
    /\ At(h, "ReadFile") => c.secret = NoSecret
    /\ At(h, "Load") /\ c.secret # NoSecret => c.content = c.secret
    /\ At(h, "Rebuild") => c.caller \in Service

(* This holds of every request.                                            *)
LoadersOK == \A h \in Handler : LoaderOK(h)

(* A request that loads alone is the last reload.                          *)
LEMMA Alone ==
  ASSUME LoadersOK, Undisturbed, NEW h \in Handler, Loading(h)
  PROVE  reload.by = {h} /\ \A g \in Handler : Loading(g) => g = h
  BY DEF LoadersOK, LoaderOK, Undisturbed

(* A reload that starts while others are loading is not undisturbed.       *)
LEMMA ReloadAlone ==
  ASSUME TypeOK, LoadersOK, NEW h \in Handler, Reload(h)
  PROVE  /\ h \in reload'.by
         /\ reload'.of = {call[h].caller} \cap Service
         /\ \A k \in Handler : reload'.by \subseteq {k} =>
              k = h /\ reload'.by = {h} /\ \A g \in Handler : Loading(g) => g = h
         /\ \A g \in Handler : Loading(g) => g \in reload'.by
<1>1. reload' = [by |-> IF \E g \in Handler \ {h} : Loading(g) THEN reload.by \cup {h}
                        ELSE {h},
                 of |-> {call[h].caller} \cap Service]
  BY DEF Reload
<1>2. \A g \in Handler : Loading(g) => g \in reload.by
  BY DEF LoadersOK, LoaderOK
<1> QED BY <1>1, <1>2

(* The requests that do not take the step are where they were.             *)
LEMMA SameLoading ==
  ASSUME NEW h \in Handler, Same(h)
  PROVE  \A g \in Handler : g # h => (Loading(g)' <=> Loading(g))
  BY DEF Same, Loading

(* Every step keeps this.                                                  *)
LEMMA LoadersStep ==
  ASSUME TypeOK, LoadersOK, [Next]_vars
  PROVE  LoadersOK'
<1>1. ASSUME UNCHANGED <<call, reload>> PROVE LoadersOK'
  BY <1>1 DEF LoadersOK, LoaderOK, Loading, At
<1>2. ASSUME NEW h \in Handler, Same(h), UNCHANGED reload, LoaderOK(h)' PROVE LoadersOK'
  BY <1>2 DEF LoadersOK, LoaderOK, Loading, At, Same
<1>3. ASSUME NEW h \in Handler, NEW c \in Caller, NEW s \in Secrets \cup {NoSecret},
             Begin(h, c, s)
      PROVE  LoadersOK'
  BY <1>3 DEF Begin, LoadersOK, LoaderOK, Loading, At, TypeOK
<1>4. ASSUME NEW h \in Handler, Stat(h) PROVE LoadersOK'
  <2>1. Same(h) /\ ~Loading(h)' /\ UNCHANGED reload
    BY <1>4, StepFields DEF Stat, Loading
  <2> QED BY <1>2, <2>1 DEF LoaderOK
<1>5. ASSUME NEW h \in Handler, Compare(h) PROVE LoadersOK'
  <2>1. Same(h)
    BY <1>5, StepFields
  <2>2. CASE Goto(h, "serve") /\ UNCHANGED reload
    <3>1. call'[h].pc = "serve"
      BY <2>2 DEF Goto, TypeOK
    <3> QED BY <1>2, <2>1, <2>2, <3>1 DEF LoaderOK, Loading
  <2>3. CASE Reload(h)
    <3>1. LoaderOK(h)'
      BY <1>5, <2>1, <2>3, StepFields, ReloadAlone DEF LoaderOK, Loading, At, Same
    <3>2. ASSUME NEW g \in Handler, g # h PROVE LoaderOK(g)'
      BY <2>1, <2>3, <3>2, ReloadAlone DEF LoadersOK, LoaderOK, Loading, At, Same
    <3> QED BY <3>1, <3>2 DEF LoadersOK
  <2> QED BY <1>5, <2>2, <2>3 DEF Compare
<1>6. ASSUME NEW h \in Handler, ReadFile(h) PROVE LoadersOK'
  <2>1. At(h, "ReadFile") /\ Same(h) /\ call'[h].pc = "Load" /\ UNCHANGED reload
    BY <1>6, StepFields DEF ReadFile
  <2>2. LoaderOK(h)
    BY DEF LoadersOK
  <2> QED BY <1>2, <2>1, <2>2 DEF LoaderOK, Loading, At, Same
<1>7. ASSUME NEW h \in Handler, Load(h) PROVE LoadersOK'
  <2>1. /\ At(h, "Load") /\ Same(h) /\ call'[h].pc \in {AfterLoad(h), "refuse"}
        /\ UNCHANGED reload
    BY <1>7, StepFields DEF Load
  <2>2. LoaderOK(h)
    BY DEF LoadersOK
  <2> QED BY <1>2, <2>1, <2>2 DEF LoaderOK, Loading, At, Same, AfterLoad
<1>8. ASSUME NEW h \in Handler, Rebuild(h) PROVE LoadersOK'
  <2>1. Same(h) /\ call'[h].pc = "serve" /\ UNCHANGED reload
    BY <1>8, StepFields DEF Rebuild
  <2> QED BY <1>2, <2>1 DEF LoaderOK, Loading
<1>9. ASSUME NEW h \in Handler, End(h) PROVE LoadersOK'
  BY <1>9 DEF End, Idle, LoadersOK, LoaderOK, Loading, At, TypeOK
<1>10. CASE Edit \/ UNCHANGED vars
  BY <1>1, <1>10 DEF Edit, vars
<1> QED
  BY <1>3, <1>4, <1>5, <1>6, <1>7, <1>8, <1>9, <1>10 DEF Next, Refresh
-----------------------------------------------------------------------------
(* Secrets. *)

(* A request with a secret that is the last reload carries the data of its *)
(* secret to the resolvers.                                                *)
SecretOK(h) ==
  LET c == call[h] IN
  reload.by = {h} /\ ~At(h, "idle") /\ c.secret # NoSecret =>
    /\ At(h, "Rebuild") => Agrees(nsMap, c.secret)
    /\ At(h, "serve") /\ c.caller \in Service =>
         Agrees(nsMap, c.secret) /\ Agrees(resolvers[c.caller], c.secret)

(* This holds of every request.                                            *)
SecretsOK == \A h \in Handler : SecretOK(h)

(* A step of a request that loads disturbs none of another one.            *)
LEMMA OtherSecrets ==
  ASSUME LoadersOK, NEW h \in Handler, NEW k \in Handler, k # h, Same(h),
         UNCHANGED reload, Loading(h)
  PROVE  SecretOK(k)'
  BY DEF LoadersOK, LoaderOK, SecretOK

(* A step that does not touch the configuration disturbs none but its own. *)
LEMMA QuietSecrets ==
  ASSUME SecretsOK, NEW h \in Handler, Same(h), UNCHANGED <<nsMap, resolvers, reload>>,
         SecretOK(h)'
  PROVE  SecretsOK'
  BY DEF SecretsOK, SecretOK, At, Same

(* Every step keeps this.                                                  *)
LEMMA SecretsStep ==
  ASSUME TypeOK, LoadersOK, SecretsOK, [Next]_vars
  PROVE  SecretsOK'
<1>1. ASSUME NEW h \in Handler, NEW c \in Caller, NEW s \in Secrets \cup {NoSecret},
             Begin(h, c, s)
      PROVE  SecretsOK'
  BY <1>1 DEF Begin, SecretsOK, SecretOK, At, TypeOK
<1>2. ASSUME NEW h \in Handler, Stat(h) PROVE SecretsOK'
  <2>1. /\ Same(h) /\ call'[h].pc \in {"Compare", "refuse"}
        /\ UNCHANGED <<nsMap, resolvers, reload>>
    BY <1>2, StepFields DEF Stat
  <2> QED BY <2>1, QuietSecrets DEF SecretOK, At
<1>3. ASSUME NEW h \in Handler, Compare(h) PROVE SecretsOK'
  <2>1. /\ Same(h)
        /\ \/ call'[h].pc = "serve" /\ ~Changed(h)
           \/ call'[h].pc = "ReadFile" /\ call[h].secret = NoSecret
           \/ call'[h].pc = "Load"
        /\ UNCHANGED <<nsMap, resolvers>>
    BY <1>3, StepFields DEF Compare
  <2>2. SecretOK(h)'
    BY <2>1 DEF SecretOK, At, Same, Changed
  <2>3. CASE UNCHANGED reload
    BY <2>1, <2>2, <2>3, QuietSecrets
  <2>4. CASE Reload(h)
    <3>1. ASSUME NEW k \in Handler, k # h PROVE SecretOK(k)'
      BY <2>4, <3>1, ReloadAlone DEF SecretOK
    <3> QED BY <2>2, <3>1 DEF SecretsOK
  <2> QED BY <1>3, <2>3, <2>4 DEF Compare
<1>4. ASSUME NEW h \in Handler, ReadFile(h) PROVE SecretsOK'
  <2>1. Same(h) /\ call'[h].pc = "Load" /\ UNCHANGED <<nsMap, resolvers, reload>>
    BY <1>4, StepFields DEF ReadFile
  <2> QED BY <2>1, QuietSecrets DEF SecretOK, At
<1>5. ASSUME NEW h \in Handler, Load(h) PROVE SecretsOK'
  <2>1. /\ Same(h) /\ call'[h].pc \in {AfterLoad(h), "refuse"} /\ UNCHANGED reload
        /\ At(h, "Load") /\ Loading(h) /\ LoaderOK(h)
    BY <1>5, StepFields DEF Load, At, Loading, LoadersOK
  <2>2. SecretOK(h)'
    <3> SUFFICES ASSUME call[h].secret # NoSecret, call'[h].pc = AfterLoad(h)
                 PROVE  /\ Agrees(nsMap', call[h].secret)
                        /\ AfterLoad(h) = "serve" => call[h].caller \notin Service
      BY <2>1 DEF SecretOK, At, Same, AfterLoad
    <3>1. call[h].content = call[h].secret
      BY <2>1 DEF LoaderOK
    <3>2. call[h].secret \in NsMap /\ Garbage \notin NsMap
      BY <2>1, CallType, ConfigConstantsOK DEF At
    <3>3. nsMap' = Merged(nsMap, call[h].secret) /\ nsMap \in NsMap
      BY <1>5, <3>1, <3>2 DEF Load, TypeOK
    <3> QED BY <3>2, <3>3, MergedAgrees DEF AfterLoad
  <2>3. \A k \in Handler : k # h => SecretOK(k)'
    BY <2>1, OtherSecrets
  <2> QED BY <2>2, <2>3 DEF SecretsOK
<1>6. ASSUME NEW h \in Handler, Rebuild(h) PROVE SecretsOK'
  <2>1. /\ Same(h) /\ call'[h].pc = "serve" /\ UNCHANGED <<nsMap, reload>>
        /\ At(h, "Rebuild") /\ Loading(h) /\ LoaderOK(h) /\ SecretOK(h)
    BY <1>6, StepFields DEF Rebuild, At, Loading, LoadersOK, SecretsOK
  <2>2. SecretOK(h)'
    <3> SUFFICES ASSUME call[h].secret # NoSecret, reload.by = {h}
                 PROVE  /\ Agrees(nsMap, call[h].secret)
                        /\ Agrees(resolvers'[call[h].caller], call[h].secret)
      BY <2>1 DEF SecretOK, At, Same
    <3>1. Agrees(nsMap, call[h].secret) /\ call[h].caller \in Service
      BY <2>1 DEF SecretOK, LoaderOK, At
    <3>2. call[h].secret \in NsMap /\ nsMap \in NsMap /\ resolvers[call[h].caller] \in NsMap
      BY <2>1, <3>1, CallType, ConfigConstantsOK DEF At, TypeOK
    <3>3. resolvers'[call[h].caller] = Merged(resolvers[call[h].caller], nsMap)
      BY <1>6, <3>1 DEF Rebuild, TypeOK
    <3> QED BY <3>1, <3>2, <3>3, RebuiltAgrees
  <2>3. \A k \in Handler : k # h => SecretOK(k)'
    BY <2>1, OtherSecrets
  <2> QED BY <2>2, <2>3 DEF SecretsOK
<1>7. ASSUME NEW h \in Handler, End(h) PROVE SecretsOK'
  BY <1>7 DEF End, Idle, SecretsOK, SecretOK, At, TypeOK
<1>8. CASE Edit \/ UNCHANGED vars
  BY <1>8 DEF Edit, vars, SecretsOK, SecretOK, At
<1> QED
  BY <1>1, <1>2, <1>3, <1>4, <1>5, <1>6, <1>7, <1>8 DEF Next, Refresh

-----------------------------------------------------------------------------
(* The file. *)

(* The configuration in memory is of the file, and so are the resolvers of *)
(* the service that loaded it, unless it was refused.                      *)
Current ==
  /\ Agrees(nsMap, file.content)
  /\ Valid(nsMap) => \A s \in reload.of : Agrees(resolvers[s], file.content)

(* The request carries the file on to the resolvers.                       *)
Carries(h) ==
  LET c == call[h] IN
  /\ c.secret = NoSecret
  /\ reload.of = {c.caller} \cap Service
  /\ At(h, "Load") => c.content = file.content
  /\ At(h, "Rebuild") => Agrees(nsMap, file.content)

(* The file is known, and nothing has come between.                        *)
KnownFile ==
  lastModTime = file.mtime /\ ~temporary /\ Undisturbed /\ Usable(file.content)

(* A file that is known is being loaded by a request, or it is loaded.     *)
FileOK ==
  KnownFile =>
    /\ \A h \in Handler : Loading(h) => Carries(h)
    /\ (\A h \in Handler : ~Loading(h)) => Current

(* A step that touches no configuration keeps this if it starts no reload. *)
LEMMA QuietFile ==
  ASSUME FileOK, NEW h \in Handler, Same(h), ~Loading(h), ~Loading(h)',
         UNCHANGED <<file, nsMap, lastModTime, temporary, resolvers, reload>>
  PROVE  FileOK'
<1> SUFFICES ASSUME KnownFile'
             PROVE  /\ \A g \in Handler : Loading(g)' => Carries(g)'
                    /\ (\A g \in Handler : ~Loading(g)') => Current'
  BY DEF FileOK
<1>1. KnownFile
  BY DEF KnownFile, Undisturbed, Usable, Valid
<1>2. \A g \in Handler : Loading(g)' <=> Loading(g)
  BY SameLoading
<1>3. \A g \in Handler : Loading(g) => Carries(g)'
  BY <1>1 DEF FileOK, Carries, At, Same
<1>4. (\A g \in Handler : ~Loading(g)) => Current'
  BY <1>1 DEF FileOK, Current, Agrees, Valid
<1> QED BY <1>2, <1>3, <1>4

(* Every step keeps this.                                                  *)
LEMMA FileStep ==
  ASSUME TypeOK, LoadersOK, FileOK, [Next]_vars
  PROVE  FileOK'
<1>1. ASSUME NEW h \in Handler, NEW c \in Caller, NEW s \in Secrets \cup {NoSecret},
             Begin(h, c, s)
      PROVE  FileOK'
  BY <1>1 DEF Begin, FileOK, KnownFile, Undisturbed, Carries, Current, Loading, At, TypeOK
<1>2. ASSUME NEW h \in Handler, Stat(h) PROVE FileOK'
  <2>1. Same(h) /\ ~Loading(h) /\ ~Loading(h)'
    BY <1>2, StepFields DEF Stat, Loading, At
  <2> QED BY <1>2, <2>1, QuietFile DEF Stat
<1>3. ASSUME NEW h \in Handler, Compare(h) PROVE FileOK'
  <2>1. Same(h) /\ ~Loading(h) /\ UNCHANGED <<file, nsMap, resolvers>>
    BY <1>3, StepFields DEF Compare, Loading, At
  <2>2. CASE Goto(h, "serve") /\ UNCHANGED <<lastModTime, temporary, reload>>
    <3>1. ~Loading(h)'
      BY <2>2 DEF Goto, Loading, TypeOK
    <3> QED BY <2>1, <2>2, <3>1, QuietFile
  <2>3. CASE temporary' = TRUE
    BY <2>3 DEF FileOK, KnownFile
  <2>4. CASE Goto(h, "ReadFile") /\ call[h].secret = NoSecret /\ Reload(h)
    <3> SUFFICES ASSUME KnownFile'
                 PROVE  \A g \in Handler : Loading(g)' => Carries(g)'
      <4>1. Loading(h)'
        BY <2>4 DEF Goto, Loading, TypeOK
      <4> QED BY <4>1 DEF FileOK
    <3>1. \A g \in Handler : Loading(g)' => g = h
      <4>1. \E k \in Handler : reload'.by \subseteq {k}
        BY DEF KnownFile, Undisturbed
      <4>2. \A g \in Handler : Loading(g) => g = h
        BY <2>4, <4>1, ReloadAlone
      <4> QED BY <2>1, <4>2, SameLoading
    <3>2. Carries(h)'
      BY <2>1, <2>4, ReloadAlone DEF Carries, Goto, At, Same, TypeOK
    <3> QED BY <3>1, <3>2
  <2> QED BY <1>3, <2>2, <2>3, <2>4 DEF Compare
<1>4. ASSUME NEW h \in Handler, ReadFile(h) PROVE FileOK'
  <2>1. /\ Same(h) /\ call'[h].pc = "Load" /\ call'[h].content = file.content
        /\ Loading(h) /\ Loading(h)'
        /\ UNCHANGED <<file, nsMap, lastModTime, temporary, resolvers, reload>>
    BY <1>4, StepFields DEF ReadFile, Loading, At
  <2> SUFFICES ASSUME KnownFile' PROVE \A g \in Handler : Loading(g)' => Carries(g)'
    BY <2>1 DEF FileOK
  <2>2. KnownFile
    BY <2>1 DEF KnownFile, Undisturbed, Usable, Valid
  <2>3. \A g \in Handler : Loading(g)' => g = h
    BY <2>1, <2>2, Alone, SameLoading DEF KnownFile
  <2>4. Carries(h)'
    BY <2>1, <2>2 DEF FileOK, Carries, At, Same
  <2> QED BY <2>3, <2>4
<1>5. ASSUME NEW h \in Handler, Load(h) PROVE FileOK'
  <2>1. /\ Same(h) /\ call'[h].pc \in {AfterLoad(h), "refuse"}
        /\ Loading(h) /\ At(h, "Load")
        /\ UNCHANGED <<file, lastModTime, temporary, resolvers, reload>>
    BY <1>5, StepFields DEF Load, Loading, At
  <2> SUFFICES ASSUME KnownFile'
               PROVE  /\ \A g \in Handler : Loading(g)' => Carries(g)'
                      /\ (\A g \in Handler : ~Loading(g)') => Current'
    BY DEF FileOK
  <2>2. KnownFile
    BY <2>1 DEF KnownFile, Undisturbed, Usable, Valid
  <2>3. \A g \in Handler : Loading(g)' => g = h
    BY <2>1, <2>2, Alone, SameLoading DEF KnownFile
  <2>4. Carries(h) /\ call[h].content = file.content
    BY <2>1, <2>2 DEF FileOK, Carries
  <2>5. /\ file.content \in NsMap /\ file.content # Garbage /\ nsMap \in NsMap
        /\ nsMap' = Merged(nsMap, file.content)
    BY <1>5, <2>2, <2>4 DEF Load, KnownFile, Usable, TypeOK
  <2>6. Agrees(nsMap', file.content)
    BY <2>5, MergedAgrees
  <2>7. Carries(h)'
    BY <2>1, <2>4, <2>6 DEF Carries, At, Same, AfterLoad
  <2>8. (\A g \in Handler : ~Loading(g)') => ~Valid(nsMap') \/ reload.of = {}
    <3>1. call'[h].pc = IF Valid(nsMap') THEN AfterLoad(h) ELSE "refuse"
      <4>1. Goto(h, IF Valid(nsMap') THEN AfterLoad(h) ELSE "refuse")
        BY <1>5, <2>4, <2>5 DEF Load
      <4>2. h \in DOMAIN call /\ "pc" \in DOMAIN call[h]
        BY <2>1, CallType DEF TypeOK, Call, At
      <4> QED BY <4>1, <4>2 DEF Goto
    <3>2. reload.of = {call[h].caller} \cap Service
      BY <2>4 DEF Carries
    <3>3. ~Loading(h)' => ~Valid(nsMap') \/ call[h].caller \notin Service
      BY <3>1 DEF Loading, AfterLoad
    <3> QED BY <3>2, <3>3
  <2>9. (\A g \in Handler : ~Loading(g)') => Current'
    <3>1. Current' <=> /\ Agrees(nsMap', file.content)
                       /\ Valid(nsMap') => \A s \in reload.of :
                                             Agrees(resolvers[s], file.content)
      BY <2>1 DEF Current, Valid, Agrees
    <3> QED BY <2>6, <2>8, <3>1
  <2> QED BY <2>3, <2>7, <2>9
<1>6. ASSUME NEW h \in Handler, Rebuild(h) PROVE FileOK'
  <2>1. /\ Same(h) /\ call'[h].pc = "serve" /\ Loading(h) /\ ~Loading(h)'
        /\ At(h, "Rebuild")
        /\ UNCHANGED <<file, nsMap, lastModTime, temporary, reload>>
    BY <1>6, StepFields DEF Rebuild, Loading, At
  <2> SUFFICES ASSUME KnownFile'
               PROVE  /\ \A g \in Handler : Loading(g)' => Carries(g)'
                      /\ (\A g \in Handler : ~Loading(g)') => Current'
    BY DEF FileOK
  <2>2. KnownFile
    BY <2>1 DEF KnownFile, Undisturbed, Usable, Valid
  <2>3. \A g \in Handler : ~Loading(g)'
    BY <2>1, <2>2, Alone, SameLoading DEF KnownFile
  <2>4. Carries(h) /\ call[h].caller \in Service
    BY <2>1, <2>2 DEF FileOK, LoadersOK, LoaderOK
  <2>5. reload.of = {call[h].caller} /\ Agrees(nsMap, file.content)
    BY <2>1, <2>4 DEF Carries
  <2>6. file.content \in NsMap /\ nsMap \in NsMap /\ resolvers[call[h].caller] \in NsMap
    BY <2>2, <2>4 DEF KnownFile, Usable, TypeOK
  <2>7. resolvers'[call[h].caller] = Merged(resolvers[call[h].caller], nsMap)
    BY <1>6, <2>4 DEF Rebuild, TypeOK
  <2>8. Agrees(resolvers'[call[h].caller], file.content)
    BY <2>5, <2>6, <2>7, RebuiltAgrees
  <2>9. Current'
    BY <2>1, <2>5, <2>8 DEF Current, Agrees
  <2> QED BY <2>3, <2>9
<1>7. ASSUME NEW h \in Handler, End(h) PROVE FileOK'
  BY <1>7 DEF End, Idle, FileOK, KnownFile, Undisturbed, Carries, Current, Loading, At, TypeOK
<1>8. CASE Edit
  <2>1. lastModTime \in 0 .. file.mtime /\ file.mtime \in Nat /\ lastModTime' = lastModTime
    BY <1>8, ConfigConstantsOK DEF Edit, TypeOK
  <2>2. file'.mtime = file.mtime + 1
    BY <1>8 DEF Edit
  <2> QED BY <2>1, <2>2 DEF FileOK, KnownFile
<1>9. CASE UNCHANGED vars
  BY <1>9 DEF vars, FileOK, KnownFile, Undisturbed, Carries, Current, Loading, At
<1> QED
  BY <1>1, <1>2, <1>3, <1>4, <1>5, <1>6, <1>7, <1>8, <1>9 DEF Next, Refresh

-----------------------------------------------------------------------------
(* The theorems. *)

(* The invariant: types, who loads, secrets and the file.                  *)
ReloadInv == TypeOK /\ LoadersOK /\ SecretsOK /\ FileOK

(* It holds at the start, when every resolver is made from the file.       *)
LEMMA ReloadInit == Init => ReloadInv
<1> SUFFICES ASSUME Init PROVE ReloadInv
  OBVIOUS
<1>1. \A h \in Handler : call[h].pc = "idle" /\ ~Loading(h)
  BY DEF Init, Idle, Loading
<1>2. LoadersOK /\ SecretsOK
  BY <1>1 DEF LoadersOK, LoaderOK, SecretsOK, SecretOK, At
<1>3. Current
  <2>1. \A s \in Service : resolvers[s] = file.content
    BY DEF Init, FirstResolvers
  <2>2. nsMap = file.content /\ reload.of = Service
    BY DEF Init
  <2> QED BY <2>1, <2>2 DEF Current, Agrees
<1> QED BY <1>1, <1>2, <1>3, TypeInit DEF ReloadInv, FileOK

(* It holds in every reachable state.                                      *)
LEMMA ReloadInvHolds == Spec => []ReloadInv
<1>1. ReloadInv /\ [Next]_vars => ReloadInv'
  BY TypeStep, LoadersStep, SecretsStep, FileStep DEF ReloadInv
<1> QED BY <1>1, ReloadInit, PTL DEF Spec

(* A request with a secret is served with the configuration and resolvers  *)
(* of its secret, unless another request loads a configuration meanwhile.  *)
THEOREM SecretHolds == Spec => []ServedFromSecret
<1>1. ReloadInv => ServedFromSecret
  BY DEF ReloadInv, SecretsOK, SecretOK, ServedFromSecret, At
<1> QED BY <1>1, ReloadInvHolds, PTL

(* What Refresh will take for unchanged is in memory and in the resolvers  *)
(* of the service that loaded it, if no two reloads overlapped since the   *)
(* last of them began; no condition is put on what happened before.        *)
THEOREM UnchangedHolds == Spec => []UnchangedMeansCurrent
<1>1. ReloadInv => UnchangedMeansCurrent
  BY DEF ReloadInv, FileOK, KnownFile, Current, UnchangedMeansCurrent
<1> QED BY <1>1, ReloadInvHolds, PTL
=============================================================================
