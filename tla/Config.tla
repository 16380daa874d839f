--------------------------------- MODULE Config ---------------------------------
(***************************************************************************)
(* The driver's configuration (pkg/config/config.go) and the resolvers     *)
(* built from it.  There is one Config object in a driver process.  Its    *)
(* method Refresh is called without a lock at the start of every request   *)
(* of the controller and the node service, which rebuild their resolvers   *)
(* when Refresh reports a change, and by Probe of the identity service,    *)
(* which has no resolvers.                                                 *)
(*                                                                         *)
(* A step of a request lies between two points where the Go code may be    *)
(* preempted for long: os.Stat, ReadFile, and the loop that makes the      *)
(* resolvers.  Concurrent writes of a Go map, which may also stop the      *)
(* process, are taken to happen one after the other.                       *)
(*                                                                         *)
(* "Mistake:" marks variants that only show that the properties notice     *)
(* plausible bugs.                                                         *)
(***************************************************************************)
EXTENDS Naturals

CONSTANTS
  Name,      \* the names of the NexentaStor entries (keys of nexentastor_map)
  Data,      \* the values of an entry
  BadData,   \* those that Validate refuses
  NoData,    \* no entry
  Garbage,   \* a file that cannot be read or parsed
  Contents,  \* what an administrator may write to the config file
  Secrets,   \* the configurations that StorageClass secrets hold
  NoSecret,  \* a request without a secret
  Caller,    \* the services of this process
  Handler,   \* the requests that may be in progress at a time
  MaxEdits   \* bound on the changes of the file

NsMap == [Name -> Data \cup {NoData}]

Valid(m) == \A n \in Name : m[n] \notin BadData

(* Probe only refreshes the configuration. *)
Service == Caller \ {"identity"}

ASSUME ConfigConstantsOK ==
  /\ BadData \subseteq Data
  /\ NoData \notin Data
  /\ Contents \subseteq NsMap \cup {Garbage}
  /\ Secrets \subseteq NsMap
  /\ NoSecret \notin Secrets
  /\ Garbage \notin NsMap
  /\ Caller \subseteq {"controller", "node", "identity"}
  /\ MaxEdits \in Nat

VARIABLES
  file,         \* the config file: content and modification time
  nsMap,        \* Config.NsMap
  lastModTime,  \* Config.lastModTime
  temporary,    \* Config.temporary: NsMap holds the data of a secret
  resolvers,    \* nsResolverMap of each service: the data each was made from
  call,         \* the requests in progress
  reload        \* history: the last reload of the configuration

vars == <<file, nsMap, lastModTime, temporary, resolvers, call, reload>>

(* A request: who runs it, its secret, the modification time it saw and    *)
(* what it read.                                                           *)
Call ==
  [caller: Caller, secret: Secrets \cup {NoSecret}, mtime: 0 .. file.mtime,
   content: NsMap \cup {Garbage},
   pc: {"Stat", "Compare", "ReadFile", "Load", "Rebuild", "serve", "refuse"}]

Idle == [pc |-> "idle"]

(* Every variable has its type, and the only modification times that are   *)
(* known are those the file has had.                                       *)
TypeOK ==
  /\ file \in [content: NsMap \cup {Garbage}, mtime: 0 .. MaxEdits]
  /\ nsMap \in NsMap
  /\ lastModTime \in 0 .. file.mtime
  /\ temporary \in BOOLEAN
  /\ resolvers \in [Service -> NsMap]
  /\ call \in [Handler -> Call \cup {Idle}]
  /\ reload \in [by: SUBSET Handler, of: SUBSET Service]

(* The resolvers that a service starts with: one for every entry. *)
FirstResolvers == [s \in Service |-> nsMap]

(* The driver has started: config.New and NewControllerServer or           *)
(* NewNodeServer end the process on an error.                              *)
Init ==
  /\ file \in [content: {c \in Contents \ {Garbage} : Valid(c)}, mtime: {0}]
  /\ nsMap = file.content
  /\ lastModTime = file.mtime
  /\ temporary = FALSE
  /\ resolvers = FirstResolvers
  /\ call = [h \in Handler |-> Idle]
  /\ reload = [by |-> {}, of |-> Service]

-----------------------------------------------------------------------------
At(h, pc) == call[h].pc = pc

Goto(h, pc) == call' = [call EXCEPT ![h].pc = pc]

Edit ==
  /\ file.mtime < MaxEdits
  /\ \E c \in Contents : file' = [content |-> c, mtime |-> file.mtime + 1]
  /\ UNCHANGED <<nsMap, lastModTime, temporary, resolvers, call, reload>>

Begin(h, caller, secret) ==
  /\ At(h, "idle")
  /\ caller = "identity" => secret = NoSecret
  /\ call' = [call EXCEPT ![h] = [caller |-> caller, secret |-> secret, pc |-> "Stat",
                                  mtime |-> 0, content |-> Garbage]]
  /\ UNCHANGED <<file, nsMap, lastModTime, temporary, resolvers, reload>>

(* Mistake: the time of the look is taken for the modification time. *)
StatNow(h) ==
  /\ At(h, "Stat")
  /\ call' = [call EXCEPT ![h].pc = "Compare", ![h].mtime = file.mtime + 1]
  /\ UNCHANGED <<file, nsMap, lastModTime, temporary, resolvers, reload>>

(* An error of os.Stat refuses the request. *)
Stat(h) ==
  /\ At(h, "Stat")
  /\ \/ call' = [call EXCEPT ![h].pc = "Compare", ![h].mtime = file.mtime]
     \/ Goto(h, "refuse")
  /\ UNCHANGED <<file, nsMap, lastModTime, temporary, resolvers, reload>>

Changed(h) ==
  \/ lastModTime # call[h].mtime
  \/ call[h].secret # NoSecret
  \/ temporary

(* The request loads a configuration and makes resolvers from it. *)
Loading(h) == call[h].pc \in {"ReadFile", "Load", "Rebuild"}

(* The history variable reload: the request joins the reload of those that *)
(* are loading, or starts one; its service makes its resolvers anew.       *)
Reload(h) ==
  reload' = [by |-> IF \E g \in Handler \ {h} : Loading(g) THEN reload.by \cup {h}
                    ELSE {h},
             of |-> {call[h].caller} \cap Service]

(* The modification time is recorded before the file is read. *)
Compare(h) ==
  LET c == call[h] IN
  /\ At(h, "Compare")
  /\ \/ /\ ~Changed(h)
        /\ Goto(h, "serve")
        /\ UNCHANGED <<lastModTime, temporary, reload>>
     \/ /\ Changed(h) /\ c.secret # NoSecret
        /\ temporary' = TRUE
        /\ call' = [call EXCEPT ![h].pc = "Load", ![h].content = c.secret]
        /\ Reload(h)
        /\ UNCHANGED lastModTime
     \/ /\ Changed(h) /\ c.secret = NoSecret
        /\ lastModTime' = c.mtime
        /\ temporary' = FALSE
        /\ Goto(h, "ReadFile")
        /\ Reload(h)
  /\ UNCHANGED <<file, nsMap, resolvers>>

ReadFile(h) ==
  /\ At(h, "ReadFile")
  /\ call' = [call EXCEPT ![h].pc = "Load", ![h].content = file.content]
  /\ UNCHANGED <<file, nsMap, lastModTime, temporary, resolvers, reload>>

(* Mistake: only new entries are taken over. *)
MergedNew(m, c) == [n \in Name |-> IF m[n] = NoData THEN c[n] ELSE m[n]]

(* Unmarshal replaces the entries it reads and keeps all others. *)
Merged(m, c) == [n \in Name |-> IF c[n] = NoData THEN m[n] ELSE c[n]]

AfterLoad(h) == IF call[h].caller \in Service THEN "Rebuild" ELSE "serve"

(* Mistake: the modification time is that after the file was read. *)
LoadThenStat(h) ==
  /\ At(h, "Load")
  /\ call[h].content # Garbage
  /\ nsMap' = Merged(nsMap, call[h].content)
  /\ lastModTime' = IF temporary THEN lastModTime ELSE file.mtime
  /\ Goto(h, IF Valid(nsMap') THEN AfterLoad(h) ELSE "refuse")
  /\ UNCHANGED <<file, temporary, resolvers, reload>>

(* Unmarshal and Validate; what was read stays when it is not valid. *)
Load(h) ==
  LET content == call[h].content IN
  /\ At(h, "Load")
  /\ \/ /\ content = Garbage
        /\ Goto(h, "refuse")
        /\ UNCHANGED nsMap
     \/ /\ content # Garbage
        /\ nsMap' = Merged(nsMap, content)
        /\ Goto(h, IF Valid(nsMap') THEN AfterLoad(h) ELSE "refuse")
  /\ UNCHANGED <<file, lastModTime, temporary, resolvers, reload>>

(* refreshConfig makes a resolver for every entry there is by now.  An     *)
(* error of NewResolver is looked at after its result was used, which is   *)
(* nil then: the process stops, and starts again in Init.                  *)
Rebuild(h) ==
  /\ At(h, "Rebuild")
  /\ resolvers' = [resolvers EXCEPT ![call[h].caller] = Merged(@, nsMap)]
  /\ Goto(h, "serve")
  /\ UNCHANGED <<file, nsMap, lastModTime, temporary, reload>>

(* The rest of the request, or the answer "Cannot use config file". *)
End(h) ==
  /\ call[h].pc \in {"serve", "refuse"}
  /\ call' = [call EXCEPT ![h] = Idle]
  /\ UNCHANGED <<file, nsMap, lastModTime, temporary, resolvers, reload>>

Refresh(h) == Stat(h) \/ Compare(h) \/ ReadFile(h) \/ Load(h) \/ Rebuild(h)

Next ==
  \/ Edit
  \/ \E h \in Handler, c \in Caller, s \in Secrets \cup {NoSecret} : Begin(h, c, s)
  \/ \E h \in Handler : Refresh(h) \/ End(h)

Spec == Init /\ [][Next]_vars

-----------------------------------------------------------------------------
(* Properties *)

Agrees(m, c) == \A n \in Name : c[n] # NoData => m[n] = c[n]

Usable(c) == c # Garbage /\ Valid(c)

(* "watch config for changes", CHANGELOG.md 80: a request without a secret *)
(* that began after the last change of the file is served with that file's *)
(* configuration and with resolvers made from it.                          *)
ServedFromFile ==
  \A h \in Handler :
    /\ At(h, "serve")
    /\ call[h].caller \in Service
    /\ call[h].secret = NoSecret
    /\ call[h].mtime = file.mtime
    /\ Usable(file.content)
    => /\ Agrees(nsMap, file.content)
       /\ Agrees(resolvers[call[h].caller], file.content)

(* The last reload did not overlap with another. *)
Undisturbed == \E h \in Handler : reload.by \subseteq {h}

(* A request with a secret is served with the configuration of its secret  *)
(* and with resolvers made from it, until another request that overlaps    *)
(* with it loads a configuration: whatever files, secrets and overlapping  *)
(* requests there were before, it does not get theirs.                     *)
ServedFromSecret ==
  \A h \in Handler :
    /\ At(h, "serve") /\ call[h].caller \in Service /\ call[h].secret # NoSecret
    /\ reload.by = {h}
    => /\ Agrees(nsMap, call[h].secret)
       /\ Agrees(resolvers[call[h].caller], call[h].secret)

(* While no request is loading, a file that Refresh will take for          *)
(* unchanged is the one in memory, and if nothing in memory is refused,    *)
(* the one that the service which loaded it has made its resolvers from.   *)
(* The last reload must not have overlapped with another; what overlapping *)
(* reloads, secrets, broken files and Probe left behind before that is     *)
(* made good by it, at whatever point the file is changed.                 *)
UnchangedMeansCurrent ==
  /\ lastModTime = file.mtime /\ ~temporary
  /\ \A h \in Handler : ~Loading(h)
  /\ Undisturbed
  /\ Usable(file.content)
  => /\ Agrees(nsMap, file.content)
     /\ Valid(nsMap) => \A s \in reload.of : Agrees(resolvers[s], file.content)
=============================================================================
