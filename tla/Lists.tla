--------------------------------- MODULE Lists ---------------------------------
(***************************************************************************)
(* ListVolumes and ListSnapshots, page by page, while objects come and go. *)
(*                                                                         *)
(* A caller asks for a page, and for the next one as long as the answer    *)
(* carries a token.  The handler of one page visits appliances one after   *)
(* the other; each visit resolves a dataset (module ResolveNS) and reads   *)
(* its list.  Objects stand for volumes in the calls of ListVolumes and    *)
(* for snapshots in those of ListSnapshots; they are listed in the order   *)
(* of their paths.  Failures, at most MaxFaults: appliances that do not    *)
(* answer when a dataset is looked up, and lists that cannot be read.      *)
(*                                                                         *)
(* "Mistake:" marks variants that only show that the properties notice     *)
(* plausible bugs.                                                         *)
(***************************************************************************)
EXTENDS Naturals, FiniteSets, ResolveNS

CONSTANTS
  Configs,     \* configurations; an entry also says which datasets its
               \* appliance has, in the field has
  Path,        \* the paths of objects: a dataset, and a number for the
               \* place among the objects of the dataset
  MaxEntries,  \* the limits a caller may ask for, 0 for none
  MaxFaults

(* Objects of a dataset differ in their places.  A caller may ask for all. *)
ASSUME PathsOK ==
  /\ IsFiniteSet(Path) /\ Empty \notin Path
  /\ \A p \in Path : p.item \in Nat /\ p.dataset # Empty
  /\ \A p, q \in Path : p.dataset = q.dataset /\ p.item = q.item => p = q
  /\ MaxEntries \subseteq Nat /\ 0 \in MaxEntries
  /\ MaxFaults \in Nat

(* Every entry has a name and a default dataset.  An entry may do without  *)
(* one if the StorageClass has it, but then the list that GetSnapshots is  *)
(* asked for is that of an empty path, which is up to the library.         *)
ASSUME ConfigsOK ==
  \A c \in Configs :
    /\ IsFiniteSet(DOMAIN c) /\ Empty \notin DOMAIN c
    /\ \A n \in DOMAIN c : c[n].defaultDataset # Empty

VARIABLES
  cfg,      \* the configuration, which stays
  objs,     \* the paths of the objects on each appliance
  list,     \* the listing in progress, and what it has shown so far
  steady,   \* the objects that were there all the time
  faults

vars == <<cfg, objs, list, steady, faults>>

Name == DOMAIN cfg

Object == [on: Name, path: Path]

Objects == {o \in Object : o.path \in objs[o.on]}

Operations == {"ListVolumes", "ListSnapshots", "ListSnapshotsOfVolume", "ListSnapshot"}

(* source is the object that ListSnapshot asks for, or one whose dataset   *)
(* and appliance are those of the volume ListSnapshotsOfVolume is about.   *)
NoListing ==
  [pc |-> "idle", op |-> "ListVolumes", max |-> 0, source |-> Empty,
   token |-> Empty, todo |-> {}, entries |-> {}, next |-> Empty,
   listed |-> {}, repeated |-> {}, tokenLost |-> FALSE, faulty |-> FALSE]

Init ==
  /\ cfg \in Configs
  /\ objs \in [Name -> SUBSET Path]
  /\ \A n \in Name : \A p \in objs[n] : p.dataset \in cfg[n].has
  /\ list = NoListing
  /\ steady = {}
  /\ faults = 0

-----------------------------------------------------------------------------
(* The caller and the objects *)

InDefaultDataset(o) == o.path.dataset = cfg[o.on].defaultDataset

(* What a listing is expected to show. *)
Expected(op, source) ==
  CASE op = "ListSnapshot"          -> {source}
    [] op = "ListSnapshotsOfVolume" ->
         {o \in Object : o.on = source.on /\ o.path.dataset = source.path.dataset}
    [] OTHER                        -> {o \in Object : InDefaultDataset(o)}

(* The appliances, or rather entries, that a page visits. *)
Visits(op, source) ==
  IF op \in {"ListSnapshot", "ListSnapshotsOfVolume"} THEN {source.on} ELSE Name

Begin ==
  /\ list.pc = "idle"
  /\ \E op \in Operations, max \in MaxEntries :
       \E source \in IF op \in {"ListVolumes", "ListSnapshots"} THEN {Empty}
                     ELSE {o \in Object : o.path.dataset \in cfg[o.on].has} :
         /\ list' = [NoListing EXCEPT !.pc = "visit", !.op = op, !.max = max,
                       !.source = source, !.todo = Visits(op, source)]
         /\ steady' = Objects \cap Expected(op, source)
  /\ UNCHANGED <<cfg, objs, faults>>

NextPage ==
  /\ list.pc = "between"
  /\ list' = [list EXCEPT !.pc = "visit", !.todo = Visits(list.op, list.source)]
  /\ UNCHANGED <<cfg, objs, steady, faults>>

(* What happens to objects before and after a listing is in its initial   *)
(* state, or does not matter.                                              *)
Listing == list.pc \in {"visit", "between"}

Add(n, p) ==
  /\ Listing
  /\ p.dataset \in cfg[n].has /\ p \notin objs[n]
  /\ objs' = [objs EXCEPT ![n] = @ \cup {p}]
  /\ UNCHANGED <<cfg, list, steady, faults>>

(* The object a token names may go while the token is in use. *)
Remove(n, p) ==
  /\ Listing
  /\ p \in objs[n]
  /\ objs' = [objs EXCEPT ![n] = @ \ {p}]
  /\ steady' = steady \ {[on |-> n, path |-> p]}
  /\ list' = [list EXCEPT !.tokenLost = @ \/ p \in {list.token, list.next}]
  /\ UNCHANGED <<cfg, faults>>

-----------------------------------------------------------------------------
(* Pages of one appliance: the entries, and the token of the next page *)

FirstOf(S, max) ==
  IF max = 0 THEN S
  ELSE {p \in S : Cardinality({q \in S : q.item <= p.item}) <= max}

Lowest(S)  == CHOOSE p \in S : \A q \in S : p.item <= q.item
Highest(S) == CHOOSE p \in S : \A q \in S : q.item <= p.item

(* Mistake: the token is the path of the last snapshot of the page. *)
SnapshotPageAgain(S, token, max) ==
  LET rest  == {p \in S : token = Empty \/ (token \in S /\ token.item <= p.item)}
      first == FirstOf(rest, max)
  IN [entries |-> first,
      next    |-> IF rest = first THEN Empty ELSE Highest(first)]

(* Mistake: the token is the ID of the next snapshot, not its path. *)
SnapshotPageID(S, token, max) ==
  LET first == FirstOf({p \in S : token = Empty}, max)
  IN [entries |-> first,
      next    |-> IF S = first THEN Empty
                  ELSE [configName |-> Empty, path |-> Lowest(S \ first)]]

(* getFilesystemSnapshotList: everything before the token is skipped, so   *)
(* all of it when the token is not there; the token is the next snapshot.  *)
SnapshotPage(S, token, max) ==
  LET rest  == {p \in S : token = Empty \/ (token \in S /\ token.item <= p.item)}
      first == FirstOf(rest, max)
  IN [entries |-> first,
      next    |-> IF rest = first THEN Empty ELSE Lowest(rest \ first)]

(* GetFilesystemsWithStartingToken, of the library: the same, but the      *)
(* token is the last filesystem of the page before.                        *)
FilesystemPage(S, token, max) ==
  LET rest  == {p \in S : token = Empty \/ (token \in S /\ token.item < p.item)}
      first == FirstOf(rest, max)
  IN [entries |-> first,
      next    |-> IF rest = first THEN Empty ELSE Highest(first)]

-----------------------------------------------------------------------------
(* The handler *)

InDataset(n, dataset) == {p \in objs[n] : p.dataset = dataset}

(* These appliances do not answer a lookup now, or the list that is read   *)
(* after it is broken off.                                                 *)
Failing(down, broken) ==
  /\ faults' = IF down = {} /\ ~broken THEN faults ELSE faults + 1
  /\ faults' <= MaxFaults

Outcomes(down, p) == resolveNS(cfg, [n \in Name |-> cfg[n].has], down, p)

(* This entry adds nothing to the page. *)
Nothing(n, next, faulty) ==
  list' = [list EXCEPT !.todo = @ \ {n}, !.next = next, !.faulty = @ \/ faulty]

Abort == list' = [list EXCEPT !.pc = "failed"]

Collect(at, page, todo) ==
  LET found == {[on |-> at, path |-> p] : p \in page.entries} IN
  list' = [list EXCEPT !.todo = todo, !.next = page.next,
             !.entries = @ \cup found,
             !.repeated = @ \cup (found \cap (list.listed \cup list.entries))]

(* The loop of ListVolumes, which refuses the request when an entry cannot *)
(* be resolved.  Every appliance gets the same token, and the token of the *)
(* last one is returned.  A list that cannot be read counts as empty,      *)
(* because its error is that of a variable inside the loop.                *)
VisitVolumes(n) ==
  /\ list.op = "ListVolumes"
  /\ \E down \in SUBSET Name, broken \in BOOLEAN :
       /\ Failing(down, broken)
       /\ \E o \in Outcomes(down, Params(Empty, Empty, n, FALSE)) :
            IF o.code # "OK" THEN Abort
            ELSE IF broken THEN Nothing(n, Empty, TRUE)
            ELSE Collect(n, FilesystemPage(InDataset(n, o.datasetPath),
                                           list.token, list.max),
                         list.todo \ {n})
  /\ UNCHANGED <<cfg, objs, steady>>

(* ListSnapshots without a filter asks for the default dataset of each     *)
(* entry, but does not name the entry; with a volume, the ID names it.     *)
SnapshotParams(n) ==
  IF list.op = "ListSnapshotsOfVolume"
    THEN Params(list.source.path.dataset, Empty, n, FALSE)
    ELSE Params(cfg[n].defaultDataset, Empty, Empty, FALSE)

(* A dataset that cannot be resolved has no snapshots, whatever the error. *)
(* The first page with a token is returned at once.  When a list cannot be *)
(* read, its request is refused, or the loop over the entries panics.      *)
VisitSnapshots(n) ==
  /\ list.op \in {"ListSnapshots", "ListSnapshotsOfVolume"}
  /\ \E down \in SUBSET Name, broken \in BOOLEAN :
       /\ Failing(down, broken)
       /\ \E o \in Outcomes(down, SnapshotParams(n)) :
            LET page == SnapshotPage(InDataset(o.configName, o.datasetPath),
                                     list.token, list.max)
            IN IF o.code # "OK" THEN Nothing(n, Empty, down # {})
               ELSE IF broken THEN Abort
               ELSE Collect(o.configName, page,
                            IF page.next = Empty THEN list.todo \ {n} ELSE {})
  /\ UNCHANGED <<cfg, objs, steady>>

(* getSnapshotListWithSingleSnapshot *)
VisitSnapshot(n) ==
  LET s == list.source IN
  /\ list.op = "ListSnapshot"
  /\ \E down \in SUBSET Name, broken \in BOOLEAN :
       /\ Failing(down, broken)
       /\ \E o \in Outcomes(down, Params(s.path.dataset, Empty, n, FALSE)) :
            IF o.code = "NotFound" THEN Nothing(n, Empty, FALSE)
            ELSE IF o.code # "OK" \/ broken THEN Abort
            ELSE Collect(n, [entries |-> {s.path} \cap objs[n], next |-> Empty],
                         list.todo \ {n})
  /\ UNCHANGED <<cfg, objs, steady>>

Visit ==
  /\ list.pc = "visit"
  /\ \E n \in list.todo :
       VisitVolumes(n) \/ VisitSnapshots(n) \/ VisitSnapshot(n)

(* Mistake: a page without volumes is returned like any other. *)
NoPage == FALSE

(* A page of ListVolumes without a volume is an error. *)
EmptyPage == list.op = "ListVolumes" /\ list.entries = {}

Respond ==
  /\ list.pc = "visit" /\ list.todo = {}
  /\ list' = IF EmptyPage THEN [list EXCEPT !.pc = "failed"]
             ELSE [list EXCEPT !.listed = @ \cup list.entries, !.token = list.next,
                     !.entries = {}, !.next = Empty,
                     !.pc = IF list.next = Empty THEN "done" ELSE "between"]
  /\ UNCHANGED <<cfg, objs, steady, faults>>

Next ==
  \/ Begin \/ Visit \/ Respond \/ NextPage
  \/ \E n \in Name, p \in Path : Add(n, p) \/ Remove(n, p)

Spec == Init /\ [][Next]_vars

(* Handlers run to their end, and the caller asks for every page. *)
FairSpec == Spec /\ WF_vars(Visit \/ Respond \/ NextPage)

-----------------------------------------------------------------------------
(* Properties *)

(* The listing is at one point of a page, shows objects of the appliances, *)
(* and has a token between two pages.                                      *)
TypeOK ==
  /\ objs \in [Name -> SUBSET Path]
  /\ list.pc \in {"idle", "visit", "between", "done", "failed"}
  /\ list.op \in Operations /\ list.max \in MaxEntries
  /\ list.todo \subseteq Name
  /\ {list.token, list.next} \subseteq Path \cup {Empty}
  /\ list.entries \cup list.listed \cup list.repeated \cup steady \subseteq Object
  /\ list.pc = "between" => list.token # Empty
  /\ faults \in 0 .. MaxFaults

(* The default datasets lie on one appliance each. *)
Separate ==
  \A m, n \in Name : cfg[m].defaultDataset \in cfg[n].has => m = n

Targets == Visits(list.op, list.source)

(* A listing shows no object twice, whatever is added or removed between   *)
(* its pages and also when its token is lost, unless default datasets are  *)
(* on several appliances.                                                  *)
ListedOnce ==
  Separate \/ Cardinality(Targets) = 1 => list.repeated = {}

(* A failure is reported, not answered with a shorter list, by             *)
(* ListSnapshot, and by ListVolumes if there is one entry.                 *)
Reports ==
  \/ list.op = "ListSnapshot"
  \/ list.op = "ListVolumes" /\ Cardinality(Name) = 1

(* A listing that ends without an error shows every object that was there  *)
(* all the time, if it concerns one appliance or is not cut into pages,    *)
(* unless the object its token names was removed.                          *)
ListingComplete ==
  /\ list.pc = "done" /\ ~list.tokenLost
  /\ Cardinality(Targets) = 1 \/ (list.max = 0 /\ Separate)
  /\ Reports \/ ~list.faulty
  => steady \subseteq list.listed

(* A caller that asks for page after page comes to an end, although other  *)
(* callers go on to add and remove objects.                                *)
ListingEnds == (list.pc # "idle") ~> (list.pc \in {"done", "failed"})

(* ListSnapshots shows every snapshot in the default datasets, on several  *)
(* appliances and page by page, too.  It does not: the next page skips the *)
(* snapshots of every appliance that does not have the one of the token.   *)
AllSnapshotsListed ==
  /\ list.op = "ListSnapshots" /\ list.pc = "done"
  /\ ~list.tokenLost /\ ~list.faulty /\ Separate
  => steady \subseteq list.listed
=============================================================================
