------------------------------ MODULE Lists_proofs ------------------------------
(***************************************************************************)
(* What the pages of ListVolumes and ListSnapshots add up to, proved for   *)
(* every configuration, any objects that come and go between the steps and *)
(* every limit of a page.                                                  *)
(***************************************************************************)
EXTENDS Lists, Integers, FiniteSetTheorems, WellFoundedInduction, TLAPS

(* The dataset that a listing reads at an entry.                           *)
Dataset(n) ==
  IF list.op \in {"ListSnapshotsOfVolume", "ListSnapshot"} THEN list.source.path.dataset
  ELSE cfg[n].defaultDataset

(* What a page of an appliance is cut from.                                *)
Candidates(n) ==
  IF list.op = "ListSnapshot" THEN {list.source.path} \cap objs[n]
  ELSE InDataset(n, Dataset(n))

(* The page before the token t has p: ListVolumes takes the last volume of *)
(* a page as its token, ListSnapshots the first snapshot of the next one.  *)
Before(p, t) == IF list.op = "ListVolumes" THEN p.item <= t.item ELSE p.item < t.item

Single  == Cardinality(Targets) = 1
Orderly == Separate \/ Single
Covered == Single \/ (list.max = 0 /\ Separate)

-----------------------------------------------------------------------------
(* The inductive invariant. *)

(* Types, with those of the fields of a listing.                           *)
ShapeOK ==
  /\ cfg \in Configs
  /\ objs \in [Name -> SUBSET Path]
  /\ list \in [pc : {"idle", "visit", "between", "done", "failed"},
               op : Operations, max : MaxEntries, source : Object \cup {Empty},
               token : Path \cup {Empty}, todo : SUBSET Name,
               entries : SUBSET Object, next : Path \cup {Empty},
               listed : SUBSET Object, repeated : SUBSET Object,
               tokenLost : BOOLEAN, faulty : BOOLEAN]
  /\ steady \subseteq Object
  /\ faults \in 0 .. MaxFaults

(* The objects lie in datasets of their appliances, and those that were    *)
(* there all the time are there and concern the listing.                   *)
ObjectsOK ==
  /\ \A n \in Name : \A p \in objs[n] : p.dataset \in cfg[n].has
  /\ list.op \in {"ListSnapshotsOfVolume", "ListSnapshot"} => list.source \in Object
  /\ list.todo \subseteq Targets
  /\ \A s \in steady : s.on \in Targets /\ s.path \in Candidates(s.on)

(* A page without a token is the first one, and without a limit the last.  *)
PageOK ==
  /\ list.pc = "between" => list.token # Empty /\ list.entries = {} /\ list.next = Empty
  /\ list.pc = "visit" /\ list.token = Empty => list.listed = {}
  /\ list.max = 0 \/ list.op = "ListSnapshot" => list.token = Empty /\ list.next = Empty

(* What was shown of the dataset of a token is before the token.           *)
OnceOK ==
  /\ list.repeated = {}
  /\ list.pc = "visit" =>
       \A o \in list.entries :
         o.on \in Targets \ list.todo /\ o.path.dataset = Dataset(o.on)
  /\ list.pc \in {"visit", "between"} /\ list.token # Empty =>
       \A o \in list.listed :
         o.path.dataset = list.token.dataset => Before(o.path, list.token)
  /\ list.pc = "visit" /\ list.next # Empty =>
       \A o \in list.listed \cup list.entries :
         o.path.dataset = list.next.dataset => Before(o.path, list.next)

(* A token names an object that is there, unless it is lost.               *)
TokensOK ==
  list.pc \in {"visit", "between"} /\ ~list.tokenLost =>
    \A n \in Targets : {list.token, list.next} \subseteq Candidates(n) \cup {Empty}

(* A list that is not reported as broken.                                  *)
Intact == ~list.tokenLost /\ (Reports \/ ~list.faulty)

(* An object was shown, or comes after the token, or ends the request.     *)
ShownOK(s) ==
  /\ list.pc \in {"visit", "between"} /\ list.token # Empty /\ Before(s.path, list.token) =>
       s \in list.listed
  /\ list.pc = "visit" /\ s.on \notin list.todo =>
       \/ s \in list.listed \cup list.entries
       \/ list.next # Empty /\ ~Before(s.path, list.next)
       \/ Single /\ EmptyPage
  /\ list.pc = "done" => s \in list.listed

CompleteOK == Intact => \A s \in steady : ShownOK(s)

ListInv ==
  /\ ShapeOK /\ ObjectsOK /\ PageOK
  /\ Orderly => OnceOK
  /\ Single => TokensOK
  /\ Covered => CompleteOK

-----------------------------------------------------------------------------
(* The ends of a finite set of paths. *)

(* The order of the naturals is well-founded.                              *)
LEMMA LessThan ==
  \E R : IsWellFoundedOn(R, Nat) /\ \A i, j \in Nat : i < j => <<i, j>> \in R
<1>1. \A i, j \in Nat : i < j => <<i, j>> \in OpToRel(<, Nat)
  BY DEF OpToRel
<1> QED BY <1>1, NatLessThanWellFounded, Zenon

(* So a set of naturals has a least element.                               *)
LEMMA LeastNatural ==
  ASSUME NEW T, T \subseteq Nat, T # {}
  PROVE  \E m \in T : \A k \in T : m <= k
<1>1. PICK R : IsWellFoundedOn(R, Nat) /\ \A i, j \in Nat : i < j => <<i, j>> \in R
  BY LessThan
<1>2. IsWellFoundedOn(R, Nat)
  BY <1>1
<1>3. \E m \in T : \A k \in T : ~ (<<k, m>> \in R)
  BY <1>2, WFMin
<1>4. PICK m \in T : \A k \in T : ~ (<<k, m>> \in R)
  BY <1>3
<1>5. \A k \in T : m <= k
  <2> TAKE k \in T
  <2>1. k \in Nat /\ m \in Nat
    OBVIOUS
  <2>2. k < m => <<k, m>> \in R
    BY <2>1, <1>1, Zenon
  <2>3. ~ (k < m)
    BY <2>2, <1>4
  <2> QED BY <2>1, <2>3
<1> QED BY <1>5

(* The first path of a set, which a page of snapshots takes as its token.  *)
LEMMA LowestFacts ==
  ASSUME NEW S, S \subseteq Path, S # {}
  PROVE  Lowest(S) \in S /\ \A q \in S : Lowest(S).item <= q.item
<1> DEFINE T == {p.item : p \in S}
<1>1. T \subseteq Nat /\ T # {}
  BY PathsOK
<1>2. \E m \in T : \A k \in T : m <= k
  BY <1>1, LeastNatural
<1>3. \E p \in S : \A q \in S : p.item <= q.item
  BY <1>2
<1> QED BY <1>3 DEF Lowest

(* The last path of a set, which a page of volumes takes as its token: the *)
(* one with the fewest after it.                                           *)
LEMMA HighestFacts ==
  ASSUME NEW S, S \subseteq Path, S # {}
  PROVE  Highest(S) \in S /\ \A q \in S : q.item <= Highest(S).item
<1> DEFINE After(p) == {q \in S : p.item < q.item}
           T == {Cardinality(After(p)) : p \in S}
<1>1. IsFiniteSet(S)
  BY PathsOK, FS_Subset
<1>2. \A p \in S : IsFiniteSet(After(p)) /\ Cardinality(After(p)) \in Nat
  BY <1>1, FS_Subset, FS_CardinalityType
<1>3. T \subseteq Nat /\ T # {}
  BY <1>2
<1>4. \E m \in T : \A k \in T : m <= k
  BY <1>3, LeastNatural
<1>5. PICK p \in S : \A q \in S : Cardinality(After(p)) <= Cardinality(After(q))
  BY <1>4
<1>6. \A q \in S : q.item <= p.item
  <2> SUFFICES ASSUME NEW q \in S, ~ (q.item <= p.item) PROVE FALSE
    OBVIOUS
  <2>1. p.item \in Nat /\ q.item \in Nat /\ p.item < q.item
    BY PathsOK
  <2>2. After(q) \subseteq After(p) /\ q \in After(p) /\ q \notin After(q)
    BY <2>1, PathsOK
  <2>3. Cardinality(After(q)) <= Cardinality(After(p)) /\
        (Cardinality(After(p)) = Cardinality(After(q)) => After(p) = After(q))
    BY <1>2, <2>2, FS_Subset
  <2>4. Cardinality(After(q)) \in Nat /\ Cardinality(After(p)) \in Nat
    BY <1>2
  <2>5. Cardinality(After(p)) <= Cardinality(After(q))
    BY <1>5
  <2>6. Cardinality(After(p)) # Cardinality(After(q))
    BY <2>2, <2>3
  <2> HIDE DEF After
  <2> QED BY <2>3, <2>4, <2>5, <2>6
<1> QED BY <1>6 DEF Highest

(* A page takes the first of what is left, at least one with a limit.      *)
LEMMA FirstFacts ==
  ASSUME NEW S, S \subseteq Path, NEW max \in Nat
  PROVE  /\ FirstOf(S, max) \subseteq S
         /\ max = 0 => FirstOf(S, max) = S
         /\ \A p \in FirstOf(S, max), q \in S : q.item <= p.item => q \in FirstOf(S, max)
<1>1. CASE max = 0
  BY <1>1 DEF FirstOf
<1>2. CASE max # 0
  <2> DEFINE Upto(p) == {q \in S : q.item <= p.item}
  <2>1. FirstOf(S, max) = {p \in S : Cardinality(Upto(p)) <= max}
    BY <1>2 DEF FirstOf
  <2>2. IsFiniteSet(S)
    BY PathsOK, FS_Subset
  <2>3. ASSUME NEW p \in FirstOf(S, max), NEW q \in S, q.item <= p.item
        PROVE  q \in FirstOf(S, max)
    <3>1. p \in S /\ Cardinality(Upto(p)) <= max
      BY <2>1
    <3>2. Upto(q) \subseteq Upto(p)
      BY <2>3, <3>1, PathsOK
    <3>3. IsFiniteSet(Upto(p)) /\ IsFiniteSet(Upto(q))
      BY <2>2, FS_Subset
    <3>4. Cardinality(Upto(q)) <= Cardinality(Upto(p))
      BY <3>2, <3>3, FS_Subset
    <3>5. Cardinality(Upto(q)) \in Nat /\ Cardinality(Upto(p)) \in Nat
      BY <3>3, FS_CardinalityType
    <3>6. Cardinality(Upto(q)) <= max
      BY <3>1, <3>4, <3>5
    <3> QED BY <2>1, <3>6
  <2> QED BY <1>2, <2>1, <2>3
<1> QED BY <1>1, <1>2

(* With a limit, the first of something is something.                      *)
LEMMA FirstNonempty ==
  ASSUME NEW S, S \subseteq Path, S # {}, NEW max \in Nat,
         \A p, q \in S : p.dataset = q.dataset
  PROVE  FirstOf(S, max) # {}
<1>1. CASE max = 0
  BY <1>1 DEF FirstOf
<1>2. CASE max # 0
  <2> DEFINE low == Lowest(S)
  <2>1. low \in S /\ \A q \in S : low.item <= q.item
    BY LowestFacts
  <2>2. \A q \in S : q.item <= low.item <=> q = low
    BY <2>1, PathsOK
  <2>3. {q \in S : q.item <= low.item} = {low}
    BY <2>1, <2>2
  <2>4. Cardinality({q \in S : q.item <= low.item}) <= max
    <3>1. Cardinality({low}) = 1
      BY FS_Singleton
    <3> QED BY <1>2, <2>3, <3>1
  <2> HIDE DEF low
  <2> QED BY <1>2, <2>1, <2>4 DEF FirstOf
<1> QED BY <1>1, <1>2

-----------------------------------------------------------------------------
(* What a page of an appliance is. *)

(* Nothing is left out between the token of the page and the next one, and *)
(* nothing before them is shown; a token that is not there hides all.      *)
IsPage(S, page) ==
  LET Reached(p) == list.token = Empty \/ (list.token \in S /\ ~Before(p, list.token)) IN
  /\ page.entries \subseteq S
  /\ page.next \in S \cup {Empty}
  /\ \A p \in page.entries : Reached(p)
  /\ page.next # Empty =>
       /\ Reached(page.next)
       /\ \A p \in page.entries : Before(p, page.next)
       /\ list.token # Empty => \A p \in Path : Before(p, list.token) => Before(p, page.next)
  /\ \A p \in S :
       Reached(p) /\ (page.next = Empty \/ Before(p, page.next)) => p \in page.entries
  /\ list.max = 0 => page.next = Empty

(* The library cuts pages of volumes.                                      *)
LEMMA FilesystemPageFacts ==
  ASSUME NEW S, S \subseteq Path, \A p, q \in S : p.dataset = q.dataset,
         list.op = "ListVolumes", list.max \in Nat, list.token \in Path \cup {Empty}
  PROVE  IsPage(S, FilesystemPage(S, list.token, list.max))
<1> DEFINE token == list.token
           rest == {p \in S : token = Empty \/ (token \in S /\ token.item < p.item)}
           first == FirstOf(rest, list.max)
           page == FilesystemPage(S, list.token, list.max)
<1>1. page.entries = first /\ page.next = IF rest = first THEN Empty ELSE Highest(first)
  BY DEF FilesystemPage
<1>2. rest \subseteq S /\ rest \subseteq Path
  OBVIOUS
<1>3. /\ first \subseteq rest /\ (list.max = 0 => first = rest)
      /\ \A p \in first, q \in rest : q.item <= p.item => q \in first
  <2> HIDE DEF rest
  <2> QED BY <1>2, FirstFacts
<1>4. rest # first => first # {}
  <2>1. rest # first => rest # {}
    BY <1>3
  <2> HIDE DEF rest
  <2>2. \A p, q \in rest : p.dataset = q.dataset
    BY <1>2
  <2> QED BY <2>1, <2>2, <1>2, FirstNonempty
<1>5. rest # first => page.next \in first /\ \A q \in first : q.item <= page.next.item
  <2> HIDE DEF first, rest
  <2> QED BY <1>1, <1>2, <1>3, <1>4, HighestFacts
<1>6. \A p \in S : p \in rest <=> token = Empty \/ (token \in S /\ ~Before(p, token))
  BY PathsOK DEF Before
<1>7. Empty \notin Path
  BY PathsOK
<1> HIDE DEF rest, first, page
<1>8. page.next # Empty => rest # first
  BY <1>1
<1>9. \A p \in S : p \in rest /\ (page.next = Empty \/ Before(p, page.next)) => p \in first
  <2>1. CASE rest = first
    BY <2>1
  <2>2. CASE rest # first
    BY <2>2, <1>2, <1>3, <1>5, <1>7 DEF Before
  <2> QED BY <2>1, <2>2
<1>10. page.next # Empty /\ token # Empty =>
         \A p \in Path : Before(p, token) => Before(p, page.next)
  <2> SUFFICES ASSUME page.next # Empty, token # Empty, NEW p \in Path, Before(p, token)
               PROVE  Before(p, page.next)
    OBVIOUS
  <2>1. page.next \in rest /\ page.next \in Path
    BY <1>2, <1>3, <1>5, <1>8
  <2>2. token \in Path /\ token.item < page.next.item
    BY <2>1 DEF rest
  <2>3. p.item \in Nat /\ token.item \in Nat /\ page.next.item \in Nat
    BY <2>1, <2>2, PathsOK
  <2> QED BY <2>2, <2>3 DEF Before
<1>11. \A p \in first : page.next # Empty => Before(p, page.next)
  BY <1>5, <1>8 DEF Before
<1>12. page.next \in S \cup {Empty} /\ (page.next # Empty => page.next \in rest)
  BY <1>1, <1>2, <1>3, <1>5
<1> QED
  BY <1>1, <1>2, <1>3, <1>6, <1>9, <1>10, <1>11, <1>12 DEF IsPage, page

(* The driver cuts pages of snapshots.                                     *)
LEMMA SnapshotPageFacts ==
  ASSUME NEW S, S \subseteq Path,
         list.op # "ListVolumes", list.max \in Nat, list.token \in Path \cup {Empty}
  PROVE  IsPage(S, SnapshotPage(S, list.token, list.max))
<1> DEFINE token == list.token
           rest == {p \in S : token = Empty \/ (token \in S /\ token.item <= p.item)}
           first == FirstOf(rest, list.max)
           page == SnapshotPage(S, list.token, list.max)
<1>1. page.entries = first /\ page.next = IF rest = first THEN Empty ELSE Lowest(rest \ first)
  BY DEF SnapshotPage
<1>2. rest \subseteq S /\ rest \subseteq Path
  OBVIOUS
<1>3. /\ first \subseteq rest /\ (list.max = 0 => first = rest)
      /\ \A p \in first, q \in rest : q.item <= p.item => q \in first
  <2> HIDE DEF rest
  <2> QED BY <1>2, FirstFacts
<1>4. rest # first => /\ page.next \in rest /\ page.next \notin first
                      /\ \A q \in rest \ first : page.next.item <= q.item
  <2> HIDE DEF first, rest
  <2>1. rest # first => rest \ first # {} /\ rest \ first \subseteq Path
    BY <1>2, <1>3
  <2>2. rest # first => /\ Lowest(rest \ first) \in rest \ first
                        /\ \A q \in rest \ first : Lowest(rest \ first).item <= q.item
    BY <2>1, LowestFacts
  <2> QED BY <1>1, <2>2
<1>5. \A p \in S : p \in rest <=> token = Empty \/ (token \in S /\ ~Before(p, token))
  BY PathsOK DEF Before
<1>6. Empty \notin Path
  BY PathsOK
<1> HIDE DEF rest, first, page
<1>7. page.next # Empty => rest # first
  BY <1>1
<1>8. \A p \in first : page.next # Empty => Before(p, page.next)
  <2> SUFFICES ASSUME NEW p \in first, page.next # Empty PROVE p.item < page.next.item
    BY DEF Before
  <2>1. page.next \in rest /\ page.next \notin first
    BY <1>4, <1>7
  <2>2. p.item \in Nat /\ page.next.item \in Nat
    BY <1>2, <1>3, <2>1, PathsOK
  <2>3. ~ (page.next.item <= p.item)
    BY <1>3, <2>1
  <2> QED BY <2>2, <2>3
<1>9. \A p \in S : p \in rest /\ (page.next = Empty \/ Before(p, page.next)) => p \in first
  <2> SUFFICES ASSUME NEW p \in rest, page.next = Empty \/ Before(p, page.next)
               PROVE  p \in first
    OBVIOUS
  <2>1. CASE rest = first
    BY <2>1
  <2>2. CASE rest # first
    <3>1. page.next \in Path /\ p \in Path /\ page.next # Empty
      BY <2>2, <1>2, <1>4, <1>6
    <3>2. p.item < page.next.item
      BY <3>1 DEF Before
    <3>3. p.item \in Nat /\ page.next.item \in Nat
      BY <3>1, PathsOK
    <3> QED BY <2>2, <1>4, <3>2, <3>3
  <2> QED BY <2>1, <2>2
<1>10. page.next # Empty /\ token # Empty =>
         \A p \in Path : Before(p, token) => Before(p, page.next)
  <2> SUFFICES ASSUME page.next # Empty, token # Empty, NEW p \in Path, Before(p, token)
               PROVE  Before(p, page.next)
    OBVIOUS
  <2>1. page.next \in rest /\ page.next \in Path
    BY <1>2, <1>4, <1>7
  <2>2. token \in Path /\ token.item <= page.next.item
    BY <2>1 DEF rest
  <2>3. p.item \in Nat /\ token.item \in Nat /\ page.next.item \in Nat
    BY <2>1, <2>2, PathsOK
  <2> QED BY <2>2, <2>3 DEF Before
<1>11. page.next \in S \cup {Empty} /\ (page.next # Empty => page.next \in rest)
  BY <1>1, <1>2, <1>4
<1> QED
  BY <1>1, <1>2, <1>3, <1>5, <1>8, <1>9, <1>10, <1>11 DEF IsPage, page

-----------------------------------------------------------------------------
(* What a visit does to a listing. *)

(* The configuration is one, and so are its names.                         *)
LEMMA NameFacts ==
  ASSUME ShapeOK
  PROVE  /\ IsFiniteSet(Name) /\ Empty \notin Name
         /\ \A n \in Name : cfg[n].defaultDataset # Empty
  BY ConfigsOK DEF ShapeOK, Name

(* A listing of one appliance has one target.                              *)
LEMMA SingleFacts ==
  ASSUME ShapeOK, ObjectsOK
  PROVE  /\ Targets \subseteq Name
         /\ Single => \E n \in Name : Targets = {n}
<1>1. Targets \subseteq Name
  BY DEF ObjectsOK, Targets, Visits, Object
<1>2. IsFiniteSet(Targets)
  BY <1>1, NameFacts, FS_Subset
<1>3. Single => \E n : Targets = {n}
  BY <1>2, FS_Singleton DEF Single
<1> QED BY <1>1, <1>3

(* An appliance that is asked has the dataset, or has not, or is down.     *)
LEMMA AskFacts ==
  ASSUME NEW has, NEW down, NEW p, NEW n
  PROVE  LET o == Ask(cfg, has, down, p, n) IN
         /\ o.code = "OK" => /\ o.configName = n /\ o.datasetPath = PathAt(cfg, p, n)
                             /\ PathAt(cfg, p, n) \in has[n]
         /\ o.code = "NotFound" => PathAt(cfg, p, n) \notin has[n]
         /\ o.code # "OK" /\ down = {} => PathAt(cfg, p, n) \notin has[n]
<1> DEFINE code == Lookup(has, down, n, PathAt(cfg, p, n))
<1>1. /\ code = "OK" => PathAt(cfg, p, n) \in has[n]
      /\ code = "NotFound" => PathAt(cfg, p, n) \notin has[n]
      /\ code # "OK" /\ down = {} => PathAt(cfg, p, n) \notin has[n]
  BY DEF Lookup
<1>2. Ask(cfg, has, down, p, n) =
        IF code = "OK" THEN [code |-> "OK", configName |-> n, datasetPath |-> PathAt(cfg, p, n)]
        ELSE [code |-> code, configName |-> Empty, datasetPath |-> Empty]
  BY DEF Ask, Refused
<1> HIDE DEF code
<1> QED BY <1>1, <1>2

(* What a lookup at the entry n may answer to a listing of its dataset.    *)
Answers(n, down, o) ==
  /\ o.code = "OK" =>
       /\ o.datasetPath = Dataset(n)
       /\ o.configName \in Name /\ Dataset(n) \in cfg[o.configName].has
       /\ list.op # "ListSnapshots" => o.configName = n
  /\ o.code = "NotFound" => Dataset(n) \notin cfg[n].has
  /\ o.code # "OK" /\ down = {} => Dataset(n) \notin cfg[n].has

(* A lookup that names the entry.                                          *)
LEMMA NamedAnswers ==
  ASSUME ShapeOK, NEW n \in Name, NEW down \in SUBSET Name, NEW d,
         NEW o \in Outcomes(down, Params(d, Empty, n, FALSE)),
         list.op # "ListSnapshots",
         PathAt(cfg, Params(d, Empty, n, FALSE), n) = Dataset(n)
  PROVE  Answers(n, down, o)
<1> DEFINE p == Params(d, Empty, n, FALSE)
           has == [m \in Name |-> cfg[m].has]
<1>1. Outcomes(down, p) = {Ask(cfg, has, down, p, n)}
  BY NameFacts DEF Outcomes, resolveNS, resolveNSNoZone, Params
<1>2. o = Ask(cfg, has, down, p, n)
  BY <1>1
<1>3. has[n] = cfg[n].has
  OBVIOUS
<1> HIDE DEF p, has
<1>4. PathAt(cfg, p, n) = Dataset(n)
  BY DEF p
<1> QED BY <1>2, <1>3, <1>4, AskFacts DEF Answers

(* One that leaves the entry open.                                         *)
LEMMA UnnamedAnswers ==
  ASSUME ShapeOK, NEW n \in Name, NEW down \in SUBSET Name,
         NEW o \in Outcomes(down, Params(Dataset(n), Empty, Empty, FALSE)),
         list.op = "ListSnapshots"
  PROVE  Answers(n, down, o)
<1> DEFINE p == Params(Dataset(n), Empty, Empty, FALSE)
           has == [m \in Name |-> cfg[m].has]
           all == {Ask(cfg, has, down, p, m) : m \in Name}
           found == {a \in all : a.code = "OK"}
<1>1. Outcomes(down, p) = FirstThatHas(cfg, has, down, p, Name)
  BY DEF Outcomes, resolveNS, resolveNSNoZone, Params, Name
<1>2. Dataset(n) # Empty
  BY NameFacts DEF Dataset
<1>3. \A m \in Name : has[m] = cfg[m].has /\ PathAt(cfg, p, m) = Dataset(n)
  BY <1>2 DEF PathAt, Params
<1>4. o \in IF found = {} THEN {Refused("Internal")} ELSE found
  BY <1>1 DEF FirstThatHas
<1> HIDE DEF p, has
<1>5. CASE found = {}
  <2>1. o.code = "Internal"
    BY <1>4, <1>5 DEF Refused
  <2>2. Ask(cfg, has, down, p, n).code # "OK"
    BY <1>5
  <2> QED BY <2>1, <2>2, <1>3, AskFacts DEF Answers
<1>6. CASE found # {}
  <2>1. PICK m \in Name : o = Ask(cfg, has, down, p, m) /\ o.code = "OK"
    BY <1>4, <1>6
  <2> QED BY <2>1, <1>3, AskFacts DEF Answers
<1> QED BY <1>5, <1>6

(* The entry n adds a page of the appliance at to what is shown.           *)
Adds(n, at, page, todo) ==
  /\ Collect(at, page, todo)
  /\ todo \in {list.todo \ {n}, {}}
  /\ page.next = Empty => todo = list.todo \ {n}
  /\ at \in Name /\ page.entries \subseteq objs[at] /\ page.next \in Path \cup {Empty}
  /\ list.max = 0 \/ list.op = "ListSnapshot" => page.next = Empty
  /\ Orderly => at = n /\ IsPage(Candidates(n), page)

(* It adds nothing, as it has nothing or its list cannot be read.          *)
Skips(n, faulty) ==
  /\ Nothing(n, Empty, faulty)
  /\ faulty \in BOOLEAN
  /\ ~faulty => Dataset(n) \notin cfg[n].has
  /\ list.op = "ListSnapshot" => ~faulty
  /\ list.op = "ListVolumes" => faulty

(* With the default datasets apart, or one target, the dataset of a target *)
(* is on no other one.                                                     *)
LEMMA OrderlyPlace ==
  ASSUME ShapeOK, ObjectsOK, Orderly, NEW m \in Targets, NEW n \in Targets,
         Dataset(m) \in cfg[n].has
  PROVE  m = n
<1>1. CASE list.op \in {"ListSnapshotsOfVolume", "ListSnapshot"}
  BY <1>1 DEF Targets, Visits
<1>2. CASE list.op \in {"ListSnapshots", "ListVolumes"} /\ Separate
  BY <1>2 DEF Separate, Targets, Visits, Dataset
<1>3. CASE Single
  BY <1>3, SingleFacts
<1> QED BY <1>1, <1>2, <1>3 DEF Orderly, ShapeOK, Operations

(* The candidates of a page are paths of one dataset.                      *)
LEMMA CandidateFacts ==
  ASSUME ShapeOK, NEW n \in Name, NEW d
  PROVE  /\ InDataset(n, d) \subseteq objs[n]
         /\ objs[n] \subseteq Path
         /\ \A p, q \in InDataset(n, d) : p.dataset = q.dataset
  BY DEF ShapeOK, InDataset

(* A page that is cut from a dataset is one of the candidates.             *)
LEMMA CutPage ==
  ASSUME ShapeOK, ObjectsOK, NEW n \in list.todo, NEW at \in Name, NEW page,
         list.op # "ListSnapshot", at = n \/ list.op = "ListSnapshots",
         Dataset(n) \in cfg[at].has,
         IsPage(InDataset(at, Dataset(n)), page)
  PROVE  /\ page.entries \subseteq objs[at] /\ page.next \in Path \cup {Empty}
         /\ list.max = 0 => page.next = Empty
         /\ Orderly => at = n /\ IsPage(Candidates(n), page)
<1>1. InDataset(at, Dataset(n)) \subseteq objs[at] /\ objs[at] \subseteq Path
  BY DEF ShapeOK, InDataset
<1>2. /\ page.entries \subseteq InDataset(at, Dataset(n))
      /\ page.next \in InDataset(at, Dataset(n)) \cup {Empty}
      /\ list.max = 0 => page.next = Empty
  BY DEF IsPage
<1>3. Orderly => at = n
  <2>1. CASE list.op = "ListSnapshots"
    <3>1. Targets = Name /\ n \in Targets
      BY <2>1 DEF Targets, Visits, ObjectsOK
    <3> QED BY <3>1, OrderlyPlace
  <2> QED BY <2>1
<1>4. Candidates(n) = InDataset(n, Dataset(n))
  BY DEF Candidates
<1> QED BY <1>1, <1>2, <1>3, <1>4

(* So a visit adds a page or nothing, or ends the request.                 *)
LEMMA VisitStep ==
  ASSUME ShapeOK, ObjectsOK, PageOK, list.pc = "visit", NEW n \in list.todo,
         VisitVolumes(n) \/ VisitSnapshots(n) \/ VisitSnapshot(n)
  PROVE  /\ UNCHANGED <<cfg, objs, steady>> /\ faults' \in 0 .. MaxFaults
         /\ \/ Abort
            \/ \E faulty \in BOOLEAN : Skips(n, faulty)
            \/ \E at, page, todo : Adds(n, at, page, todo)
<1>1. n \in Name /\ n \in Targets /\ list.max \in Nat /\ list.token \in Path \cup {Empty}
  BY PathsOK DEF ShapeOK, ObjectsOK
<1>2. ASSUME NEW down \in SUBSET Name, NEW broken \in BOOLEAN, Failing(down, broken)
      PROVE  faults' \in 0 .. MaxFaults
  BY <1>2, PathsOK DEF Failing, ShapeOK
<1>3. CASE VisitVolumes(n)
  <2>1. PICK down \in SUBSET Name, broken \in BOOLEAN :
          /\ Failing(down, broken)
          /\ \E o \in Outcomes(down, Params(Empty, Empty, n, FALSE)) :
               IF o.code # "OK" THEN Abort
               ELSE IF broken THEN Nothing(n, Empty, TRUE)
               ELSE Collect(n, FilesystemPage(InDataset(n, o.datasetPath),
                                              list.token, list.max), list.todo \ {n})
    BY <1>3 DEF VisitVolumes
  <2>2. PICK o \in Outcomes(down, Params(Empty, Empty, n, FALSE)) :
          IF o.code # "OK" THEN Abort
          ELSE IF broken THEN Nothing(n, Empty, TRUE)
          ELSE Collect(n, FilesystemPage(InDataset(n, o.datasetPath),
                                         list.token, list.max), list.todo \ {n})
    BY <2>1
  <2>3. list.op = "ListVolumes" /\ UNCHANGED <<cfg, objs, steady>>
    BY <1>3 DEF VisitVolumes
  <2>4. PathAt(cfg, Params(Empty, Empty, n, FALSE), n) = Dataset(n)
    BY <2>3 DEF PathAt, Params, Dataset
  <2>5. Answers(n, down, o)
    BY <1>1, <2>3, <2>4, NamedAnswers
  <2>6. CASE o.code = "OK" /\ broken
    <3>1. Skips(n, TRUE)
      BY <2>2, <2>3, <2>6 DEF Skips
    <3> QED BY <1>2, <2>1, <2>3, <3>1
  <2>7. CASE o.code = "OK" /\ ~broken
    <3> DEFINE page == FilesystemPage(InDataset(n, Dataset(n)), list.token, list.max)
    <3>1. Collect(n, page, list.todo \ {n})
      BY <2>2, <2>5, <2>7 DEF Answers
    <3>2. IsPage(InDataset(n, Dataset(n)), page)
      BY <1>1, <2>3, CandidateFacts, FilesystemPageFacts
    <3>3. Dataset(n) \in cfg[n].has
      BY <2>3, <2>5, <2>7 DEF Answers
    <3> HIDE DEF page
    <3>4. Adds(n, n, page, list.todo \ {n})
      BY <1>1, <2>3, <3>1, <3>2, <3>3, CutPage DEF Adds
    <3>5. \E at, pg, todo : Adds(n, at, pg, todo)
      BY <3>4
    <3> QED BY <1>2, <2>1, <2>3, <3>5
  <2> QED BY <1>2, <2>1, <2>2, <2>3, <2>6, <2>7
<1>4. CASE VisitSnapshots(n)
  <2>1. PICK down \in SUBSET Name, broken \in BOOLEAN :
          /\ Failing(down, broken)
          /\ \E o \in Outcomes(down, SnapshotParams(n)) :
               LET page == SnapshotPage(InDataset(o.configName, o.datasetPath),
                                        list.token, list.max)
               IN IF o.code # "OK" THEN Nothing(n, Empty, down # {})
                  ELSE IF broken THEN Abort
                  ELSE Collect(o.configName, page,
                               IF page.next = Empty THEN list.todo \ {n} ELSE {})
    BY <1>4 DEF VisitSnapshots
  <2>2. PICK o \in Outcomes(down, SnapshotParams(n)) :
          LET page == SnapshotPage(InDataset(o.configName, o.datasetPath),
                                   list.token, list.max)
          IN IF o.code # "OK" THEN Nothing(n, Empty, down # {})
             ELSE IF broken THEN Abort
             ELSE Collect(o.configName, page,
                          IF page.next = Empty THEN list.todo \ {n} ELSE {})
    BY <2>1
  <2>3. /\ list.op \in {"ListSnapshots", "ListSnapshotsOfVolume"}
        /\ UNCHANGED <<cfg, objs, steady>>
    BY <1>4 DEF VisitSnapshots
  <2>4. Answers(n, down, o)
    <3>1. CASE list.op = "ListSnapshots"
      <4>1. SnapshotParams(n) = Params(Dataset(n), Empty, Empty, FALSE)
        BY <3>1 DEF SnapshotParams, Dataset
      <4> QED BY <1>1, <3>1, <4>1, UnnamedAnswers
    <3>2. CASE list.op = "ListSnapshotsOfVolume"
      <4>1. SnapshotParams(n) = Params(Dataset(n), Empty, n, FALSE)
        BY <3>2 DEF SnapshotParams, Dataset
      <4>2. Dataset(n) # Empty
        BY <3>2, PathsOK DEF Dataset, ObjectsOK, Object
      <4>3. PathAt(cfg, Params(Dataset(n), Empty, n, FALSE), n) = Dataset(n)
        BY <4>2 DEF PathAt, Params
      <4> QED BY <1>1, <3>2, <4>1, <4>3, NamedAnswers
    <3> QED BY <2>3, <3>1, <3>2
  <2>5. CASE o.code # "OK"
    BY <1>2, <2>1, <2>2, <2>3, <2>4, <2>5 DEF Skips, Answers
  <2>6. CASE o.code = "OK" /\ ~broken
    <3> DEFINE page == SnapshotPage(InDataset(o.configName, Dataset(n)), list.token, list.max)
               todo == IF page.next = Empty THEN list.todo \ {n} ELSE {}
    <3>1. Collect(o.configName, page, todo)
      BY <2>2, <2>4, <2>6 DEF Answers
    <3>2. /\ o.configName \in Name /\ Dataset(n) \in cfg[o.configName].has
          /\ o.configName = n \/ list.op = "ListSnapshots"
      BY <2>4, <2>6 DEF Answers
    <3>3. InDataset(o.configName, Dataset(n)) \subseteq Path
      BY <3>2, CandidateFacts
    <3>4. IsPage(InDataset(o.configName, Dataset(n)), page)
      BY <1>1, <2>3, <3>3, SnapshotPageFacts
    <3>5. todo \in {list.todo \ {n}, {}} /\ (page.next = Empty => todo = list.todo \ {n})
      OBVIOUS
    <3> HIDE DEF page, todo
    <3>6. Adds(n, o.configName, page, todo)
      BY <1>1, <2>3, <3>1, <3>2, <3>4, <3>5, CutPage DEF Adds
    <3>7. \E at, pg, td : Adds(n, at, pg, td)
      BY <3>6
    <3> QED BY <1>2, <2>1, <2>3, <3>7
  <2>7. CASE o.code = "OK" /\ broken
    BY <1>2, <2>1, <2>2, <2>3, <2>7
  <2> QED BY <2>5, <2>6, <2>7
<1>5. CASE VisitSnapshot(n)
  <2> DEFINE s == list.source
             page == [entries |-> {s.path} \cap objs[n], next |-> Empty]
  <2>1. PICK down \in SUBSET Name, broken \in BOOLEAN :
          /\ Failing(down, broken)
          /\ \E o \in Outcomes(down, Params(s.path.dataset, Empty, n, FALSE)) :
               IF o.code = "NotFound" THEN Nothing(n, Empty, FALSE)
               ELSE IF o.code # "OK" \/ broken THEN Abort
               ELSE Collect(n, page, list.todo \ {n})
    BY <1>5 DEF VisitSnapshot
  <2>2. PICK o \in Outcomes(down, Params(s.path.dataset, Empty, n, FALSE)) :
          IF o.code = "NotFound" THEN Nothing(n, Empty, FALSE)
          ELSE IF o.code # "OK" \/ broken THEN Abort
          ELSE Collect(n, page, list.todo \ {n})
    BY <2>1
  <2>3. list.op = "ListSnapshot" /\ UNCHANGED <<cfg, objs, steady>>
    BY <1>5 DEF VisitSnapshot
  <2>4. Dataset(n) = s.path.dataset /\ Dataset(n) # Empty
    BY <2>3, PathsOK DEF Dataset, ObjectsOK, Object
  <2>5. Answers(n, down, o)
    <3>1. PathAt(cfg, Params(s.path.dataset, Empty, n, FALSE), n) = Dataset(n)
      BY <2>4 DEF PathAt, Params
    <3> QED BY <1>1, <2>3, <3>1, NamedAnswers
  <2>6. CASE o.code = "NotFound"
    BY <1>2, <2>1, <2>2, <2>3, <2>5, <2>6 DEF Skips, Answers
  <2>7. CASE Abort
    BY <1>2, <2>1, <2>3, <2>7
  <2>8. CASE Collect(n, page, list.todo \ {n})
    <3>1. list.token = Empty
      BY <2>3 DEF PageOK
    <3>2. IsPage(Candidates(n), page)
      BY <2>3, <3>1 DEF IsPage, Candidates
    <3>3. page.next = Empty /\ page.entries \subseteq objs[n]
      OBVIOUS
    <3> HIDE DEF page
    <3>4. Adds(n, n, page, list.todo \ {n})
      BY <1>1, <2>8, <3>2, <3>3 DEF Adds
    <3>5. \E at, pg, todo : Adds(n, at, pg, todo)
      BY <3>4
    <3> QED BY <1>2, <2>1, <2>3, <3>5
  <2> QED BY <2>2, <2>6, <2>7, <2>8
<1> QED BY <1>3, <1>4, <1>5

-----------------------------------------------------------------------------
(* The invariant, action by action. *)

(* A listing keeps what it is about.                                       *)
LEMMA Frame ==
  ASSUME cfg' = cfg, list'.op = list.op, list'.source = list.source, list'.max = list.max
  PROVE  /\ Name' = Name /\ Object' = Object
         /\ Targets' = Targets /\ (Single' <=> Single) /\ (Orderly' <=> Orderly)
         /\ (Covered' <=> Covered) /\ (Reports' <=> Reports)
         /\ \A n : Dataset(n)' = Dataset(n)
         /\ \A p, t : Before(p, t)' <=> Before(p, t)
<1>1. Name' = Name
  BY DEF Name
<1>2. Object' = Object
  BY <1>1 DEF Object
<1>3. Targets' = Targets
  BY <1>1 DEF Targets, Visits
<1>4. Single' <=> Single
  BY <1>3 DEF Single
<1>5. Separate' <=> Separate
  BY <1>1 DEF Separate
<1>6. Reports' <=> Reports
  BY <1>1 DEF Reports
<1>7. (\A n : Dataset(n)' = Dataset(n)) /\ \A p, t : Before(p, t)' <=> Before(p, t)
  BY DEF Dataset, Before
<1> QED BY <1>1, <1>2, <1>3, <1>4, <1>5, <1>6, <1>7 DEF Orderly, Covered

(* The fields of a listing that has a page more.                           *)
LEMMA AddFields ==
  ASSUME ShapeOK, NEW at, NEW page, NEW todo, Collect(at, page, todo)
  PROVE  LET found == {[on |-> at, path |-> p] : p \in page.entries} IN
         /\ list'.pc = list.pc /\ list'.op = list.op /\ list'.max = list.max
         /\ list'.source = list.source /\ list'.token = list.token
         /\ list'.todo = todo /\ list'.next = page.next
         /\ list'.entries = list.entries \cup found /\ list'.listed = list.listed
         /\ list'.repeated = list.repeated \cup (found \cap (list.listed \cup list.entries))
         /\ list'.tokenLost = list.tokenLost /\ list'.faulty = list.faulty
         /\ DOMAIN list' = DOMAIN list
<1> DEFINE found == {[on |-> at, path |-> p] : p \in page.entries}
<1> HIDE DEF found
<1>1. list' = [list EXCEPT !.todo = todo, !.next = page.next,
                 !.entries = @ \cup found,
                 !.repeated = @ \cup (found \cap (list.listed \cup list.entries))]
  BY DEF Collect, found
<1>2. /\ list'.pc = list.pc /\ list'.op = list.op /\ list'.max = list.max
      /\ list'.source = list.source /\ list'.token = list.token
      /\ list'.todo = todo /\ list'.next = page.next
      /\ list'.entries = list.entries \cup found /\ list'.listed = list.listed
      /\ list'.repeated = list.repeated \cup (found \cap (list.listed \cup list.entries))
      /\ list'.tokenLost = list.tokenLost /\ list'.faulty = list.faulty
      /\ DOMAIN list' = DOMAIN list
  BY <1>1 DEF ShapeOK
<1> QED BY <1>2 DEF found

(* Nothing of a page was shown before.                                     *)
LEMMA AddsOnce ==
  ASSUME ShapeOK, ObjectsOK, PageOK, OnceOK, Orderly, list.pc = "visit",
         NEW n \in list.todo, NEW page, NEW todo, Adds(n, n, page, todo),
         UNCHANGED <<cfg, objs>>
  PROVE  OnceOK'
<1> DEFINE found == {[on |-> n, path |-> p] : p \in page.entries}
<1>1. /\ list'.pc = list.pc /\ list'.op = list.op /\ list'.max = list.max
      /\ list'.source = list.source /\ list'.token = list.token
      /\ list'.todo = todo /\ list'.next = page.next
      /\ list'.entries = list.entries \cup found /\ list'.listed = list.listed
      /\ list'.repeated = list.repeated \cup (found \cap (list.listed \cup list.entries))
  BY AddFields DEF Adds
<1>2. /\ Targets' = Targets /\ \A m : Dataset(m)' = Dataset(m)
      /\ \A p, t : Before(p, t)' <=> Before(p, t)
  BY <1>1, Frame
<1>3. n \in Targets /\ n \in Name /\ todo \subseteq list.todo /\ n \notin todo
  BY DEF Adds, ObjectsOK, ShapeOK
<1>4. Candidates(n) \subseteq objs[n] /\ objs[n] \subseteq Path
  BY <1>3 DEF Candidates, InDataset, ShapeOK
<1>5. \A p \in Candidates(n) : p.dataset = Dataset(n)
  BY DEF Candidates, InDataset, Dataset
<1>6. IsPage(Candidates(n), page)
  BY DEF Adds
<1>7. /\ page.entries \subseteq Candidates(n) /\ page.next \in Candidates(n) \cup {Empty}
      /\ \A p \in page.entries :
           list.token = Empty \/ (list.token \in Candidates(n) /\ ~Before(p, list.token))
      /\ page.next # Empty =>
           /\ list.token = Empty \/ list.token \in Candidates(n)
           /\ \A p \in page.entries : Before(p, page.next)
           /\ list.token # Empty =>
                \A p \in Path : Before(p, list.token) => Before(p, page.next)
  BY <1>6 DEF IsPage
<1>8. \A o \in found : \E p \in page.entries : o.on = n /\ o.path = p
  OBVIOUS
<1> HIDE DEF found
<1>9. \A o \in list.listed : list.token # Empty /\ o.path \in Path
  BY DEF PageOK, ShapeOK, Object
<1>10. list'.repeated = {}
  <2>1. ASSUME NEW o \in found PROVE o \notin list.entries
    BY <2>1, <1>8 DEF OnceOK
  <2>2. ASSUME NEW o \in found, o \in list.listed PROVE FALSE
    <3>1. PICK p \in page.entries : o.path = p
      BY <1>8
    <3>2. list.token \in Candidates(n) /\ ~Before(p, list.token) /\ list.token # Empty
      BY <2>2, <3>1, <1>7, <1>9
    <3>3. p.dataset = list.token.dataset
      BY <3>1, <3>2, <1>5, <1>7
    <3> QED BY <2>2, <3>1, <3>2, <3>3 DEF OnceOK
  <2> QED BY <1>1, <2>1, <2>2 DEF OnceOK
<1>11. ASSUME NEW o \in list'.entries
       PROVE  o.on \in Targets \ todo /\ o.path.dataset = Dataset(o.on)
  <2>1. CASE o \in found
    BY <2>1, <1>3, <1>5, <1>7, <1>8
  <2>2. CASE o \in list.entries
    BY <2>2, <1>3 DEF OnceOK
  <2> QED BY <1>1, <2>1, <2>2
<1>12. ASSUME page.next # Empty, NEW o \in list.listed \cup list'.entries,
              o.path.dataset = page.next.dataset
       PROVE  Before(o.path, page.next)
  <2>1. CASE o \in found
    BY <2>1, <1>7, <1>8, <1>12
  <2>2. CASE o \in list.entries
    <3>1. o.on \in Targets \ list.todo /\ o.path.dataset = Dataset(o.on)
      BY <2>2 DEF OnceOK
    <3>2. page.next \in objs[n] /\ page.next.dataset = Dataset(n)
      BY <1>4, <1>5, <1>7, <1>12
    <3>3. Dataset(o.on) \in cfg[n].has
      BY <1>3, <1>12, <3>1, <3>2 DEF ObjectsOK
    <3>4. o.on = n
      BY <1>3, <3>1, <3>3, OrderlyPlace
    <3> QED BY <3>1, <3>4
  <2>3. CASE o \in list.listed
    <3>1. list.token \in Candidates(n) /\ list.token # Empty /\ o.path \in Path
      BY <2>3, <1>7, <1>9, <1>12
    <3>2. o.path.dataset = list.token.dataset
      BY <3>1, <1>5, <1>7, <1>12
    <3>3. Before(o.path, list.token)
      BY <2>3, <3>1, <3>2 DEF OnceOK
    <3> QED BY <1>7, <1>12, <3>1, <3>3
  <2> QED BY <1>1, <1>12, <2>1, <2>2, <2>3
<1>13. list.token # Empty =>
         \A o \in list.listed :
           o.path.dataset = list.token.dataset => Before(o.path, list.token)
  BY DEF OnceOK
<1> QED BY <1>1, <1>2, <1>10, <1>11, <1>12, <1>13 DEF OnceOK

(* No token is lost by a page.                                             *)
LEMMA AddsToken ==
  ASSUME ShapeOK, ObjectsOK, TokensOK, Single, list.pc = "visit",
         NEW n \in list.todo, NEW page, NEW todo, Adds(n, n, page, todo),
         UNCHANGED <<cfg, objs>>
  PROVE  TokensOK'
<1>1. /\ list'.op = list.op /\ list'.source = list.source /\ list'.max = list.max
      /\ list'.token = list.token /\ list'.next = page.next
      /\ list'.tokenLost = list.tokenLost
  BY AddFields DEF Adds
<1>2. Targets' = Targets /\ \A m : Dataset(m)' = Dataset(m)
  BY <1>1, Frame
<1>3. \A m : Candidates(m)' = Candidates(m)
  BY <1>1, <1>2 DEF Candidates, InDataset
<1>4. IsPage(Candidates(n), page)
  BY DEF Adds, Orderly
<1>5. page.next \in Candidates(n) \cup {Empty}
  BY <1>4 DEF IsPage
<1>6. Targets = {n}
  BY SingleFacts DEF ObjectsOK
<1> QED BY <1>1, <1>2, <1>3, <1>5, <1>6 DEF TokensOK

(* A page shows what it should.                                            *)
LEMMA AddsShown ==
  ASSUME ShapeOK, ObjectsOK, PageOK, Covered, CompleteOK, Single => TokensOK,
         list.pc = "visit",
         NEW n \in list.todo, NEW page, NEW todo, Adds(n, n, page, todo),
         UNCHANGED <<cfg, objs, steady>>
  PROVE  CompleteOK'
<1> DEFINE found == {[on |-> n, path |-> p] : p \in page.entries}
<1>1. /\ list'.pc = list.pc /\ list'.op = list.op /\ list'.max = list.max
      /\ list'.source = list.source /\ list'.token = list.token
      /\ list'.todo = todo /\ list'.next = page.next
      /\ list'.entries = list.entries \cup found /\ list'.listed = list.listed
      /\ list'.tokenLost = list.tokenLost /\ list'.faulty = list.faulty
  BY AddFields DEF Adds
<1>2. (Reports' <=> Reports) /\ \A p, t : Before(p, t)' <=> Before(p, t)
  BY <1>1, Frame
<1>3. SUFFICES ASSUME Intact, NEW s \in steady PROVE ShownOK(s)'
  BY <1>1, <1>2 DEF CompleteOK, Intact
<1>4. ShownOK(s) /\ s \in Object /\ s.on \in Targets /\ s.path \in Candidates(s.on)
  BY <1>3 DEF CompleteOK, ObjectsOK, ShapeOK
<1>5. IsPage(Candidates(n), page)
  BY DEF Adds, Covered, Orderly
<1>6. list.token # Empty /\ Before(s.path, list.token) => s \in list.listed
  BY <1>4 DEF ShownOK
<1>7. CASE s.on = n
  <2>1. s.path \in page.entries => s \in found
    BY <1>4, <1>7 DEF Object
  <2>2. ASSUME list.token # Empty PROVE list.token \in Candidates(n)
    <3>1. Single
      BY <2>2 DEF Covered, PageOK
    <3> QED BY <2>2, <3>1, <1>3, <1>4, <1>7 DEF TokensOK, Intact
  <2>3. \/ s \in list.listed
        \/ list.token = Empty \/ (list.token \in Candidates(n) /\ ~Before(s.path, list.token))
    BY <1>6, <2>2
  <2>4. \/ s \in list.listed \/ s.path \in page.entries
        \/ page.next # Empty /\ ~Before(s.path, page.next)
    BY <1>4, <1>5, <1>7, <2>3 DEF IsPage
  <2> HIDE DEF found
  <2> QED BY <1>1, <1>2, <1>6, <2>1, <2>4 DEF ShownOK
<1>8. CASE s.on # n
  <2>1. n \in Targets
    BY DEF ObjectsOK
  <2>2. ~Single
    BY <1>4, <1>8, <2>1, SingleFacts
  <2>3. list.max = 0 /\ list.next = Empty /\ page.next = Empty
    BY <2>2 DEF Covered, PageOK, Adds
  <2>4. todo = list.todo \ {n}
    BY <2>3 DEF Adds
  <2> HIDE DEF found
  <2> QED BY <1>1, <1>2, <1>4, <1>6, <1>8, <2>2, <2>3, <2>4 DEF ShownOK
<1> QED BY <1>7, <1>8

(* The fields of a listing that has another entry behind it.               *)
LEMMA SkipFields ==
  ASSUME ShapeOK, NEW n, NEW faulty, Nothing(n, Empty, faulty)
  PROVE  /\ list'.pc = list.pc /\ list'.op = list.op /\ list'.max = list.max
         /\ list'.source = list.source /\ list'.token = list.token
         /\ list'.todo = list.todo \ {n} /\ list'.next = Empty
         /\ list'.entries = list.entries /\ list'.listed = list.listed
         /\ list'.repeated = list.repeated
         /\ list'.tokenLost = list.tokenLost /\ list'.faulty = (list.faulty \/ faulty)
  BY DEF Nothing, ShapeOK

(* An entry that adds nothing has nothing, or a failure to answer for.     *)
LEMMA SkipsShown ==
  ASSUME ShapeOK, ObjectsOK, PageOK, OnceOK, Covered, CompleteOK, list.pc = "visit",
         NEW n \in list.todo, NEW faulty \in BOOLEAN, Skips(n, faulty),
         UNCHANGED <<cfg, objs, steady>>
  PROVE  CompleteOK'
<1>1. /\ list'.pc = list.pc /\ list'.op = list.op /\ list'.max = list.max
      /\ list'.source = list.source /\ list'.token = list.token
      /\ list'.todo = list.todo \ {n} /\ list'.next = Empty
      /\ list'.entries = list.entries /\ list'.listed = list.listed
      /\ list'.tokenLost = list.tokenLost /\ list'.faulty = (list.faulty \/ faulty)
  BY SkipFields DEF Skips
<1>2. /\ Reports' <=> Reports
      /\ Single' <=> Single
      /\ \A p, t : Before(p, t)' <=> Before(p, t)
  BY <1>1, Frame
<1>3. n \in Targets
  BY DEF ObjectsOK
<1>4. SUFFICES ASSUME Intact, Reports \/ ~faulty, NEW s \in steady PROVE ShownOK(s)'
  BY <1>1, <1>2 DEF CompleteOK, Intact
<1>5. ShownOK(s) /\ s.on \in Targets /\ s.path \in Candidates(s.on)
  BY <1>4 DEF CompleteOK, ObjectsOK
<1>6. list.token # Empty /\ Before(s.path, list.token) => s \in list.listed
  BY <1>5 DEF ShownOK
<1>7. CASE s.on # n
  <2>1. ~Single
    BY <1>3, <1>5, <1>7, SingleFacts
  <2>2. list.next = Empty
    BY <2>1 DEF Covered, PageOK
  <2> QED BY <1>1, <1>2, <1>5, <1>6, <1>7, <2>1, <2>2 DEF ShownOK
<1>8. CASE s.on = n /\ ~faulty
  <2>1. Dataset(n) \notin cfg[n].has
    BY <1>8 DEF Skips
  <2>2. s.path \in objs[n] /\ s.path.dataset = Dataset(n) /\ n \in Name
    BY <1>5, <1>8 DEF Candidates, InDataset, Dataset, ShapeOK
  <2> QED BY <2>1, <2>2 DEF ObjectsOK
<1>9. CASE s.on = n /\ faulty
  <2>1. list.op = "ListVolumes" /\ Cardinality(Name) = 1
    BY <1>4, <1>9 DEF Reports, Skips
  <2>2. Single
    BY <2>1 DEF Single, Targets, Visits
  <2>3. Targets = {n}
    BY <1>3, <2>2, SingleFacts
  <2>4. list.entries = {}
    BY <2>3 DEF OnceOK
  <2>5. EmptyPage'
    BY <1>1, <2>1, <2>4 DEF EmptyPage
  <2> QED BY <1>1, <1>2, <1>6, <2>2, <2>5 DEF ShownOK
<1> QED BY <1>7, <1>8, <1>9

(* A visit keeps the invariant.                                            *)
LEMMA VisitKeeps ==
  ASSUME ListInv, Visit
  PROVE  ListInv'
<1>1. PICK n \in list.todo : VisitVolumes(n) \/ VisitSnapshots(n) \/ VisitSnapshot(n)
  BY DEF Visit
<1>2. list.pc = "visit" /\ ShapeOK /\ ObjectsOK /\ PageOK
  BY DEF Visit, ListInv
<1>3. /\ UNCHANGED <<cfg, objs, steady>> /\ faults' \in 0 .. MaxFaults
      /\ \/ Abort
         \/ \E faulty \in BOOLEAN : Skips(n, faulty)
         \/ \E at, page, todo : Adds(n, at, page, todo)
  BY <1>1, <1>2, VisitStep
<1>4. CASE Abort
  <2>1. list' = [list EXCEPT !.pc = "failed"]
    BY <1>4 DEF Abort
  <2>2. /\ list'.pc = "failed" /\ list'.op = list.op /\ list'.max = list.max
        /\ list'.source = list.source /\ list'.token = list.token
        /\ list'.todo = list.todo /\ list'.next = list.next
        /\ list'.repeated = list.repeated
    BY <1>2, <2>1 DEF ShapeOK
  <2>3. /\ Name' = Name /\ Object' = Object /\ Targets' = Targets
        /\ (Orderly' <=> Orderly) /\ \A m : Dataset(m)' = Dataset(m)
    BY <1>3, <2>2, Frame
  <2>4. ShapeOK'
    BY <1>2, <1>3, <2>1, <2>3 DEF ShapeOK
  <2>5. ObjectsOK'
    BY <1>2, <1>3, <2>2, <2>3 DEF ObjectsOK, Candidates, InDataset
  <2>6. PageOK'
    BY <1>2, <2>2 DEF PageOK
  <2>7. Orderly' => OnceOK'
    BY <2>2, <2>3 DEF ListInv, OnceOK
  <2>8. TokensOK' /\ CompleteOK'
    BY <2>2 DEF TokensOK, CompleteOK, ShownOK
  <2> QED BY <2>4, <2>5, <2>6, <2>7, <2>8 DEF ListInv
<1>5. ASSUME NEW faulty \in BOOLEAN, Skips(n, faulty) PROVE ListInv'
  <2>1. /\ list'.pc = list.pc /\ list'.op = list.op /\ list'.max = list.max
        /\ list'.source = list.source /\ list'.token = list.token
        /\ list'.todo = list.todo \ {n} /\ list'.next = Empty
        /\ list'.entries = list.entries /\ list'.listed = list.listed
        /\ list'.repeated = list.repeated /\ list'.tokenLost = list.tokenLost
    BY <1>2, <1>5, SkipFields DEF Skips
  <2>2. /\ Name' = Name /\ Object' = Object /\ Targets' = Targets
        /\ (Single' <=> Single) /\ (Orderly' <=> Orderly) /\ (Covered' <=> Covered)
        /\ \A m : Dataset(m)' = Dataset(m)
        /\ \A p, t : Before(p, t)' <=> Before(p, t)
    BY <1>3, <2>1, Frame
  <2>3. ShapeOK'
    BY <1>2, <1>3, <1>5, <2>2 DEF ShapeOK, Skips, Nothing
  <2>4. ObjectsOK'
    BY <1>2, <1>3, <2>1, <2>2 DEF ObjectsOK, Candidates, InDataset
  <2>5. PageOK'
    BY <1>2, <2>1 DEF PageOK
  <2>6. Orderly' => OnceOK'
    <3> SUFFICES ASSUME Orderly, OnceOK PROVE OnceOK'
      BY <2>2 DEF ListInv
    <3> QED BY <2>1, <2>2 DEF OnceOK
  <2>7. Single' => TokensOK'
    <3> SUFFICES ASSUME TokensOK PROVE TokensOK'
      BY <2>2 DEF ListInv
    <3>1. \A m : Candidates(m)' = Candidates(m)
      BY <1>3, <2>1, <2>2 DEF Candidates, InDataset
    <3> QED BY <2>1, <2>2, <3>1 DEF TokensOK
  <2>8. Covered' => CompleteOK'
    <3>1. Covered => Orderly
      BY DEF Covered, Orderly
    <3> QED BY <1>2, <1>3, <1>5, <2>2, <3>1, SkipsShown DEF ListInv
  <2> QED BY <2>3, <2>4, <2>5, <2>6, <2>7, <2>8 DEF ListInv
<1>6. ASSUME NEW at, NEW page, NEW todo, Adds(n, at, page, todo) PROVE ListInv'
  <2> DEFINE found == {[on |-> at, path |-> p] : p \in page.entries}
  <2>1. /\ list'.pc = list.pc /\ list'.op = list.op /\ list'.max = list.max
        /\ list'.source = list.source /\ list'.token = list.token
        /\ list'.todo = todo /\ list'.next = page.next
        /\ list'.entries = list.entries \cup found /\ list'.listed = list.listed
        /\ list'.repeated = list.repeated \cup (found \cap (list.listed \cup list.entries))
        /\ list'.tokenLost = list.tokenLost /\ list'.faulty = list.faulty
    BY <1>2, <1>6, AddFields DEF Adds
  <2>2. /\ Name' = Name /\ Object' = Object /\ Targets' = Targets
        /\ (Single' <=> Single) /\ (Orderly' <=> Orderly) /\ (Covered' <=> Covered)
        /\ \A m : Dataset(m)' = Dataset(m)
    BY <1>3, <2>1, Frame
  <2>3. found \subseteq Object
    BY <1>2, <1>6 DEF Adds, ShapeOK, Object
  <2>4. /\ todo \subseteq list.todo
        /\ page.next \in Path \cup {Empty}
        /\ list.max = 0 \/ list.op = "ListSnapshot" => page.next = Empty
    BY <1>6 DEF Adds
  <2> HIDE DEF found
  <2>5. ShapeOK'
    <3>1. list' = [list EXCEPT !.todo = todo, !.next = page.next,
                     !.entries = @ \cup found,
                     !.repeated = @ \cup (found \cap (list.listed \cup list.entries))]
      BY <1>6 DEF Adds, Collect, found
    <3> QED BY <1>2, <1>3, <2>2, <2>3, <2>4, <3>1 DEF ShapeOK
  <2>6. ObjectsOK'
    BY <1>2, <1>3, <2>1, <2>2, <2>4 DEF ObjectsOK, Candidates, InDataset
  <2>7. PageOK'
    BY <1>2, <2>1, <2>4 DEF PageOK
  <2>8. Orderly => at = n
    BY <1>6 DEF Adds
  <2>9. (Single => Orderly) /\ (Covered => Orderly)
    BY DEF Covered, Orderly
  <2>10. Orderly' => OnceOK'
    BY <1>2, <1>3, <1>6, <2>2, <2>8, AddsOnce DEF ListInv
  <2>11. Single' => TokensOK'
    BY <1>2, <1>3, <1>6, <2>2, <2>8, <2>9, AddsToken DEF ListInv
  <2>12. Covered' => CompleteOK'
    BY <1>2, <1>3, <1>6, <2>2, <2>8, <2>9, AddsShown DEF ListInv
  <2> QED BY <2>5, <2>6, <2>7, <2>10, <2>11, <2>12 DEF ListInv
<1> QED BY <1>3, <1>4, <1>5, <1>6

(* The end of a page: its token is that of the next one.                   *)
LEMMA RespondKeeps ==
  ASSUME ListInv, Respond
  PROVE  ListInv'
<1>1. /\ list.pc = "visit" /\ list.todo = {} /\ UNCHANGED <<cfg, objs, steady, faults>>
      /\ ShapeOK /\ ObjectsOK /\ PageOK
  BY DEF Respond, ListInv
<1>2. /\ list'.op = list.op /\ list'.max = list.max /\ list'.source = list.source
      /\ list'.todo = list.todo /\ list'.repeated = list.repeated
      /\ list'.tokenLost = list.tokenLost /\ list'.faulty = list.faulty
      /\ \/ list'.pc = "failed" /\ EmptyPage /\ list'.token = list.token /\ list'.next = list.next
         \/ /\ list'.pc = IF list.next = Empty THEN "done" ELSE "between"
            /\ ~EmptyPage
            /\ list'.listed = list.listed \cup list.entries
            /\ list'.token = list.next /\ list'.entries = {} /\ list'.next = Empty
  BY <1>1 DEF Respond, ShapeOK
<1>3. /\ Name' = Name /\ Object' = Object /\ Targets' = Targets
      /\ (Single' <=> Single) /\ (Orderly' <=> Orderly) /\ (Covered' <=> Covered)
      /\ (Reports' <=> Reports)
      /\ \A m : Dataset(m)' = Dataset(m)
      /\ \A p, t : Before(p, t)' <=> Before(p, t)
  BY <1>1, <1>2, Frame
<1>4. ShapeOK'
  BY <1>1, <1>3 DEF Respond, ShapeOK
<1>5. ObjectsOK'
  BY <1>1, <1>2, <1>3 DEF ObjectsOK, Candidates, InDataset
<1>6. PageOK'
  BY <1>1, <1>2 DEF PageOK
<1>7. Orderly' => OnceOK'
  <2> SUFFICES ASSUME OnceOK PROVE OnceOK'
    BY <1>3 DEF ListInv
  <2> QED BY <1>1, <1>2, <1>3 DEF OnceOK
<1>8. Single' => TokensOK'
  <2> SUFFICES ASSUME TokensOK PROVE TokensOK'
    BY <1>3 DEF ListInv
  <2>1. \A m : Candidates(m)' = Candidates(m)
    BY <1>1, <1>2, <1>3 DEF Candidates, InDataset
  <2> QED BY <1>1, <1>2, <1>3, <2>1 DEF TokensOK
<1>9. Covered' => CompleteOK'
  <2> SUFFICES ASSUME CompleteOK, Intact, NEW s \in steady PROVE ShownOK(s)'
    BY <1>1, <1>2, <1>3 DEF ListInv, CompleteOK, Intact
  <2>1. /\ EmptyPage \/ s \in list.listed \cup list.entries
             \/ (list.next # Empty /\ ~Before(s.path, list.next))
    BY <1>1 DEF CompleteOK, ShownOK
  <2>2. CASE list'.pc = "failed"
    BY <2>2 DEF ShownOK
  <2>3. CASE list'.pc # "failed"
    BY <1>1, <1>2, <1>3, <2>1, <2>3 DEF ShownOK
  <2> QED BY <2>2, <2>3
<1> QED BY <1>4, <1>5, <1>6, <1>7, <1>8, <1>9 DEF ListInv

(* The next page starts where the last one ended.                          *)
LEMMA NextPageKeeps ==
  ASSUME ListInv, NextPage
  PROVE  ListInv'
<1>1. /\ list.pc = "between" /\ UNCHANGED <<cfg, objs, steady, faults>>
      /\ ShapeOK /\ ObjectsOK /\ PageOK
  BY DEF NextPage, ListInv
<1>2. /\ list'.op = list.op /\ list'.max = list.max /\ list'.source = list.source
      /\ list'.todo = Targets /\ list'.repeated = list.repeated /\ list'.pc = "visit"
      /\ list'.tokenLost = list.tokenLost /\ list'.faulty = list.faulty
      /\ list'.listed = list.listed /\ list'.token = list.token
      /\ list'.entries = {} /\ list'.next = Empty /\ list.token # Empty
  BY <1>1 DEF NextPage, ShapeOK, PageOK, Targets
<1>3. /\ Name' = Name /\ Object' = Object /\ Targets' = Targets
      /\ (Single' <=> Single) /\ (Orderly' <=> Orderly) /\ (Covered' <=> Covered)
      /\ (Reports' <=> Reports)
      /\ \A m : Dataset(m)' = Dataset(m)
      /\ \A p, t : Before(p, t)' <=> Before(p, t)
  BY <1>1, <1>2, Frame
<1>4. ShapeOK'
  <2>1. Targets \subseteq Name
    BY <1>1, SingleFacts
  <2> QED BY <1>1, <1>3, <2>1 DEF NextPage, ShapeOK, Targets
<1>5. ObjectsOK'
  BY <1>1, <1>2, <1>3 DEF ObjectsOK, Candidates, InDataset
<1>6. PageOK'
  BY <1>1, <1>2 DEF PageOK
<1>7. Orderly' => OnceOK'
  <2> SUFFICES ASSUME OnceOK PROVE OnceOK'
    BY <1>3 DEF ListInv
  <2> QED BY <1>1, <1>2, <1>3 DEF OnceOK
<1>8. Single' => TokensOK'
  <2> SUFFICES ASSUME TokensOK PROVE TokensOK'
    BY <1>3 DEF ListInv
  <2>1. \A m : Candidates(m)' = Candidates(m)
    BY <1>1, <1>2, <1>3 DEF Candidates, InDataset
  <2> QED BY <1>1, <1>2, <1>3, <2>1 DEF TokensOK
<1>9. Covered' => CompleteOK'
  <2> SUFFICES ASSUME CompleteOK, Intact, NEW s \in steady PROVE ShownOK(s)'
    BY <1>1, <1>2, <1>3 DEF ListInv, CompleteOK, Intact
  <2>1. s.on \in Targets
    BY <1>1 DEF ObjectsOK
  <2>2. Before(s.path, list.token) => s \in list.listed
    BY <1>1, <1>2 DEF CompleteOK, ShownOK
  <2> QED BY <1>2, <1>3, <2>1, <2>2 DEF ShownOK
<1> QED BY <1>4, <1>5, <1>6, <1>7, <1>8, <1>9 DEF ListInv

(* A listing begins with what is there.                                    *)
LEMMA BeginKeeps ==
  ASSUME ListInv, Begin
  PROVE  ListInv'
<1>0. PICK op \in Operations, max \in MaxEntries :
        \E source \in IF op \in {"ListVolumes", "ListSnapshots"} THEN {Empty}
                      ELSE {o \in Object : o.path.dataset \in cfg[o.on].has} :
          /\ list' = [NoListing EXCEPT !.pc = "visit", !.op = op, !.max = max,
                        !.source = source, !.todo = Visits(op, source)]
          /\ steady' = Objects \cap Expected(op, source)
  BY DEF Begin
<1>1. PICK source \in IF op \in {"ListVolumes", "ListSnapshots"} THEN {Empty}
                      ELSE {o \in Object : o.path.dataset \in cfg[o.on].has} :
        /\ list' = [NoListing EXCEPT !.pc = "visit", !.op = op, !.max = max,
                      !.source = source, !.todo = Visits(op, source)]
        /\ steady' = Objects \cap Expected(op, source)
  BY <1>0
<1>2. UNCHANGED <<cfg, objs, faults>> /\ ShapeOK /\ ObjectsOK
  BY DEF Begin, ListInv
<1>3. list' = [pc |-> "visit", op |-> op, max |-> max, source |-> source,
               token |-> Empty, todo |-> Visits(op, source), entries |-> {}, next |-> Empty,
               listed |-> {}, repeated |-> {}, tokenLost |-> FALSE, faulty |-> FALSE]
  BY <1>1 DEF NoListing
<1>4. /\ list'.op = op /\ list'.max = max /\ list'.source = source
      /\ list'.todo = Visits(op, source) /\ list'.repeated = {} /\ list'.pc = "visit"
      /\ list'.listed = {} /\ list'.token = Empty
      /\ list'.entries = {} /\ list'.next = Empty
  BY <1>3
<1>5. Name' = Name /\ Object' = Object
  BY <1>2 DEF Name, Object
<1>6. Targets' = Visits(op, source)
  BY <1>4, <1>5 DEF Targets, Visits
<1>7. source \in Object \cup {Empty} /\ (op \in {"ListSnapshotsOfVolume", "ListSnapshot"} => source \in Object)
  BY DEF Operations
<1>8. Visits(op, source) \subseteq Name
  BY <1>7 DEF Visits, Object
<1>9. steady' \subseteq Object
  BY <1>1 DEF Objects
<1>10. ShapeOK'
  BY <1>2, <1>3, <1>5, <1>7, <1>8, <1>9 DEF ShapeOK
<1>11. ASSUME NEW s \in steady' PROVE s.on \in Targets' /\ s.path \in Candidates(s.on)'
  <2>1. s \in Object /\ s.path \in objs[s.on] /\ s \in Expected(op, source)
    BY <1>1, <1>11 DEF Objects
  <2>2. s.on \in Name
    BY <2>1 DEF Object
  <2>3. CASE op = "ListSnapshot"
    BY <1>2, <1>4, <1>6, <2>1, <2>3 DEF Expected, Visits, Candidates
  <2>4. CASE op = "ListSnapshotsOfVolume"
    BY <1>2, <1>4, <1>6, <2>1, <2>4 DEF Expected, Visits, Candidates, InDataset, Dataset
  <2>5. CASE op \in {"ListVolumes", "ListSnapshots"}
    <3>1. s.path.dataset = cfg[s.on].defaultDataset
      BY <2>1, <2>5 DEF Expected, InDefaultDataset
    <3> QED
      BY <1>2, <1>4, <1>6, <2>1, <2>2, <2>5, <3>1 DEF Visits, Candidates, InDataset, Dataset
  <2> QED BY <2>3, <2>4, <2>5 DEF Operations
<1>12. ObjectsOK'
  BY <1>2, <1>4, <1>5, <1>6, <1>7, <1>11 DEF ObjectsOK
<1>13. PageOK' /\ OnceOK' /\ TokensOK'
  BY <1>4 DEF PageOK, OnceOK, TokensOK
<1>14. CompleteOK'
  BY <1>4, <1>6, <1>11 DEF CompleteOK, ShownOK
<1> QED BY <1>10, <1>12, <1>13, <1>14 DEF ListInv

(* Objects appear beside those that were there all the time.               *)
LEMMA AddKeeps ==
  ASSUME ListInv, NEW n \in Name, NEW p \in Path, Add(n, p)
  PROVE  ListInv'
<1>1. /\ UNCHANGED <<cfg, list, steady, faults>> /\ objs' = [objs EXCEPT ![n] = @ \cup {p}]
      /\ p.dataset \in cfg[n].has /\ ShapeOK /\ ObjectsOK /\ PageOK
  BY DEF Add, ListInv
<1>2. /\ Name' = Name /\ Object' = Object /\ Targets' = Targets
      /\ (Single' <=> Single) /\ (Orderly' <=> Orderly) /\ (Covered' <=> Covered)
      /\ (Reports' <=> Reports)
      /\ \A m : Dataset(m)' = Dataset(m)
      /\ \A q, t : Before(q, t)' <=> Before(q, t)
  BY <1>1, Frame
<1>3. /\ objs' \in [Name -> SUBSET Path]
      /\ \A m \in Name : objs[m] \subseteq objs'[m]
      /\ \A m \in Name : \A q \in objs'[m] : q.dataset \in cfg[m].has
  BY <1>1 DEF ShapeOK, ObjectsOK
<1>4. \A m \in Name : Candidates(m) \subseteq Candidates(m)'
  BY <1>1, <1>2, <1>3 DEF Candidates, InDataset
<1>5. Targets \subseteq Name
  BY <1>1, SingleFacts
<1>6. ShapeOK'
  BY <1>1, <1>2, <1>3 DEF ShapeOK
<1>7. ObjectsOK'
  BY <1>1, <1>2, <1>3, <1>4, <1>5 DEF ObjectsOK
<1>8. PageOK'
  BY <1>1 DEF PageOK
<1>9. Orderly' => OnceOK'
  <2> SUFFICES ASSUME OnceOK PROVE OnceOK'
    BY <1>2 DEF ListInv
  <2> QED BY <1>1, <1>2 DEF OnceOK
<1>10. Single' => TokensOK'
  <2> SUFFICES ASSUME TokensOK PROVE TokensOK'
    BY <1>2 DEF ListInv
  <2> QED BY <1>1, <1>2, <1>4, <1>5 DEF TokensOK
<1>11. Covered' => CompleteOK'
  <2> SUFFICES ASSUME CompleteOK, Intact, NEW s \in steady PROVE ShownOK(s)'
    BY <1>1, <1>2 DEF ListInv, CompleteOK, Intact
  <2> QED BY <1>1, <1>2 DEF CompleteOK, ShownOK, EmptyPage
<1> QED BY <1>6, <1>7, <1>8, <1>9, <1>10, <1>11 DEF ListInv

(* What goes was not there all the time, and may take the token with it.   *)
LEMMA RemoveKeeps ==
  ASSUME ListInv, NEW n \in Name, NEW p \in Path, Remove(n, p)
  PROVE  ListInv'
<1>1. /\ UNCHANGED <<cfg, faults>> /\ objs' = [objs EXCEPT ![n] = @ \ {p}]
      /\ steady' = steady \ {[on |-> n, path |-> p]}
      /\ ShapeOK /\ ObjectsOK /\ PageOK
  BY DEF Remove, ListInv
<1>2. /\ list'.op = list.op /\ list'.max = list.max /\ list'.source = list.source
      /\ list'.todo = list.todo /\ list'.repeated = list.repeated /\ list'.pc = list.pc
      /\ list'.faulty = list.faulty
      /\ list'.listed = list.listed /\ list'.token = list.token
      /\ list'.entries = list.entries /\ list'.next = list.next
      /\ list'.tokenLost = (list.tokenLost \/ p \in {list.token, list.next})
  BY <1>1 DEF Remove, ShapeOK
<1>3. /\ Name' = Name /\ Object' = Object /\ Targets' = Targets
      /\ (Single' <=> Single) /\ (Orderly' <=> Orderly) /\ (Covered' <=> Covered)
      /\ (Reports' <=> Reports)
      /\ \A m : Dataset(m)' = Dataset(m)
      /\ \A q, t : Before(q, t)' <=> Before(q, t)
  BY <1>1, <1>2, Frame
<1>4. /\ objs' \in [Name -> SUBSET Path]
      /\ \A m \in Name : objs'[m] \subseteq objs[m]
      /\ \A m \in Name : \A q \in objs[m] : q \in objs'[m] \/ (m = n /\ q = p)
  BY <1>1 DEF ShapeOK
<1>5. /\ \A m \in Name : \A q \in Candidates(m) : q \in Candidates(m)' \/ (m = n /\ q = p)
  BY <1>2, <1>3, <1>4 DEF Candidates, InDataset
<1>6. Targets \subseteq Name
  BY <1>1, SingleFacts
<1>7. ShapeOK'
  <2>1. list' = [list EXCEPT !.tokenLost = @ \/ p \in {list.token, list.next}]
    BY DEF Remove
  <2> QED BY <1>1, <1>3, <1>4, <2>1 DEF ShapeOK
<1>8. ASSUME NEW s \in steady' PROVE s.on \in Targets' /\ s.path \in Candidates(s.on)'
  <2>1. s \in steady /\ s # [on |-> n, path |-> p] /\ s \in Object
    BY <1>1, <1>8 DEF ShapeOK
  <2>2. s.on # n \/ s.path # p
    BY <2>1 DEF Object
  <2> QED BY <1>1, <1>3, <1>5, <1>6, <2>1, <2>2 DEF ObjectsOK
<1>9. ObjectsOK'
  BY <1>1, <1>2, <1>3, <1>4, <1>8 DEF ObjectsOK
<1>10. PageOK'
  BY <1>1, <1>2 DEF PageOK
<1>11. Orderly' => OnceOK'
  <2> SUFFICES ASSUME OnceOK PROVE OnceOK'
    BY <1>3 DEF ListInv
  <2> QED BY <1>2, <1>3 DEF OnceOK
<1>12. Single' => TokensOK'
  <2> SUFFICES ASSUME TokensOK PROVE TokensOK'
    BY <1>3 DEF ListInv
  <2> QED BY <1>2, <1>3, <1>5, <1>6 DEF TokensOK
<1>13. Covered' => CompleteOK'
  <2> SUFFICES ASSUME CompleteOK, Intact, NEW s \in steady PROVE ShownOK(s)'
    BY <1>1, <1>2, <1>3 DEF ListInv, CompleteOK, Intact
  <2> QED BY <1>2, <1>3 DEF CompleteOK, ShownOK, EmptyPage
<1> QED BY <1>7, <1>9, <1>10, <1>11, <1>12, <1>13 DEF ListInv

(* The invariant holds in every state.                                     *)
THEOREM ListInvariance == Spec => []ListInv
<1>1. Init => ListInv
  <2> SUFFICES ASSUME Init PROVE ListInv
    OBVIOUS
  <2>1. list.pc = "idle" /\ list.op = "ListVolumes" /\ list.token = Empty /\ list.next = Empty
        /\ list.todo = {} /\ list.repeated = {}
    BY DEF Init, NoListing
  <2>2. ShapeOK
    BY PathsOK DEF Init, NoListing, ShapeOK, Operations
  <2> QED
    BY <2>1, <2>2
    DEF Init, ListInv, ObjectsOK, PageOK, OnceOK, TokensOK, CompleteOK, ShownOK
<1>2. ListInv /\ [Next]_vars => ListInv'
  <2> SUFFICES ASSUME ListInv, [Next]_vars PROVE ListInv'
    OBVIOUS
  <2>1. CASE UNCHANGED vars
    <3>1. UNCHANGED <<cfg, objs, list, steady, faults>>
      BY <2>1 DEF vars
    <3>2. /\ Name' = Name /\ Object' = Object /\ Targets' = Targets
          /\ (Single' <=> Single) /\ (Orderly' <=> Orderly) /\ (Covered' <=> Covered)
          /\ (Reports' <=> Reports)
          /\ \A m : Dataset(m)' = Dataset(m)
          /\ \A q, t : Before(q, t)' <=> Before(q, t)
      BY <3>1, Frame
    <3>3. \A m : Candidates(m)' = Candidates(m)
      BY <3>1, <3>2 DEF Candidates, InDataset
    <3>4. ShapeOK' /\ ObjectsOK' /\ PageOK'
      BY <3>1, <3>2, <3>3 DEF ListInv, ShapeOK, ObjectsOK, PageOK
    <3>5. (OnceOK => OnceOK') /\ (TokensOK => TokensOK')
      BY <3>1, <3>2, <3>3 DEF OnceOK, TokensOK
    <3>6. CompleteOK => CompleteOK'
      BY <3>1, <3>2 DEF CompleteOK, Intact, ShownOK, EmptyPage
    <3> QED BY <3>2, <3>4, <3>5, <3>6 DEF ListInv
  <2> QED
    BY <2>1, BeginKeeps, VisitKeeps, RespondKeeps, NextPageKeeps, AddKeeps, RemoveKeeps DEF Next
<1> QED BY <1>1, <1>2, PTL DEF Spec

-----------------------------------------------------------------------------
(* The theorems. *)

(* A listing keeps its types, and has a token between two pages.           *)
THEOREM ListTypeCorrect == Spec => []TypeOK
<1>1. ListInv => TypeOK
  BY DEF ListInv, ShapeOK, PageOK, TypeOK
<1> QED BY <1>1, ListInvariance, PTL

(* No object is listed twice, by any number of pages and whatever comes    *)
(* and goes, if the default datasets are on one appliance each.            *)
THEOREM OnceHolds == Spec => []ListedOnce
<1>1. ListInv => ListedOnce
  BY DEF ListInv, OnceOK, Orderly, Single, ListedOnce
<1> QED BY <1>1, ListInvariance, PTL

(* A listing that ends shows every object that was there all the time,     *)
(* page by page on one appliance, or all at once on several.               *)
THEOREM CompletenessHolds == Spec => []ListingComplete
<1>1. ListInv => ListingComplete
  BY DEF ListInv, CompleteOK, Intact, ShownOK, Covered, Single, ListingComplete
<1> QED BY <1>1, ListInvariance, PTL
=============================================================================
