------------------------ MODULE MonitoringScanProofs ------------------------
(***************************************************************************)
(* Theorems about MonitoringScan for every number of scan processes,       *)
(* members, watches, repositories, releases and commits: its types, that   *)
(* the cards of a Feed partition its events and are final, and that no     *)
(* scan takes a checkpoint back.                                           *)
(***************************************************************************)
EXTENDS MonitoringScan, FiniteSetTheorems, SequenceTheorems, WellFoundedInduction, TLAPS

-----------------------------------------------------------------------------
(* Sets and numbers. *)

\* A set of naturals that is not empty has a least element, and a greatest one
\* when it is bounded.
LEMMA LeastNatural ==
  ASSUME NEW S \in SUBSET Nat, S # {}
  PROVE  \E x \in S : \A y \in S : x <= y
<1>1. PICK x \in S : \A y \in S : <<y, x>> \notin OpToRel(<, Nat)
  BY NatLessThanWellFounded, WFMin, Zenon
<1>2. \A y \in S : ~(y < x)
  BY <1>1 DEF OpToRel
<1>3. QED
  BY <1>2

LEMMA GreatestNatural ==
  ASSUME NEW n \in Nat, NEW S \in SUBSET (0..n), S # {}
  PROVE  \E x \in S : \A y \in S : y <= x
<1> DEFINE T == {n - y : y \in S}
<1>1. T \in SUBSET Nat /\ T # {}
  <2>1. \A y \in S : n - y \in Nat
    OBVIOUS
  <2>2. QED
    BY <2>1
<1>2. PICK m \in T : \A k \in T : m <= k
  BY <1>1, LeastNatural
<1>3. PICK x \in S : m = n - x
  OBVIOUS
<1>4. \A y \in S : y <= x
  BY <1>2, <1>3
<1>5. QED
  BY <1>4

\* The values of a function on a finite set are finitely many.
LEMMA FiniteImage ==
  ASSUME NEW f, IsFiniteSet(DOMAIN f)
  PROVE  IsFiniteSet({f[x] : x \in DOMAIN f})
<1> DEFINE T == {f[x] : x \in DOMAIN f}
           g == [x \in DOMAIN f |-> f[x]]
<1>1. g \in Surjection(DOMAIN f, T)
  BY DEF Surjection
<1>2. QED
  BY <1>1, FS_Surjection

\* Some number up to one more than the size of a finite set is not in it.
LEMMA FreshNumber ==
  ASSUME NEW S, IsFiniteSet(S)
  PROVE  \E k \in 1..(Cardinality(S) + 1) : k \notin S
<1> DEFINE n == Cardinality(S)
<1>1. n \in Nat
  BY FS_CardinalityType
<1>2. Cardinality(1..(n + 1)) = n + 1
  BY <1>1, FS_Interval
<1>3. ASSUME 1..(n + 1) \subseteq S
      PROVE  FALSE
  <2>1. Cardinality(1..(n + 1)) <= n
    BY <1>3, FS_Subset
  <2>2. QED
    BY <1>1, <1>2, <2>1
<1>4. QED
  BY <1>3

\* A fresh identifier is neither the lease's nor a process's nor a card's.
LEMMA FreshKey ==
  ASSUME IsFiniteSet(cards)
  PROVE  /\ NewKey \in Nat \ {0} /\ NewKey # lease.key
         /\ \A s \in Scanners : NewKey # scanner[s].key
         /\ \A g \in cards : NewKey # g.id[3]
<1> DEFINE keys == {scanner[s].key : s \in Scanners}
           names == {g.id[3] : g \in cards}
           used == {lease.key} \cup keys \cup names
<1>1. IsFiniteSet(keys)
  <2> DEFINE f == [s \in Scanners |-> scanner[s].key]
  <2>1. IsFiniteSet({f[s] : s \in DOMAIN f})
    BY ScanAssumptions, FiniteImage
  <2>2. QED
    BY <2>1
<1>2. IsFiniteSet(names)
  <2> DEFINE f == [g \in cards |-> g.id[3]]
  <2>1. IsFiniteSet({f[g] : g \in DOMAIN f})
    BY FiniteImage
  <2>2. QED
    BY <2>1
<1>3. IsFiniteSet(used)
  <2> HIDE DEF keys, names
  <2>1. IsFiniteSet({lease.key})
    BY FS_Singleton
  <2>2. QED
    BY <1>1, <1>2, <2>1, FS_Union
<1>4. Cardinality(used) \in Nat /\ \E k \in 1..(Cardinality(used) + 1) : k \notin used
  BY <1>3, FreshNumber, FS_CardinalityType
<1>5. NewKey \in 1..(Cardinality(used) + 1) /\ NewKey \notin used
  <2>1. NewKey = CHOOSE k \in 1..(Cardinality(used) + 1) : k \notin used
    BY DEF NewKey
  <2> HIDE DEF used
  <2>2. QED
    BY <1>4, <2>1
<1>6. QED
  BY <1>4, <1>5

-----------------------------------------------------------------------------
(* The inductive invariant. *)

\* A watch that exists has a repository, one that does not has no owner, and no
\* card is older than its watch.
Watched == /\ \A w \in Watches : IF watch[w].state = "new" THEN watch[w].owner = None
                                   ELSE watch[w].repo \in Repos
           /\ \A g \in cards : watch[g.id[1]].state # "new"

\* What a process listed exists, and it reads and checks repositories of it.
Plan(s) ==
  LET a == scanner[s] IN
  /\ \A w \in a.listed : watch[w].state # "new"
  /\ \A p \in a.todo : \E w \in a.listed : watch[w].repo = p
  /\ a.pc \in {"read", "checked"} => a.repo \in a.todo
Plans == \A s \in Scanners : Plan(s)

\* Every process in progress has an identifier of its own.
Keys == /\ \A s \in Scanners : scanner[s].pc # "idle" => scanner[s].key # 0
        /\ \A s, t \in Scanners : scanner[s].key = scanner[t].key /\ scanner[s].key # 0 => s = t

\* Cards are named after a process only for what it has published.
Names ==
  /\ IsFiniteSet(cards)
  /\ \A s \in Scanners, g \in cards :
       g.id[2] = "commits" /\ g.id[3] = scanner[s].key =>
         /\ scanner[s].pc # "acquired"
         /\ watch[g.id[1]].repo \notin Unpublished(s)

\* References are to facts of the same watch.
OwnReferences == \A e \in Watches \X Releases : \A f \in refs[e] : f[1] = e[1]

Publications == CardsPartitionEvents /\ ReferencesResolve /\ OwnReferences

Working == Watched /\ Plans /\ Keys /\ Names
IndInv == TypeOK /\ Working /\ Publications

-----------------------------------------------------------------------------
(* What one step makes of a process. *)

Turn(s, row) == row \in Processes /\ scanner' = [scanner EXCEPT ![s] = row]

\* It gives up and keeps only its identifier.
Dropped(s, row) == /\ row.pc = "release" /\ row.key = scanner[s].key
                   /\ row.listed = {} /\ row.todo = {}

\* It goes on with the same lists.
GoesOn(s, row, pc) == /\ row.pc = pc /\ row.key = scanner[s].key
                      /\ row.listed = scanner[s].listed /\ row.todo = scanner[s].todo

LEMMA ZeroType == 0 \in 0..MaxTime /\ NoCursor \in CursorRows
<1>1. MaxTime \in Nat
  BY ScanAssumptions
<1>2. QED
  BY <1>1 DEF NoCursor, CursorRows

LEMMA IdleType == Idle \in Processes
  BY ZeroType DEF Idle, Processes, Checks

LEMMA ProcessUpdates ==
  ASSUME NEW row \in Processes
  PROVE  /\ \A key \in Nat, pc \in {"acquired", "release"} :
              [Idle EXCEPT !.pc = pc, !.key = key] \in Processes
         /\ [row EXCEPT !.lost = TRUE] \in Processes
         /\ \A listed \in SUBSET Watches, todo \in SUBSET Repos :
              [row EXCEPT !.pc = "scanning", !.listed = listed, !.todo = todo] \in Processes
<1>1. \A key \in Nat, pc \in {"acquired", "release"} :
        [Idle EXCEPT !.pc = pc, !.key = key] \in Processes
  BY IdleType DEF Processes
<1>2. [row EXCEPT !.lost = TRUE] \in Processes
  BY DEF Processes
<1>3. \A listed \in SUBSET Watches, todo \in SUBSET Repos :
        [row EXCEPT !.pc = "scanning", !.listed = listed, !.todo = todo] \in Processes
  BY DEF Processes
<1>4. QED
  BY <1>1, <1>2, <1>3

LEMMA ReadRow ==
  ASSUME NEW row \in Processes, NEW p \in Repos, NEW from \in CursorRows,
         NEW signals \in SUBSET Items, NEW done \in BOOLEAN, NEW head \in Shas \cup {None}
  PROVE  [row EXCEPT !.pc = "read", !.repo = p, !.from = from, !.signals = signals,
                     !.releasesDone = done, !.head = head] \in Processes
  BY DEF Processes

LEMMA CheckedRow ==
  ASSUME NEW row \in Processes, NEW p \in Repos \cup {None}, NEW check \in Checks
  PROVE  [row EXCEPT !.pc = "checked", !.repo = p, !.check = check, !.from = NoCursor,
                     !.signals = {}, !.releasesDone = FALSE, !.head = None] \in Processes
  BY ZeroType DEF Processes

LEMMA RecordedRow ==
  ASSUME NEW row \in Processes, NEW todo \in SUBSET Repos, NEW failed \in BOOLEAN
  PROVE  [row EXCEPT !.pc = "scanning", !.todo = todo, !.repo = None, !.check = "none",
                     !.failed = failed] \in Processes
  BY DEF Processes, Checks

\* Giving up, ending and losing the heartbeat.
LEMMA DropTurn ==
  ASSUME TypeOK, NEW s \in Scanners, Discarded(s)
  PROVE  \E row : Turn(s, row) /\ Dropped(s, row)
<1> DEFINE row == [Idle EXCEPT !.pc = "release", !.key = scanner[s].key]
<1>1. scanner[s] \in Processes /\ scanner[s].key \in Nat
  BY DEF TypeOK, Processes
<1>2. row \in Processes
  BY <1>1, ProcessUpdates
<1>3. row.pc = "release" /\ row.key = scanner[s].key /\ row.listed = {} /\ row.todo = {}
  BY DEF Idle
<1>4. scanner' = [scanner EXCEPT ![s] = row]
  BY DEF Discarded
<1> HIDE DEF row
<1>5. QED
  BY <1>2, <1>3, <1>4 DEF Turn, Dropped

LEMMA LostTurn ==
  ASSUME TypeOK, NEW s \in Scanners, scanner' = [scanner EXCEPT ![s].lost = TRUE]
  PROVE  \E row : Turn(s, row) /\ GoesOn(s, row, scanner[s].pc) /\ row.repo = scanner[s].repo
<1> DEFINE row == [scanner[s] EXCEPT !.lost = TRUE]
<1>1. scanner[s] \in Processes
  BY DEF TypeOK
<1>2. row \in Processes
  BY <1>1, ProcessUpdates
<1>3. /\ row.pc = scanner[s].pc /\ row.key = scanner[s].key /\ row.listed = scanner[s].listed
      /\ row.todo = scanner[s].todo /\ row.repo = scanner[s].repo
  BY <1>1 DEF Processes
<1>4. scanner' = [scanner EXCEPT ![s] = row]
  BY DEF TypeOK
<1> HIDE DEF row
<1>5. QED
  BY <1>2, <1>3, <1>4 DEF Turn, GoesOn

LEMMA AcquireTurn ==
  ASSUME TypeOK, IsFiniteSet(cards), NEW s \in Scanners, Acquire(s)
  PROVE  \E row : /\ Turn(s, row) /\ row.pc = "acquired" /\ row.key = NewKey
                  /\ row.listed = {} /\ row.todo = {}
<1> DEFINE row == [Idle EXCEPT !.pc = "acquired", !.key = NewKey]
<1>1. NewKey \in Nat
  BY FreshKey
<1>2. row \in Processes
  BY <1>1, ProcessUpdates, IdleType
<1>3. row.pc = "acquired" /\ row.key = NewKey /\ row.listed = {} /\ row.todo = {}
  BY DEF Idle
<1>4. scanner' = [scanner EXCEPT ![s] = row]
  BY DEF Acquire
<1> HIDE DEF row
<1>5. QED
  BY <1>2, <1>3, <1>4 DEF Turn

LEMMA StartTurn ==
  ASSUME TypeOK, Watched, NEW s \in Scanners, Start(s)
  PROVE  \E row : /\ Turn(s, row)
                  /\ \/ Dropped(s, row)
                     \/ /\ row.pc = "scanning" /\ row.key = scanner[s].key
                        /\ row.listed = {w \in Watches : Live(w)}
                        /\ row.todo = {watch[w].repo : w \in row.listed}
<1> DEFINE listed == {w \in Watches : Live(w)}
           todo == {watch[w].repo : w \in listed}
           row == [scanner[s] EXCEPT !.pc = "scanning", !.listed = listed, !.todo = todo]
<1>1. CASE Owns(s)
  <2>1. listed \in SUBSET Watches /\ todo \in SUBSET Repos
    BY DEF Watched, Live
  <2>2. scanner[s] \in Processes
    BY DEF TypeOK
  <2>3. scanner' = [scanner EXCEPT ![s] = row]
    BY <1>1, Zenon DEF Start
  <2> HIDE DEF todo, listed
  <2>4. row \in Processes
    BY <2>1, <2>2, ProcessUpdates
  <2>5. row.pc = "scanning" /\ row.key = scanner[s].key /\ row.listed = listed /\ row.todo = todo
    BY <2>2 DEF Processes
  <2> HIDE DEF row
  <2>6. QED
    BY <2>3, <2>4, <2>5 DEF Turn, listed, todo
<1>2. CASE ~Owns(s)
  BY <1>2, DropTurn DEF Start
<1>3. QED
  BY <1>1, <1>2

\* The boundaries of a read are times; what lies behind them is activity.
LEMMA BoundaryType ==
  ASSUME TypeOK, Plans, NEW s \in Scanners, NEW p \in scanner[s].todo
  PROVE  Boundary(s, p) \in CursorRows
<1> DEFINE S == {watch[w].since : w \in Group(s, p)}
<1>1. S # {} /\ S \in SUBSET Nat /\ S \in SUBSET (0..MaxTime)
  <2>1. PICK w \in scanner[s].listed : watch[w].repo = p
    BY DEF Plans, Plan
  <2>2. scanner[s].listed \in SUBSET Watches
    BY DEF TypeOK, Processes
  <2>3. Group(s, p) \in SUBSET Watches /\ w \in Group(s, p)
    BY <2>1, <2>2 DEF Group
  <2>4. \A v \in Watches : watch[v].since \in 0..MaxTime /\ watch[v].since \in Nat
    BY ScanAssumptions DEF TypeOK, WatchRows
  <2>5. QED
    BY <2>3, <2>4
<1>2. Oldest(s, p) \in S
  <2>1. \E t \in S : \A u \in S : t <= u
    BY <1>1, LeastNatural
  <2>2. \E t \in S : \A w \in Group(s, p) : t <= watch[w].since
    BY <2>1
  <2>3. QED
    BY <2>2, Zenon DEF Oldest
<1>3. Oldest(s, p) \in 0..MaxTime
  BY <1>1, <1>2
<1>4. p \in Repos /\ cursor[p] \in CursorRows
  BY DEF TypeOK, Processes
<1>5. QED
  BY <1>3, <1>4 DEF Boundary, CursorRows

LEMMA CommitsFromType ==
  ASSUME TypeOK, NEW p \in Repos, NEW from \in CursorRows,
         from.sha = None \/ OnBranch(p, from.sha)
  PROVE  CommitsFrom(p, from) \in SUBSET Commits
<1> DEFINE start == IF from.sha = None THEN 0 ELSE Position(p, from.sha)
<1>1. branch[p] \in Seq(Commits)
  BY DEF TypeOK
<1>2. start \in Nat
  <2>1. CASE from.sha = None \/ from.sha = Root
    BY <2>1 DEF Position
  <2>2. CASE from.sha # None /\ from.sha # Root
    <3>1. \E i \in DOMAIN branch[p] : branch[p][i] = from.sha
      BY <2>2 DEF OnBranch
    <3>2. Position(p, from.sha) \in DOMAIN branch[p]
      BY <2>2, <3>1 DEF Position
    <3>3. QED
      BY <1>1, <2>2, <3>2
  <2>3. QED
    BY <2>1, <2>2
<1> HIDE DEF start
<1>3. \A i \in (start + 1)..Len(branch[p]) : branch[p][i] \in Commits
  BY <1>1, <1>2
<1>4. QED
  BY <1>3 DEF CommitsFrom, start

LEMMA TipType ==
  ASSUME TypeOK, NEW p \in Repos
  PROVE  Tip(p) \in Shas
<1>1. branch[p] \in Seq(Commits)
  BY DEF TypeOK
<1>2. branch[p] # <<>> => branch[p][Len(branch[p])] \in Commits
  BY <1>1
<1>3. QED
  BY <1>2 DEF Tip, Shas

LEMMA YieldType ==
  ASSUME NEW stream \in SUBSET Items, NEW complete \in BOOLEAN,
         NEW part \in Yield(stream, complete)
  PROVE  part \in SUBSET Items
  BY DEF Yield

LEMMA ReadTurn ==
  ASSUME TypeOK, Plans, NEW s \in Scanners, Read(s)
  PROVE  \E row : Turn(s, row) /\ GoesOn(s, row, "read") /\ row.repo \in row.todo
<1> DEFINE Reads(p, releasesDone, commitsDone) ==
             LET from == Boundary(s, p)
                 linear == from.sha = None \/ OnBranch(p, from.sha)
             IN  /\ scanner[s].pc = "scanning" /\ ~scanner[s].lost
                 /\ IF releasesDone /\ commitsDone THEN faults' = faults ELSE Fault
                 /\ \E rs \in Yield(ReleasesFrom(p, from), releasesDone),
                       cs \in Yield(IF linear THEN CommitsFrom(p, from) ELSE {}, commitsDone) :
                      scanner' = [scanner EXCEPT ![s] =
                        [@ EXCEPT !.pc = "read", !.repo = p, !.from = from,
                                  !.signals = rs \cup cs, !.releasesDone = releasesDone,
                                  !.head = IF commitsDone /\ linear THEN Tip(p) ELSE None]]
                 /\ UNCHANGED <<clock, provider, account, watch, cursor, lease, runRow, feed>>
<1>0. \E p \in scanner[s].todo, releasesDone, commitsDone \in BOOLEAN :
        Reads(p, releasesDone, commitsDone)
  BY Zenon DEF Read
<1> HIDE DEF Reads
<1>1. PICK p \in scanner[s].todo, releasesDone \in BOOLEAN, commitsDone \in BOOLEAN :
        Reads(p, releasesDone, commitsDone)
  BY <1>0, Zenon
<1> DEFINE from == Boundary(s, p)
           linear == from.sha = None \/ OnBranch(p, from.sha)
<1>2. PICK rs \in Yield(ReleasesFrom(p, from), releasesDone),
           cs \in Yield(IF linear THEN CommitsFrom(p, from) ELSE {}, commitsDone) :
        scanner' = [scanner EXCEPT ![s] =
          [@ EXCEPT !.pc = "read", !.repo = p, !.from = from, !.signals = rs \cup cs,
                    !.releasesDone = releasesDone,
                    !.head = IF commitsDone /\ linear THEN Tip(p) ELSE None]]
  BY <1>1, Zenon DEF Reads
<1>3. p \in Repos /\ from \in CursorRows /\ scanner[s] \in Processes
  BY BoundaryType DEF TypeOK, Processes
<1> DEFINE head == IF commitsDone /\ linear THEN Tip(p) ELSE None
<1>4. head \in Shas \cup {None}
  BY <1>3, TipType
<1>5. rs \in SUBSET Items /\ cs \in SUBSET Items
  <2>1. ReleasesFrom(p, from) \in SUBSET Items
    BY DEF ReleasesFrom, Items
  <2>2. (IF linear THEN CommitsFrom(p, from) ELSE {}) \in SUBSET Items
    BY <1>3, CommitsFromType DEF Items
  <2> HIDE DEF from, linear
  <2>3. QED
    BY <1>2, <2>1, <2>2, YieldType
<1>a. scanner' = [scanner EXCEPT ![s] =
          [@ EXCEPT !.pc = "read", !.repo = p, !.from = from, !.signals = rs \cup cs,
                    !.releasesDone = releasesDone, !.head = head]]
  BY <1>2
<1> HIDE DEF from, linear, head
<1> DEFINE row == [scanner[s] EXCEPT !.pc = "read", !.repo = p, !.from = from,
                     !.signals = rs \cup cs, !.releasesDone = releasesDone, !.head = head]
<1>6. row \in Processes
  BY <1>3, <1>4, <1>5, ReadRow
<1>7. /\ row.pc = "read" /\ row.repo = p /\ row.key = scanner[s].key
      /\ row.listed = scanner[s].listed /\ row.todo = scanner[s].todo
  BY <1>3 DEF Processes
<1>8. scanner' = [scanner EXCEPT ![s] = row]
  BY <1>a
<1> HIDE DEF row
<1>9. QED
  BY <1>6, <1>7, <1>8 DEF Turn, GoesOn

LEMMA CheckedTurn ==
  ASSUME TypeOK, NEW s \in Scanners, NEW p \in Repos \cup {None}, NEW check \in Checks,
         Checked(s, p, check)
  PROVE  \E row : Turn(s, row) /\ GoesOn(s, row, "checked") /\ row.repo = p
<1> DEFINE row == [scanner[s] EXCEPT !.pc = "checked", !.repo = p, !.check = check,
                     !.from = NoCursor, !.signals = {}, !.releasesDone = FALSE, !.head = None]
<1>1. scanner[s] \in Processes
  BY DEF TypeOK
<1>2. row \in Processes
  BY <1>1, CheckedRow
<1>3. /\ row.pc = "checked" /\ row.repo = p /\ row.key = scanner[s].key
      /\ row.listed = scanner[s].listed /\ row.todo = scanner[s].todo
  BY <1>1 DEF Processes
<1>4. scanner' = [scanner EXCEPT ![s] = row]
  BY DEF Checked
<1> HIDE DEF row
<1>5. QED
  BY <1>2, <1>3, <1>4 DEF Turn, GoesOn

LEMMA RecordTurn ==
  ASSUME TypeOK, NEW s \in Scanners, RecordCheck(s)
  PROVE  \E row : /\ Turn(s, row)
                  /\ \/ Dropped(s, row)
                     \/ /\ row.pc = "scanning" /\ row.key = scanner[s].key
                        /\ row.listed = scanner[s].listed
                        /\ row.todo = scanner[s].todo \ {scanner[s].repo}
<1>1. CASE Owns(s)
  <2> DEFINE a == scanner[s]
             failed == a.failed \/ CountsAsFailed(a.check)
             row == [a EXCEPT !.pc = "scanning", !.todo = a.todo \ {a.repo}, !.repo = None,
                              !.check = "none", !.failed = failed]
  <2>1. a \in Processes /\ a.todo \ {a.repo} \in SUBSET Repos
    BY DEF TypeOK, Processes
  <2>2. failed \in BOOLEAN
    OBVIOUS
  <2>4. scanner' = [scanner EXCEPT ![s] = row]
    BY <1>1, Zenon DEF RecordCheck
  <2> HIDE DEF failed
  <2>5. row \in Processes
    BY <2>1, <2>2, RecordedRow
  <2>6. /\ row.pc = "scanning" /\ row.key = a.key /\ row.listed = a.listed
        /\ row.todo = a.todo \ {a.repo}
    BY <2>1 DEF Processes
  <2> HIDE DEF row
  <2>7. QED
    BY <2>4, <2>5, <2>6 DEF Turn
<1>2. CASE ~Owns(s)
  BY <1>2, DropTurn DEF RecordCheck
<1>3. QED
  BY <1>1, <1>2

-----------------------------------------------------------------------------
(* A publication. *)

\* What a scan publishes for one repository: the events it found and the facts
\* their comparisons confirm.
Publication(s, found, fresh, details, all) ==
  /\ found = EventsOf(s) /\ fresh = FreshReleases(found)
  /\ details \in [{e[2] : e \in fresh} -> SUBSET Commits]
  /\ all = found \cup Supplemental(found, fresh, details)
  /\ events' = events \cup all
  /\ refs' = [e \in DOMAIN refs |-> IF e \in fresh THEN References(e, details) ELSE refs[e]]
  /\ cards' = cards \cup NewCards(all \ events, details, scanner[s].key)

\* A scan publishes under its claim, or is discarded.
LEMMA PersistCases ==
  ASSUME NEW s \in Scanners, Persist(s)
  PROVE  /\ scanner[s].pc = "read"
         /\ UNCHANGED <<clock, provider, account, watch, lease, runRow, faults>>
         /\ \/ Discarded(s) /\ UNCHANGED <<feed, cursor>>
            \/ /\ Owns(s)
               /\ \E found, fresh, details, all : Publication(s, found, fresh, details, all)
               /\ cursor' = [cursor EXCEPT ![scanner[s].repo] = Advanced(s)]
               /\ \E check \in Checks : Checked(s, scanner[s].repo, check)
<1>1. scanner[s].pc = "read" /\ UNCHANGED <<clock, provider, account, watch, lease, runRow, faults>>
  BY Zenon DEF Persist
<1>2. CASE ~Owns(s)
  <2>1. Discarded(s) /\ UNCHANGED <<feed, cursor>>
    BY <1>2, Zenon DEF Persist
  <2>2. QED
    BY <1>1, <2>1
<1>3. CASE Owns(s)
  <2> DEFINE a == scanner[s]
             found == EventsOf(s)
             fresh == FreshReleases(found)
             all(details) == found \cup Supplemental(found, fresh, details)
             Does(details) ==
               /\ events' = events \cup all(details)
               /\ refs' = [e \in DOMAIN refs |-> IF e \in fresh THEN References(e, details)
                                                 ELSE refs[e]]
               /\ cards' = cards \cup NewCards(all(details) \ events, details, a.key)
               /\ cursor' = [cursor EXCEPT ![a.repo] = Advanced(s)]
               /\ Checked(s, a.repo, IF a.releasesDone /\ a.head # None
                                     THEN "succeeded" ELSE "partial")
  <2>1. \E details \in [{e[2] : e \in fresh} -> SUBSET {c \in Commits : Pushed(c)}] :
          Does(details)
    BY <1>3, Zenon DEF Persist
  <2> HIDE DEF Does
  <2>2. PICK details \in [{e[2] : e \in fresh} -> SUBSET {c \in Commits : Pushed(c)}] :
          Does(details)
    BY <2>1
  <2>3. details \in [{e[2] : e \in fresh} -> SUBSET Commits]
    <3>1. SUBSET {c \in Commits : Pushed(c)} \subseteq SUBSET Commits
      OBVIOUS
    <3> HIDE DEF fresh
    <3>2. QED
      BY <3>1
  <2>4. Publication(s, found, fresh, details, all(details))
    BY <2>2, <2>3, Zenon DEF Publication, Does
  <2>5. \E check \in Checks : Checked(s, a.repo, check)
    <3>1. (IF a.releasesDone /\ a.head # None THEN "succeeded" ELSE "partial") \in Checks
      BY DEF Checks
    <3>2. QED
      BY <2>2, <3>1, Zenon DEF Does
  <2>6. cursor' = [cursor EXCEPT ![a.repo] = Advanced(s)]
    BY <2>2, Zenon DEF Does
  <2>7. QED
    BY <1>1, <1>3, <2>4, <2>5, <2>6, Zenon
<1>4. QED
  BY <1>2, <1>3

\* What is published are facts of the watches that were listed; the compared
\* releases are the new ones, and what they refer to is published with them.
LEMMA PublicationFacts ==
  ASSUME TypeOK, Plans, NEW s \in Scanners, scanner[s].pc = "read", NEW found, NEW fresh,
         NEW details, NEW all, Publication(s, found, fresh, details, all)
  PROVE  /\ all \in SUBSET Events
         /\ \A e \in all : /\ e[1] \in scanner[s].listed
                           /\ watch[e[1]].repo = scanner[s].repo
         /\ fresh = {e \in all \ events : IsRelease(e)}
         /\ \A e \in fresh : /\ References(e, details) = {<<e[1], c>> : c \in details[e[2]]}
                             /\ References(e, details) \in SUBSET all
                             /\ \A f \in References(e, details) : f[1] = e[1] /\ ~IsRelease(f)
<1> DEFINE a == scanner[s]
<1>1. found \in SUBSET Events
  <2>1. a.signals \in SUBSET Items /\ Group(s, a.repo) \in SUBSET Watches
    BY DEF TypeOK, Processes, Group
  <2>2. QED
    BY <2>1 DEF Publication, EventsOf, Events
<1>2. \A e \in found : e[1] \in a.listed /\ watch[e[1]].repo = a.repo
  BY DEF Publication, EventsOf, Group
<1>3. fresh = {e \in found \ events : IsRelease(e)}
  BY DEF Publication, FreshReleases
<1>4. ASSUME NEW e \in fresh
      PROVE  /\ References(e, details) = {<<e[1], c>> : c \in details[e[2]]}
             /\ References(e, details) \in SUBSET Events
             /\ \A f \in References(e, details) : f[1] = e[1] /\ ~IsRelease(f)
  <2>1. e \in Events /\ IsRelease(e) /\ e[1] \in Watches
    BY <1>1, <1>3 DEF Events
  <2>2. References(e, details) = {<<e[1], c>> : c \in details[e[2]]}
    BY <2>1 DEF References
  <2>3. details[e[2]] \in SUBSET Commits
    BY DEF Publication
  <2>4. QED
    BY <2>1, <2>2, <2>3, FeedAssumptions DEF Events, Items, IsRelease
<1>5. all = found \cup ((UNION {References(e, details) : e \in fresh}) \ found)
  BY DEF Publication, Supplemental
<1>6. \A x \in all : x \in found \/ \E e \in fresh : x \in References(e, details)
  BY <1>5
<1>7. ASSUME NEW e \in fresh
      PROVE  References(e, details) \in SUBSET all
  <2> DEFINE U == {References(x, details) : x \in fresh}
  <2>1. References(e, details) \in U
    BY <1>7, Zenon
  <2> HIDE DEF U
  <2>2. all = found \cup ((UNION U) \ found)
    BY <1>5, Zenon DEF U
  <2>3. ASSUME NEW f \in References(e, details)
        PROVE  f \in all
    <3>1. \E S \in U : f \in S
      BY <2>1, <2>3
    <3>2. f \in UNION U
      BY <3>1
    <3>3. QED
      BY <2>2, <3>2
  <2>4. QED
    BY <2>3
<1>8. all \in SUBSET Events
  BY <1>1, <1>4, <1>6
<1>9. \A e \in all : e[1] \in a.listed /\ watch[e[1]].repo = a.repo
  BY <1>2, <1>3, <1>4, <1>6
<1>10. fresh = {e \in all \ events : IsRelease(e)}
  BY <1>3, <1>4, <1>5, <1>6
<1>11. QED
  BY <1>4, <1>7, <1>8, <1>9, <1>10

-----------------------------------------------------------------------------
(* The grouping policy. *)

\* The commits that go on no release card.
Loose(new, details) ==
  {e \in new : ~IsRelease(e) /\ Cardinality(Claimants(e, new, details)) # 1}

ReleaseCard(r, new, details) ==
  [id |-> <<r[1], "release", r[2]>>,
   members |-> {r} \cup {e \in new : Claimants(e, new, details) = {r}}]
CommitsCard(w, new, details, key) ==
  [id |-> <<w, "commits", key>>, members |-> {e \in Loose(new, details) : e[1] = w}]

LEMMA NewCardKinds ==
  ASSUME NEW new, NEW details, NEW key
  PROVE  NewCards(new, details, key) =
           {ReleaseCard(r, new, details) : r \in {e \in new : IsRelease(e)}}
           \cup {CommitsCard(w, new, details, key) : w \in {e[1] : e \in Loose(new, details)}}
  BY Zenon DEF NewCards, ReleaseCard, CommitsCard, Loose

\* A card of new events: of one watch, and either of one release with commits
\* that it refers to, or of commits and named after the publication.
WellFormed(g, new, details, key) ==
  /\ g.members # {} /\ g.members \subseteq new
  /\ \A e \in g.members : e[1] = g.id[1]
  /\ {e[2] : e \in {x \in g.members : IsRelease(x)}} =
       (IF g.id[2] = "release" THEN {g.id[3]} ELSE {})
  /\ \/ /\ g.id[2] = "release" /\ <<g.id[1], g.id[3]>> \in new
        /\ IsRelease(<<g.id[1], g.id[3]>>)
        /\ {e \in g.members : ~IsRelease(e)} \subseteq
             References(<<g.id[1], g.id[3]>>, details)
     \/ g.id[2] = "commits" /\ g.id[3] = key

\* The cards of new events partition them, one for each release and for the rest
\* of each watch; a release card holds only what that release refers to.
LEMMA NewCardsPartition ==
  ASSUME NEW new \in SUBSET Events, NEW details, NEW key \in Nat, IsFiniteSet(new),
         \A r \in new : IsRelease(r) =>
           \A f \in References(r, details) : f[1] = r[1] /\ ~IsRelease(f)
  PROVE  LET N == NewCards(new, details, key) IN
         /\ N \in SUBSET Cards
         /\ \A e \in new : \E g \in N : e \in g.members
         /\ \A g, h \in N : g.id = h.id \/ g.members \cap h.members # {} => g = h
         /\ \A g \in N : WellFormed(g, new, details, key)
<1> DEFINE N == NewCards(new, details, key)
           C(e) == Claimants(e, new, details)
           L == Loose(new, details)
           RC(r) == ReleaseCard(r, new, details)
           CC(w) == CommitsCard(w, new, details, key)
<1>1. \A e \in new : /\ e[1] \in Watches /\ e = <<e[1], e[2]>>
                     /\ (IsRelease(e) <=> e[2] \in Releases)
                     /\ (~IsRelease(e) => e[2] \in Commits)
  BY FeedAssumptions DEF Events, Items, IsRelease
<1>2. \A e \in new : \A r \in C(e) : /\ r \in new /\ IsRelease(r)
                                     /\ e \in References(r, details)
                                     /\ ~IsRelease(e) /\ e[1] = r[1]
  BY DEF Claimants, References
<1>3. \A g \in N : \/ \E r \in new : IsRelease(r) /\ g = RC(r)
                   \/ \E w \in Watches, x \in L : x[1] = w /\ g = CC(w)
  <2>1. L \in SUBSET new
    BY DEF Loose
  <2> HIDE DEF L, RC, CC
  <2>2. N = {RC(r) : r \in {e \in new : IsRelease(e)}} \cup {CC(w) : w \in {e[1] : e \in L}}
    BY NewCardKinds DEF L, RC, CC
  <2> HIDE DEF N
  <2>3. QED
    BY <1>1, <2>1, <2>2
<1>4. \A r \in new : IsRelease(r) => RC(r) \in N
  BY NewCardKinds
<1>5. \A x \in L : CC(x[1]) \in N
  BY NewCardKinds
<1>6. ASSUME NEW r \in new, IsRelease(r)
      PROVE  /\ RC(r).id = <<r[1], "release", r[2]>>
             /\ RC(r).members = {r} \cup {e \in new : C(e) = {r}}
             /\ RC(r) \in Cards
             /\ \A e \in RC(r).members : e = r \/ (~IsRelease(e) /\ C(e) = {r})
  <2>1. RC(r).id = <<r[1], "release", r[2]>>
        /\ RC(r).members = {r} \cup {e \in new : C(e) = {r}}
    BY DEF ReleaseCard
  <2>2. \A e \in new : C(e) = {r} => ~IsRelease(e)
    BY <1>2
  <2>3. <<r[1], "release", r[2]>> \in CardIds
    BY <1>1, <1>6 DEF CardIds
  <2>4. RC(r).members \in SUBSET Events
    BY <2>1
  <2>5. RC(r) \in Cards
    BY <2>1, <2>3, <2>4 DEF ReleaseCard, Cards
  <2> HIDE DEF RC, C
  <2>6. QED
    BY <2>1, <2>2, <2>5
<1>7. ASSUME NEW w \in Watches
      PROVE  /\ CC(w).id = <<w, "commits", key>>
             /\ CC(w).members = {e \in L : e[1] = w}
             /\ CC(w) \in Cards
             /\ \A e \in CC(w).members : e \in new /\ ~IsRelease(e) /\ Cardinality(C(e)) # 1
  <2>1. CC(w).id = <<w, "commits", key>> /\ CC(w).members = {e \in L : e[1] = w}
    BY DEF CommitsCard
  <2>2. \A e \in L : e \in new /\ ~IsRelease(e) /\ Cardinality(C(e)) # 1
    BY DEF Loose
  <2>3. <<w, "commits", key>> \in CardIds
    BY DEF CardIds
  <2>4. CC(w).members \in SUBSET Events
    BY <2>1, <2>2
  <2>5. CC(w) \in Cards
    BY <2>1, <2>3, <2>4 DEF CommitsCard, Cards
  <2> HIDE DEF CC, L, C
  <2>6. QED
    BY <2>1, <2>2, <2>5
<1>8. \A r : Cardinality({r}) = 1
  BY FS_Singleton
<1> HIDE DEF N, C, L, RC, CC
<1>9. N \in SUBSET Cards
  BY <1>3, <1>6, <1>7
<1>10. ASSUME NEW e \in new
       PROVE  \E g \in N : e \in g.members
  <2>1. CASE IsRelease(e)
    BY <1>4, <1>6, <2>1
  <2>2. CASE ~IsRelease(e) /\ Cardinality(C(e)) = 1
    <3>1. IsFiniteSet(C(e))
      BY FS_Subset DEF C, Claimants
    <3>2. PICK r : C(e) = {r}
      BY <2>2, <3>1, FS_Singleton
    <3>3. r \in new /\ IsRelease(r)
      BY <1>2, <3>2
    <3>4. QED
      BY <1>4, <1>6, <3>2, <3>3
  <2>3. CASE ~IsRelease(e) /\ Cardinality(C(e)) # 1
    <3>1. e \in L
      BY <2>3 DEF L, C, Loose
    <3>2. QED
      BY <1>1, <1>5, <1>7, <3>1
  <2>4. QED
    BY <2>1, <2>2, <2>3
<1>11. ASSUME NEW g \in N, NEW h \in N, g.id = h.id \/ g.members \cap h.members # {}
       PROVE  g = h
  <2>1. CASE \E r \in new, q \in new : IsRelease(r) /\ IsRelease(q) /\ g = RC(r) /\ h = RC(q)
    <3>1. PICK r \in new, q \in new : IsRelease(r) /\ IsRelease(q) /\ g = RC(r) /\ h = RC(q)
      BY <2>1
    <3>2. CASE g.id = h.id
      <4>1. r[1] = q[1] /\ r[2] = q[2]
        BY <1>6, <3>1, <3>2
      <4>2. r = q
        BY <1>1, <4>1
      <4>3. QED
        BY <3>1, <4>2
    <3>3. CASE g.members \cap h.members # {}
      <4>1. PICK e : e \in RC(r).members /\ e \in RC(q).members
        BY <3>1, <3>3
      <4>2. e = r \/ (~IsRelease(e) /\ C(e) = {r})
        BY <1>6, <3>1, <4>1
      <4>3. e = q \/ (~IsRelease(e) /\ C(e) = {q})
        BY <1>6, <3>1, <4>1
      <4>4. r = q
        BY <3>1, <4>2, <4>3
      <4>5. QED
        BY <3>1, <4>4
    <3>4. QED
      BY <1>11, <3>2, <3>3
  <2>2. ASSUME NEW r \in new, NEW w \in Watches, IsRelease(r)
        PROVE  RC(r).id # CC(w).id /\ RC(r).members \cap CC(w).members = {}
    <3>1. RC(r).id # CC(w).id
      BY <1>6, <1>7, <2>2
    <3>2. \A e \in RC(r).members : e \notin CC(w).members
      BY <1>6, <1>7, <1>8, <2>2
    <3>3. QED
      BY <3>1, <3>2
  <2>3. CASE \E w \in Watches, v \in Watches : g = CC(w) /\ h = CC(v)
    <3>1. PICK w \in Watches, v \in Watches : g = CC(w) /\ h = CC(v)
      BY <2>3
    <3>2. w = v
      BY <1>7, <1>11, <3>1
    <3>3. QED
      BY <3>1, <3>2
  <2>4. QED
    BY <1>3, <1>11, <2>1, <2>2, <2>3
<1>12. ASSUME NEW g \in N
       PROVE  /\ g.members # {} /\ g.members \subseteq new
              /\ \A e \in g.members : e[1] = g.id[1]
              /\ {e[2] : e \in {x \in g.members : IsRelease(x)}} =
                   (IF g.id[2] = "release" THEN {g.id[3]} ELSE {})
              /\ \/ /\ g.id[2] = "release" /\ <<g.id[1], g.id[3]>> \in new
                    /\ IsRelease(<<g.id[1], g.id[3]>>)
                    /\ {e \in g.members : ~IsRelease(e)} \subseteq
                         References(<<g.id[1], g.id[3]>>, details)
                 \/ g.id[2] = "commits" /\ g.id[3] = key
  <2>1. CASE \E r \in new : IsRelease(r) /\ g = RC(r)
    <3>1. PICK r \in new : IsRelease(r) /\ g = RC(r)
      BY <2>1
    <3>2. g.id[1] = r[1] /\ g.id[2] = "release" /\ g.id[3] = r[2] /\ <<g.id[1], g.id[3]>> = r
      BY <1>1, <1>6, <3>1
    <3>3. r \in g.members /\ g.members \subseteq new
      BY <1>6, <3>1
    <3>4. \A e \in g.members : e = r \/ (~IsRelease(e) /\ C(e) = {r})
      BY <1>6, <3>1
    <3>5. \A e \in g.members : e = r \/ (~IsRelease(e) /\ e[1] = r[1] /\ e \in References(r, details))
      BY <1>2, <3>3, <3>4
    <3>6. {x \in g.members : IsRelease(x)} = {r}
      BY <3>1, <3>3, <3>4
    <3>7. {e[2] : e \in {x \in g.members : IsRelease(x)}} = {g.id[3]}
      BY <3>2, <3>6
    <3>8. {e \in g.members : ~IsRelease(e)} \subseteq References(r, details)
      BY <3>1, <3>5
    <3>9. QED
      BY <3>1, <3>2, <3>3, <3>5, <3>7, <3>8
  <2>2. CASE \E w \in Watches, x \in L : x[1] = w /\ g = CC(w)
    <3>1. PICK w \in Watches, x \in L : x[1] = w /\ g = CC(w)
      BY <2>2
    <3>2. g.id = <<w, "commits", key>> /\ g.members = {e \in L : e[1] = w}
      BY <1>7, <3>1
    <3>3. \A e \in g.members : e \in new /\ ~IsRelease(e)
      BY <1>7, <3>1
    <3>4. x \in g.members
      BY <3>1, <3>2
    <3>5. {y \in g.members : IsRelease(y)} = {}
      BY <3>3
    <3>6. {e[2] : e \in {y \in g.members : IsRelease(y)}} = {}
      BY <3>5
    <3>7. QED
      BY <3>2, <3>3, <3>4, <3>6
  <2>3. QED
    BY <1>3, <2>1, <2>2
<1>13. \A g \in N : WellFormed(g, new, details, key)
  BY <1>12, Zenon DEF WellFormed
<1>14. QED
  BY <1>9, <1>10, <1>11, <1>13 DEF N

\* They are finitely many.
LEMMA NewCardsFinite ==
  ASSUME NEW new, NEW details, NEW key, IsFiniteSet(new)
  PROVE  IsFiniteSet(NewCards(new, details, key))
<1> DEFINE R == {e \in new : IsRelease(e)}
           L == Loose(new, details)
           fr == [r \in R |-> ReleaseCard(r, new, details)]
           fl == [e \in L |-> CommitsCard(e[1], new, details, key)]
<1>1. IsFiniteSet(R) /\ IsFiniteSet(L)
  <2>1. R \in SUBSET new /\ L \in SUBSET new
    BY DEF Loose
  <2> HIDE DEF R, L
  <2>2. QED
    BY <2>1, FS_Subset
<1>2. IsFiniteSet({fr[r] : r \in DOMAIN fr}) /\ IsFiniteSet({fl[e] : e \in DOMAIN fl})
  BY <1>1, FiniteImage
<1>3. NewCards(new, details, key) = {fr[r] : r \in DOMAIN fr} \cup {fl[e] : e \in DOMAIN fl}
  <2>1. {fr[r] : r \in DOMAIN fr} = {ReleaseCard(r, new, details) : r \in R}
    OBVIOUS
  <2>2. {fl[e] : e \in DOMAIN fl} =
          {CommitsCard(w, new, details, key) : w \in {e[1] : e \in L}}
    <3> HIDE DEF L
    <3>1. QED
      OBVIOUS
  <2> HIDE DEF fr, fl, L
  <2>3. NewCards(new, details, key) =
          {ReleaseCard(r, new, details) : r \in R}
          \cup {CommitsCard(w, new, details, key) : w \in {e[1] : e \in L}}
    BY NewCardKinds, Zenon DEF L
  <2> HIDE DEF R
  <2>4. QED
    BY <2>1, <2>2, <2>3, Zenon
<1> HIDE DEF R, L, fr, fl
<1> DEFINE A == {fr[r] : r \in DOMAIN fr}
           B == {fl[e] : e \in DOMAIN fl}
<1>4. IsFiniteSet(A) /\ IsFiniteSet(B) /\ NewCards(new, details, key) = A \cup B
  BY <1>2, <1>3
<1> HIDE DEF A, B
<1>5. QED
  BY <1>4, FS_Union

-----------------------------------------------------------------------------
(* Type correctness. *)

\* A checkpoint moves to a time.
LEMMA LatestType ==
  ASSUME TypeOK, NEW signals \in SUBSET Items, NEW bound \in 0..MaxTime
  PROVE  /\ Latest(signals, bound) \in 0..MaxTime /\ Latest(signals, bound) >= bound
         /\ Latest(signals, bound) \in {bound} \cup {TimeOf(i) : i \in signals}
<1> DEFINE S == {bound} \cup {TimeOf(i) : i \in signals}
<1>1. \A i \in Items : TimeOf(i) \in 0..MaxTime
  BY DEF TypeOK, TimeOf, Items
<1>2. S \in SUBSET (0..MaxTime) /\ S # {} /\ bound \in S /\ \A i \in signals : TimeOf(i) \in S
  BY <1>1
<1> HIDE DEF S
<1>3. PICK t \in S : \A y \in S : y <= t
  BY <1>2, GreatestNatural, ScanAssumptions
<1>4. t >= bound /\ \A i \in signals : TimeOf(i) <= t
  <2>1. bound <= t /\ t \in Int /\ bound \in Int
    BY <1>2, <1>3
  <2>2. QED
    BY <1>2, <1>3, <2>1
<1>5. \E u \in S : u >= bound /\ \A i \in signals : TimeOf(i) <= u
  BY <1>3, <1>4
<1>6. Latest(signals, bound) \in S /\ Latest(signals, bound) >= bound
  BY <1>5, Zenon DEF Latest, S
<1>7. QED
  BY <1>2, <1>6 DEF S

LEMMA AdvancedType ==
  ASSUME TypeOK, Plans, NEW s \in Scanners, scanner[s].pc = "read"
  PROVE  scanner[s].repo \in Repos /\ Advanced(s) \in CursorRows
<1> DEFINE a == scanner[s]
<1>1. /\ a.signals \in SUBSET Items /\ a.from \in CursorRows /\ a.head \in Shas \cup {None}
      /\ a.todo \in SUBSET Repos
  BY DEF TypeOK, Processes
<1>2. a.repo \in Repos /\ cursor[a.repo] \in CursorRows
  BY <1>1 DEF Plans, Plan, TypeOK
<1>3. a.from.release \in 0..MaxTime /\ a.from.commit \in 0..MaxTime
  BY <1>1 DEF CursorRows
<1>4. /\ Latest(a.signals \cap Releases, a.from.release) \in 0..MaxTime
      /\ Latest(a.signals \cap Commits, a.from.commit) \in 0..MaxTime
  BY <1>1, <1>3, LatestType
<1> DEFINE release == IF a.releasesDone THEN Latest(a.signals \cap Releases, a.from.release)
                      ELSE cursor[a.repo].release
           commit == IF a.head # None THEN Latest(a.signals \cap Commits, a.from.commit)
                     ELSE cursor[a.repo].commit
           sha == IF a.head # None THEN a.head ELSE cursor[a.repo].sha
<1>5. release \in 0..MaxTime /\ commit \in 0..MaxTime /\ sha \in Shas \cup {None}
  BY <1>1, <1>2, <1>4 DEF CursorRows
<1>6. Advanced(s) = [release |-> release, commit |-> commit, sha |-> sha]
  BY Zenon DEF Advanced
<1> HIDE DEF release, commit, sha
<1>7. QED
  BY <1>2, <1>5, <1>6 DEF CursorRows

\* What a publication adds has the types of a Feed.
LEMMA FeedType ==
  ASSUME TypeOK, Plans, NEW s \in Scanners, scanner[s].pc = "read", NEW found, NEW fresh,
         NEW details, NEW all, Publication(s, found, fresh, details, all)
  PROVE  /\ events' \subseteq Events /\ cards' \subseteq Cards
         /\ refs' \in [Watches \X Releases -> SUBSET Events]
         /\ NewCards(all \ events, details, scanner[s].key) \in SUBSET Cards
         /\ IsFiniteSet(all \ events)
<1>1. /\ all \in SUBSET Events
      /\ fresh = {e \in all \ events : IsRelease(e)}
      /\ \A e \in fresh : /\ References(e, details) \in SUBSET all
                          /\ \A f \in References(e, details) : f[1] = e[1] /\ ~IsRelease(f)
  BY PublicationFacts
<1> DEFINE new == all \ events
<1>2. new \in SUBSET Events /\ scanner[s].key \in Nat
  BY <1>1 DEF TypeOK, Processes
<1>3. IsFiniteSet(new)
  <2>1. IsFiniteSet(Events)
    BY ScanAssumptions, FS_Product DEF Events
  <2>2. QED
    BY <1>2, <2>1, FS_Subset
<1>4. NewCards(new, details, scanner[s].key) \in SUBSET Cards
  BY <1>1, <1>2, <1>3, NewCardsPartition
<1>5. \A e \in Watches \X Releases :
        (IF e \in fresh THEN References(e, details) ELSE refs[e]) \in SUBSET Events
  BY <1>1 DEF TypeOK
<1>6. refs' \in [Watches \X Releases -> SUBSET Events]
  <2>1. DOMAIN refs = Watches \X Releases
    BY DEF TypeOK
  <2>2. refs' = [e \in Watches \X Releases |-> IF e \in fresh THEN References(e, details)
                                               ELSE refs[e]]
    BY <2>1 DEF Publication
  <2>3. QED
    BY <1>5, <2>2
<1>7. events' \subseteq Events /\ cards' \subseteq Cards
  BY <1>1, <1>4 DEF Publication, TypeOK
<1>8. QED
  BY <1>3, <1>4, <1>6, <1>7

-----------------------------------------------------------------------------
(* The steps of a scan process. *)

\* What a step of process s makes of its row and of the Feed.
Ends(s, row) == row = Idle /\ UNCHANGED feed
GivesUp(s, row) == scanner[s].pc # "idle" /\ Dropped(s, row) /\ UNCHANGED feed
LosesLease(s, row) == /\ GoesOn(s, row, scanner[s].pc) /\ row.repo = scanner[s].repo
                      /\ UNCHANGED feed
Begins(s, row) == /\ scanner[s].pc = "idle" /\ row.pc = "acquired" /\ row.key = NewKey
                  /\ row.listed = {} /\ row.todo = {} /\ UNCHANGED feed
Lists(s, row) == /\ scanner[s].pc = "acquired" /\ row.pc = "scanning"
                 /\ row.key = scanner[s].key
                 /\ row.listed = {w \in Watches : Live(w)}
                 /\ row.todo = {watch[w].repo : w \in row.listed} /\ UNCHANGED feed
Reads(s, row) == /\ scanner[s].pc = "scanning" /\ GoesOn(s, row, "read")
                 /\ row.repo \in row.todo /\ UNCHANGED feed
Misses(s, row) == /\ scanner[s].pc \in {"scanning", "read"} /\ GoesOn(s, row, "checked")
                  /\ row.repo \in row.todo /\ UNCHANGED feed
Publishes(s, row) ==
  /\ scanner[s].pc = "read" /\ GoesOn(s, row, "checked") /\ row.repo = scanner[s].repo
  /\ \E found, fresh, details, all : Publication(s, found, fresh, details, all)
Records(s, row) == /\ scanner[s].pc = "checked" /\ row.pc = "scanning"
                   /\ row.key = scanner[s].key /\ row.listed = scanner[s].listed
                   /\ row.todo = scanner[s].todo \ {scanner[s].repo} /\ UNCHANGED feed

Move(s, row) == \/ Ends(s, row) \/ GivesUp(s, row) \/ LosesLease(s, row) \/ Begins(s, row)
                \/ Lists(s, row) \/ Reads(s, row) \/ Misses(s, row) \/ Publishes(s, row)
                \/ Records(s, row)

Moves(s) == \E row : Turn(s, row) /\ Move(s, row)

\* A process takes one of these steps, or its renewal leaves it as it is.
LEMMA ScanMoves ==
  ASSUME TypeOK, Working, NEW s \in Scanners, Scan(s) \/ Renew(s) \/ ScanFails(s)
  PROVE  UNCHANGED <<watch, account>> /\ (Moves(s) \/ UNCHANGED <<scanner, feed>>)
<1>0. Watched /\ Plans /\ IsFiniteSet(cards)
  BY DEF Working, Names
<1>1. ASSUME Discarded(s), UNCHANGED feed, scanner[s].pc # "idle"
      PROVE  Moves(s)
  BY <1>1, DropTurn DEF Moves, Move, GivesUp
<1>2. CASE Acquire(s)
  BY <1>0, <1>2, AcquireTurn DEF Acquire, Moves, Move, Begins
<1>3. CASE Start(s)
  <2>1. scanner[s].pc = "acquired" /\ UNCHANGED <<watch, account, feed>>
    BY <1>3 DEF Start
  <2>2. PICK row : /\ Turn(s, row)
                   /\ \/ Dropped(s, row)
                      \/ /\ row.pc = "scanning" /\ row.key = scanner[s].key
                         /\ row.listed = {w \in Watches : Live(w)}
                         /\ row.todo = {watch[w].repo : w \in row.listed}
    BY <1>0, <1>3, StartTurn
  <2>3. GivesUp(s, row) \/ Lists(s, row)
    BY <2>1, <2>2, Zenon DEF GivesUp, Lists
  <2>4. QED
    BY <2>1, <2>2, <2>3 DEF Moves, Move
<1>4. CASE Read(s)
  <2>1. scanner[s].pc = "scanning" /\ UNCHANGED <<watch, account, feed>>
    BY <1>4, Zenon DEF Read
  <2>2. PICK row : Turn(s, row) /\ GoesOn(s, row, "read") /\ row.repo \in row.todo
    BY <1>0, <1>4, ReadTurn
  <2>3. QED
    BY <2>1, <2>2 DEF Moves, Move, Reads
<1>5. CASE Persist(s)
  <2>1. /\ scanner[s].pc = "read" /\ UNCHANGED <<watch, account>>
        /\ \/ Discarded(s) /\ UNCHANGED <<feed, cursor>>
           \/ /\ \E found, fresh, details, all : Publication(s, found, fresh, details, all)
              /\ \E check \in Checks : Checked(s, scanner[s].repo, check)
    BY <1>5, PersistCases
  <2>2. CASE Discarded(s) /\ UNCHANGED <<feed, cursor>>
    BY <1>1, <2>1, <2>2
  <2>3. CASE /\ \E found, fresh, details, all : Publication(s, found, fresh, details, all)
             /\ \E check \in Checks : Checked(s, scanner[s].repo, check)
    <3>1. scanner[s].repo \in Repos \cup {None}
      BY DEF TypeOK, Processes
    <3>2. PICK row : Turn(s, row) /\ GoesOn(s, row, "checked") /\ row.repo = scanner[s].repo
      BY <2>3, <3>1, CheckedTurn
    <3>3. Publishes(s, row)
      BY <2>1, <2>3, <3>2, Zenon DEF Publishes
    <3>4. QED
      BY <2>1, <3>2, <3>3 DEF Moves, Move
  <2>4. QED
    BY <2>1, <2>2, <2>3
<1>6. CASE RecordCheck(s)
  <2>1. scanner[s].pc = "checked" /\ UNCHANGED <<watch, account, feed>>
    BY <1>6 DEF RecordCheck
  <2>2. PICK row : /\ Turn(s, row)
                   /\ \/ Dropped(s, row)
                      \/ /\ row.pc = "scanning" /\ row.key = scanner[s].key
                         /\ row.listed = scanner[s].listed
                         /\ row.todo = scanner[s].todo \ {scanner[s].repo}
    BY <1>6, RecordTurn
  <2>3. GivesUp(s, row) \/ Records(s, row)
    BY <2>1, <2>2 DEF GivesUp, Records
  <2>4. QED
    BY <2>1, <2>2, <2>3 DEF Moves, Move
<1>7. CASE Finish(s)
  BY <1>1, <1>7 DEF Finish
<1>8. CASE Discard(s)
  BY <1>1, <1>8 DEF Discard
<1>9. CASE Release(s) \/ Crash(s)
  <2>1. scanner' = [scanner EXCEPT ![s] = Idle] /\ UNCHANGED <<watch, account, feed>>
    BY <1>9 DEF Release, Crash
  <2>2. Turn(s, Idle) /\ Ends(s, Idle)
    BY <2>1, IdleType DEF Turn, Ends
  <2>3. QED
    BY <2>1, <2>2 DEF Moves, Move
<1>10. ASSUME scanner' = [scanner EXCEPT ![s].lost = TRUE], UNCHANGED feed
       PROVE  Moves(s)
  BY <1>10, LostTurn DEF Moves, Move, LosesLease
<1>11. CASE Renew(s)
  <2>1. CASE Owns(s)
    BY <1>11, <2>1 DEF Renew
  <2>2. CASE ~Owns(s)
    BY <1>10, <1>11, <2>2 DEF Renew
  <2>3. QED
    BY <2>1, <2>2
<1>12. CASE RenewFails(s)
  BY <1>10, <1>12 DEF RenewFails
<1>13. CASE RepositoryFails(s)
  <2>1. UNCHANGED <<watch, account, feed>>
    BY <1>13 DEF RepositoryFails
  <2>2. \/ scanner[s].pc = "read" /\ Checked(s, scanner[s].repo, "failed")
        \/ /\ scanner[s].pc = "scanning"
           /\ \E p \in scanner[s].todo : Checked(s, p, "failed")
    BY <1>13, Zenon DEF RepositoryFails
  <2>3. scanner[s].pc = "read" => scanner[s].repo \in scanner[s].todo
    BY <1>0 DEF Plans, Plan
  <2>4. PICK p \in scanner[s].todo : Checked(s, p, "failed") /\ scanner[s].pc \in {"scanning", "read"}
    BY <2>2, <2>3
  <2>5. p \in Repos \cup {None} /\ "failed" \in Checks
    BY DEF TypeOK, Processes, Checks
  <2>6. PICK row : Turn(s, row) /\ GoesOn(s, row, "checked") /\ row.repo = p
    BY <2>4, <2>5, CheckedTurn
  <2>7. Misses(s, row)
    BY <2>1, <2>4, <2>6 DEF Misses, GoesOn
  <2>8. QED
    BY <2>1, <2>6, <2>7 DEF Moves, Move
<1>14. CASE RunFails(s)
  <2>1. Discarded(s) /\ scanner[s].pc # "idle" /\ UNCHANGED <<watch, account, feed>>
    BY <1>14, Zenon DEF RunFails
  <2>2. QED
    BY <1>1, <2>1
<1>15. QED
  BY <1>2, <1>3, <1>4, <1>5, <1>6, <1>7, <1>8, <1>9, <1>11, <1>12, <1>13, <1>14
     DEF Scan, ScanFails

-----------------------------------------------------------------------------
(* The lists, identifiers and names stay in order. *)

\* The row of s is the new one, and the others are as they were.
LEMMA TurnRows ==
  ASSUME TypeOK, NEW s \in Scanners, NEW row, Turn(s, row)
  PROVE  scanner'[s] = row /\ \A t \in Scanners : t # s => scanner'[t] = scanner[t]
  BY DEF Turn, TypeOK

\* What is added to the cards of a Feed by a publication.
LEMMA PublishedCards ==
  ASSUME TypeOK, Working, NEW s \in Scanners, NEW row, Publishes(s, row)
  PROVE  \E N : /\ cards' = cards \cup N /\ IsFiniteSet(N) /\ N \in SUBSET Cards
                /\ \A g \in N : /\ g.id[1] \in scanner[s].listed
                                /\ watch[g.id[1]].repo = scanner[s].repo
                                /\ g.id[2] = "release"
                                     \/ (g.id[2] = "commits" /\ g.id[3] = scanner[s].key)
<1>0. Plans
  BY DEF Working
<1>1. PICK found, fresh, details, all : Publication(s, found, fresh, details, all)
  BY DEF Publishes
<1>2. scanner[s].pc = "read"
  BY DEF Publishes
<1> DEFINE new == all \ events
           N == NewCards(new, details, scanner[s].key)
<1>3. /\ all \in SUBSET Events
      /\ \A e \in all : e[1] \in scanner[s].listed /\ watch[e[1]].repo = scanner[s].repo
      /\ fresh = {e \in all \ events : IsRelease(e)}
      /\ \A e \in fresh : \A f \in References(e, details) : f[1] = e[1] /\ ~IsRelease(f)
  BY <1>0, <1>1, <1>2, PublicationFacts
<1>4. IsFiniteSet(new) /\ N \in SUBSET Cards
  BY <1>0, <1>1, <1>2, FeedType
<1>5. scanner[s].key \in Nat
  BY DEF TypeOK, Processes
<1>6. \A g \in N : /\ g.members # {} /\ g.members \subseteq new
                   /\ \A e \in g.members : e[1] = g.id[1]
                   /\ g.id[2] = "release" \/ (g.id[2] = "commits" /\ g.id[3] = scanner[s].key)
  <2>1. new \in SUBSET Events
    BY <1>3
  <2>2. \A r \in new : IsRelease(r) =>
          \A f \in References(r, details) : f[1] = r[1] /\ ~IsRelease(f)
    BY <1>3
  <2> DEFINE key == scanner[s].key
  <2>3. IsFiniteSet(new) /\ key \in Nat
    BY <1>4, <1>5
  <2> HIDE DEF new, key, N
  <2>4. \A g \in NewCards(new, details, key) : WellFormed(g, new, details, key)
    BY <2>1, <2>2, <2>3, NewCardsPartition
  <2>5. QED
    BY <2>4 DEF N, key, WellFormed
<1>7. IsFiniteSet(N)
  BY <1>4, NewCardsFinite
<1>8. cards' = cards \cup N
  BY <1>1 DEF Publication
<1> HIDE DEF N
<1>9. QED
  BY <1>3, <1>4, <1>6, <1>7, <1>8

\* A step of a process keeps them.
LEMMA MoveKeepsWorking ==
  ASSUME TypeOK, Working, UNCHANGED watch, NEW s \in Scanners, NEW row,
         Turn(s, row), Move(s, row)
  PROVE  Working'
<1>0. Watched /\ Plans /\ Keys /\ Names /\ IsFiniteSet(cards)
  BY DEF Working, Names
<1>1. scanner'[s] = row /\ \A t \in Scanners : t # s => scanner'[t] = scanner[t]
  BY TurnRows
<1>2. /\ \A t \in Scanners : scanner[t] \in Processes
      /\ row \in Processes
      /\ scanner[s].listed \in SUBSET Watches /\ scanner[s].todo \in SUBSET Repos
  BY DEF TypeOK, Turn, Processes
<1>3. PICK N : /\ cards' = cards \cup N /\ IsFiniteSet(N)
               /\ N # {} => Publishes(s, row)
               /\ \A g \in N : /\ g.id[1] \in scanner[s].listed
                               /\ watch[g.id[1]].repo = scanner[s].repo
                               /\ g.id[2] = "release"
                                    \/ (g.id[2] = "commits" /\ g.id[3] = scanner[s].key)
  <2>1. CASE Publishes(s, row)
    BY <2>1, PublishedCards
  <2>2. CASE ~Publishes(s, row)
    <3>1. cards' = cards \cup {} /\ IsFiniteSet({})
      BY <2>2, FS_EmptySet DEF Move, Ends, GivesUp, LosesLease, Begins, Lists, Reads, Misses,
                               Records, feed
    <3>2. QED
      BY <3>1
  <2>3. QED
    BY <2>1, <2>2
<1>4. Plan(s) /\ Idle.listed = {} /\ Idle.todo = {} /\ Idle.pc = "idle" /\ Idle.key = 0
  BY <1>0 DEF Plans, Idle
<1>5. Watched'
  <2>1. \A g \in N : watch[g.id[1]].state # "new"
    BY <1>3, <1>4 DEF Plan
  <2>2. QED
    BY <1>0, <1>3, <2>1 DEF Watched
<1>6. Plans'
  <2>1. /\ \A w \in row.listed : watch[w].state # "new"
        /\ \A p \in row.todo : \E w \in row.listed : watch[w].repo = p
        /\ row.pc \in {"read", "checked"} => row.repo \in row.todo
    BY <1>2, <1>4 DEF Move, Ends, GivesUp, LosesLease, Begins, Lists, Reads, Misses, Publishes,
                      Records, Plan, Dropped, GoesOn, Live
  <2>2. Plan(s)'
    BY <1>1, <2>1 DEF Plan
  <2>3. \A t \in Scanners : t # s => Plan(t)'
    BY <1>0, <1>1 DEF Plans, Plan
  <2>4. QED
    BY <2>2, <2>3 DEF Plans
<1>7. Keys'
  <2>1. NewKey # 0 /\ \A t \in Scanners : NewKey # scanner[t].key
    BY <1>0, FreshKey
  <2>2. /\ row.pc # "idle" => row.key # 0
        /\ \A t \in Scanners : t # s /\ scanner[t].key = row.key => row.key = 0
    BY <1>0, <1>4, <2>1 DEF Keys, Move, Ends, GivesUp, LosesLease, Begins, Lists, Reads, Misses,
                            Publishes, Records, Dropped, GoesOn
  <2>3. QED
    BY <1>0, <1>1, <2>2 DEF Keys
<1>8. Names'
  <2>1. IsFiniteSet(cards')
    BY <1>0, <1>3, FS_Union
  <2>2. ASSUME NEW g \in cards, g.id[2] = "commits", g.id[3] = row.key
        PROVE  row.pc # "acquired" /\ watch[g.id[1]].repo \notin Unpublished(s)'
    <3>1. CASE Ends(s, row) \/ GivesUp(s, row)
      BY <1>1, <1>4, <3>1 DEF Ends, GivesUp, Dropped, Unpublished
    <3>2. CASE Begins(s, row)
      BY <1>0, <2>2, <3>2, FreshKey DEF Begins
    <3>3. ASSUME row.key = scanner[s].key
          PROVE  /\ scanner[s].pc # "acquired"
                 /\ watch[g.id[1]].repo \notin Unpublished(s)
      BY <1>0, <2>2, <3>3 DEF Names
    <3>4. CASE LosesLease(s, row)
      BY <1>1, <3>3, <3>4 DEF LosesLease, GoesOn, Unpublished
    <3>5. CASE Lists(s, row)
      BY <3>3, <3>5 DEF Lists
    <3>6. CASE Reads(s, row)
      BY <1>1, <3>3, <3>6 DEF Reads, GoesOn, Unpublished
    <3>7. CASE Misses(s, row) \/ Publishes(s, row)
      BY <1>1, <3>3, <3>7 DEF Misses, Publishes, GoesOn, Unpublished
    <3>8. CASE Records(s, row)
      BY <1>1, <3>3, <3>8 DEF Records, Unpublished
    <3>9. QED
      BY <3>1, <3>2, <3>4, <3>5, <3>6, <3>7, <3>8 DEF Move
  <2>3. ASSUME NEW g \in N, g.id[2] = "commits", NEW t \in Scanners, g.id[3] = scanner'[t].key
        PROVE  scanner'[t].pc # "acquired" /\ watch[g.id[1]].repo \notin Unpublished(t)'
    <3>1. /\ scanner[s].pc = "read" /\ row.key = scanner[s].key /\ row.pc = "checked"
          /\ row.repo = scanner[s].repo /\ g.id[3] = scanner[s].key
          /\ watch[g.id[1]].repo = row.repo
      BY <1>3, <2>3 DEF Publishes, GoesOn
    <3>2. t = s
      BY <1>0, <1>1, <2>3, <3>1 DEF Keys
    <3>3. QED
      BY <1>1, <3>1, <3>2 DEF Unpublished
  <2>4. ASSUME NEW t \in Scanners, t # s
        PROVE  Unpublished(t)' = Unpublished(t)
    BY <1>1, <2>4 DEF Unpublished
  <2>5. ASSUME NEW t \in Scanners, NEW g \in cards', g.id[2] = "commits",
               g.id[3] = scanner'[t].key
        PROVE  scanner'[t].pc # "acquired" /\ watch[g.id[1]].repo \notin Unpublished(t)'
    <3>1. CASE g \in N
      BY <2>3, <2>5, <3>1
    <3>2. CASE g \in cards /\ t = s
      BY <1>1, <2>2, <2>5, <3>2
    <3>3. CASE g \in cards /\ t # s
      BY <1>0, <1>1, <2>4, <2>5, <3>3 DEF Names
    <3>4. QED
      BY <1>3, <3>1, <3>2, <3>3
  <2>6. QED
    BY <2>1, <2>5 DEF Names
<1>9. QED
  BY <1>5, <1>6, <1>7, <1>8 DEF Working

\* The watches that exist go on existing, with the repository they had.
LEMMA WatchesKeepWorking ==
  ASSUME TypeOK, Working, Watched', UNCHANGED scanner, cards' \subseteq cards,
         \A w \in Watches : watch[w].state # "new" => watch'[w].state # "new"
                                                      /\ watch'[w].repo = watch[w].repo
  PROVE  Working'
<1>0. Watched /\ Plans /\ Keys /\ Names /\ IsFiniteSet(cards)
  BY DEF Working, Names
<1>1. Plans'
  <2>1. \A s \in Scanners : scanner[s].listed \in SUBSET Watches
    BY DEF TypeOK, Processes
  <2>2. \A s \in Scanners : Plan(s)'
    BY <1>0, <2>1 DEF Plans, Plan
  <2>3. QED
    BY <2>2 DEF Plans
<1>2. Keys'
  BY <1>0 DEF Keys
<1>3. Names'
  <2>1. IsFiniteSet(cards')
    BY <1>0, FS_Subset
  <2>2. \A g \in cards : g.id[1] \in Watches
    BY DEF TypeOK, Cards, CardIds
  <2>3. \A g \in cards : watch'[g.id[1]].repo = watch[g.id[1]].repo
    BY <1>0, <2>2 DEF Watched
  <2>4. \A s \in Scanners : Unpublished(s)' = Unpublished(s)
    BY DEF Unpublished
  <2>5. QED
    BY <1>0, <2>1, <2>3, <2>4 DEF Names
<1>4. QED
  BY <1>1, <1>2, <1>3 DEF Working

LEMMA WorkingStep ==
  ASSUME TypeOK, Working, [Next]_vars
  PROVE  Working'
<1>0. Watched /\ \A g \in cards : g.id[1] \in Watches
  BY DEF Working, TypeOK, Cards, CardIds
<1>1. ASSUME UNCHANGED <<watch, scanner, cards>>
      PROVE  Working'
  <2>1. Watched'
    BY <1>0, <1>1 DEF Watched
  <2>2. QED
    BY <1>1, <2>1, WatchesKeepWorking
<1>2. CASE UNCHANGED vars
  BY <1>1, <1>2 DEF vars, feed
<1>3. CASE ProviderStep \/ Advance \/ LeaseTick
  BY <1>1, <1>3 DEF ProviderStep, PublishRelease, Push, Rewrite, Advance, LeaseTick, feed
<1>4. ASSUME NEW u \in Users, NEW p \in Repos, NEW w \in Watches, Subscribe(u, p, w)
      PROVE  Working'
  <2>1. /\ watch[w].state = "new" /\ UNCHANGED <<scanner, cards>>
        /\ \A v \in Watches : v # w => watch'[v] = watch[v]
        /\ watch'[w].state = "live" /\ watch'[w].repo = p
    BY <1>4 DEF Subscribe, TypeOK, feed
  <2>2. Watched'
    BY <1>0, <2>1 DEF Watched
  <2>3. QED
    BY <2>1, <2>2, WatchesKeepWorking
<1>5. ASSUME NEW w \in Watches, Unsubscribe(w)
      PROVE  Working'
  <2>1. /\ watch[w].state = "live" /\ UNCHANGED <<scanner, cards>>
        /\ \A v \in Watches : v # w => watch'[v] = watch[v]
        /\ watch'[w].state = "deleted" /\ watch'[w].repo = watch[w].repo
    BY <1>5 DEF Unsubscribe, Live, TypeOK, WatchRows, feed
  <2>2. Watched'
    BY <1>0, <2>1 DEF Watched
  <2>3. QED
    BY <2>1, <2>2, WatchesKeepWorking
<1>6. ASSUME NEW u \in Users, DeleteAccount(u)
      PROVE  Working'
  <2>1. cards' \subseteq cards /\ UNCHANGED scanner
    BY <1>6 DEF DeleteAccount
  <2>2. \A v \in Watches : watch[v].state = "new" => v \notin Owned(u)
    BY <1>0, ScanAssumptions DEF Watched, Owned
  <2>3. \A v \in Watches : IF v \in Owned(u)
                           THEN watch'[v].state = "deleted" /\ watch'[v].repo = watch[v].repo
                           ELSE watch'[v] = watch[v]
    BY <1>6 DEF DeleteAccount, TypeOK, WatchRows
  <2>4. Watched'
    BY <1>0, <2>1, <2>2, <2>3 DEF Watched
  <2>5. QED
    BY <2>1, <2>2, <2>3, <2>4, WatchesKeepWorking
<1>7. ASSUME NEW s \in Scanners, Scan(s) \/ Renew(s) \/ ScanFails(s)
      PROVE  Working'
  <2>1. UNCHANGED <<watch, account>> /\ (Moves(s) \/ UNCHANGED <<scanner, feed>>)
    BY <1>7, ScanMoves
  <2>2. QED
    BY <1>1, <2>1, MoveKeepsWorking DEF Moves, feed
<1>8. QED
  BY <1>2, <1>3, <1>4, <1>5, <1>6, <1>7 DEF Next, UserStep

-----------------------------------------------------------------------------
(* The cards of a Feed. *)

\* A published release is an event of the Feed.
LEMMA OldReleases ==
  ASSUME TypeOK, CardsPartitionEvents, NEW g \in cards, g.id[2] = "release"
  PROVE  /\ <<g.id[1], g.id[3]>> \in events /\ <<g.id[1], g.id[3]>> \in Watches \X Releases
         /\ IsRelease(<<g.id[1], g.id[3]>>)
<1>1. {e[2] : e \in {x \in g.members : IsRelease(x)}} = {g.id[3]}
  BY DEF CardsPartitionEvents
<1>2. PICK e \in g.members : IsRelease(e) /\ e[2] = g.id[3]
  BY <1>1
<1>3. e \in events /\ e[1] = g.id[1]
  BY DEF CardsPartitionEvents
<1>4. e \in Watches \X Items
  BY <1>3 DEF TypeOK, Events
<1>5. e = <<g.id[1], g.id[3]>>
  BY <1>2, <1>3, <1>4
<1>6. QED
  BY <1>2, <1>3, <1>4, <1>5 DEF IsRelease

\* A publication adds cards of events that no card holds, under new names.
LEMMA PublishedApart ==
  ASSUME TypeOK, Working, Publications, NEW s \in Scanners, NEW row, Publishes(s, row),
         NEW found, NEW fresh, NEW details, NEW all, Publication(s, found, fresh, details, all)
  PROVE  LET new == all \ events
             N == NewCards(new, details, scanner[s].key)
         IN  /\ \A e \in new : \E g \in N : e \in g.members
             /\ \A g, h \in N : g.id = h.id \/ g.members \cap h.members # {} => g = h
             /\ \A g \in N : WellFormed(g, new, details, scanner[s].key)
             /\ \A g \in cards, h \in N : g.id # h.id /\ g.members \cap h.members = {}
<1> DEFINE new == all \ events
           key == scanner[s].key
           N == NewCards(new, details, key)
<1>0. Plans /\ Names /\ CardsPartitionEvents /\ scanner[s].pc = "read"
  BY DEF Working, Publications, Publishes
<1>1. /\ all \in SUBSET Events
      /\ \A e \in all : e[1] \in scanner[s].listed /\ watch[e[1]].repo = scanner[s].repo
      /\ fresh = {e \in all \ events : IsRelease(e)}
      /\ \A e \in fresh : \A f \in References(e, details) : f[1] = e[1] /\ ~IsRelease(f)
  BY <1>0, PublicationFacts
<1>2. IsFiniteSet(new) /\ key \in Nat /\ new \in SUBSET Events
  <2>1. IsFiniteSet(new)
    BY <1>0, FeedType
  <2>2. QED
    BY <1>1, <2>1 DEF TypeOK, Processes
<1>3. \A r \in new : IsRelease(r) =>
        \A f \in References(r, details) : f[1] = r[1] /\ ~IsRelease(f)
  BY <1>1
<1>4. \A e \in new : e \notin events /\ watch[e[1]].repo = scanner[s].repo
  BY <1>1
<1> HIDE DEF new, key
<1>5. /\ \A e \in new : \E g \in N : e \in g.members
      /\ \A g, h \in N : g.id = h.id \/ g.members \cap h.members # {} => g = h
      /\ \A g \in N : WellFormed(g, new, details, key)
  BY <1>2, <1>3, NewCardsPartition
<1>6. ASSUME NEW g \in cards, NEW h \in N
      PROVE  g.id # h.id /\ g.members \cap h.members = {}
  <2>1. WellFormed(h, new, details, key)
    BY <1>5
  <2> HIDE DEF N
  <2>2. g.members \subseteq events /\ h.members \subseteq new /\ h.members # {}
    BY <1>0, <2>1 DEF WellFormed, CardsPartitionEvents
  <2>3. g.members \cap h.members = {}
    BY <1>4, <2>2
  <2>4. ASSUME g.id = h.id
        PROVE  FALSE
    <3>1. CASE g.id[2] = "release"
      <4>1. <<g.id[1], g.id[3]>> \in events
        BY <1>0, <3>1, OldReleases
      <4>2. <<h.id[1], h.id[3]>> \in new
        BY <2>1, <2>4, <3>1 DEF WellFormed
      <4>3. QED
        BY <1>4, <2>4, <4>1, <4>2
    <3>2. CASE g.id[2] # "release"
      <4>1. g.id[2] = "commits" /\ g.id[3] = key
        BY <2>1, <2>4, <3>2 DEF WellFormed
      <4>2. watch[g.id[1]].repo \notin Unpublished(s)
        BY <1>0, <4>1 DEF Names, key
      <4>3. PICK e \in h.members : e[1] = h.id[1]
        BY <2>1, <2>2 DEF WellFormed
      <4>4. watch[g.id[1]].repo = scanner[s].repo
        BY <1>4, <2>2, <2>4, <4>3
      <4>5. scanner[s].repo \in Unpublished(s)
        BY <1>0 DEF Plans, Plan, Unpublished
      <4>6. QED
        BY <4>2, <4>4, <4>5
    <3>3. QED
      BY <3>1, <3>2
  <2>5. QED
    BY <2>3, <2>4
<1>7. QED
  BY <1>5, <1>6 DEF new, key

\* A publication keeps the partition and the references, and changes nothing that
\* has been published.
LEMMA PublicationKeeps ==
  ASSUME TypeOK, Working, Publications, NEW s \in Scanners, NEW row, Publishes(s, row)
  PROVE  /\ Publications' /\ cards \subseteq cards'
         /\ \A g \in cards : g.id[2] = "release" =>
              refs'[<<g.id[1], g.id[3]>>] = refs[<<g.id[1], g.id[3]>>]
<1>1. PICK found, fresh, details, all : Publication(s, found, fresh, details, all)
  BY DEF Publishes
<1> DEFINE new == all \ events
           key == scanner[s].key
           N == NewCards(new, details, key)
<1>2. /\ \A e \in new : \E g \in N : e \in g.members
      /\ \A g, h \in N : g.id = h.id \/ g.members \cap h.members # {} => g = h
      /\ \A g \in N : WellFormed(g, new, details, key)
      /\ \A g \in cards, h \in N : g.id # h.id /\ g.members \cap h.members = {}
  BY <1>1, PublishedApart
<1>3. Plans /\ CardsPartitionEvents /\ ReferencesResolve /\ OwnReferences
      /\ scanner[s].pc = "read"
  BY DEF Working, Publications, Publishes
<1>4. /\ all \in SUBSET Events
      /\ fresh = {e \in all \ events : IsRelease(e)}
      /\ \A e \in fresh : /\ References(e, details) \in SUBSET all
                          /\ \A f \in References(e, details) : f[1] = e[1] /\ ~IsRelease(f)
  BY <1>1, <1>3, PublicationFacts
<1>5. /\ events' = events \cup all /\ cards' = cards \cup N
      /\ refs' = [e \in Watches \X Releases |-> IF e \in fresh THEN References(e, details)
                                                ELSE refs[e]]
  <2>1. DOMAIN refs = Watches \X Releases
    BY DEF TypeOK
  <2>2. QED
    BY <1>1, <2>1 DEF Publication
<1> HIDE DEF N
<1>6. CardsPartitionEvents'
  <2>1. \A e \in events' : \E g \in cards' : e \in g.members
    BY <1>2, <1>3, <1>5 DEF CardsPartitionEvents
  <2>2. ASSUME NEW g \in cards', NEW h \in cards',
               g.id = h.id \/ g.members \cap h.members # {}
        PROVE  g = h
    <3>1. CASE g \in cards /\ h \in cards
      BY <1>3, <2>2, <3>1 DEF CardsPartitionEvents
    <3>2. CASE g \in N /\ h \in N
      BY <1>2, <2>2, <3>2
    <3>3. CASE (g \in cards /\ h \in N) \/ (g \in N /\ h \in cards)
      BY <1>2, <2>2, <3>3
    <3>4. QED
      BY <1>5, <3>1, <3>2, <3>3
  <2>3. ASSUME NEW g \in cards'
        PROVE  /\ g.members # {} /\ g.members \subseteq events'
               /\ \A e \in g.members : e[1] = g.id[1]
               /\ {e[2] : e \in {x \in g.members : IsRelease(x)}} =
                    (IF g.id[2] = "release" THEN {g.id[3]} ELSE {})
    <3>1. CASE g \in cards
      <4>1. /\ g.members # {} /\ g.members \subseteq events
            /\ \A e \in g.members : e[1] = g.id[1]
            /\ {e[2] : e \in {x \in g.members : IsRelease(x)}} =
                 (IF g.id[2] = "release" THEN {g.id[3]} ELSE {})
        BY <1>3, <3>1, Zenon DEF CardsPartitionEvents
      <4>2. g.members \subseteq events'
        BY <1>5, <4>1
      <4>3. QED
        BY <4>1, <4>2
    <3>2. CASE g \in N
      <4>1. WellFormed(g, new, details, key)
        BY <1>2, <3>2
      <4>2. /\ g.members # {} /\ g.members \subseteq new
            /\ \A e \in g.members : e[1] = g.id[1]
            /\ {e[2] : e \in {x \in g.members : IsRelease(x)}} =
                 (IF g.id[2] = "release" THEN {g.id[3]} ELSE {})
        BY <4>1, Zenon DEF WellFormed
      <4>3. g.members \subseteq events'
        BY <1>5, <4>2
      <4>4. QED
        BY <4>2, <4>3
    <3>3. QED
      BY <1>5, <3>1, <3>2
  <2>4. QED
    BY <2>1, <2>2, <2>3, Zenon DEF CardsPartitionEvents
<1>7. ASSUME NEW g \in cards, g.id[2] = "release"
      PROVE  refs'[<<g.id[1], g.id[3]>>] = refs[<<g.id[1], g.id[3]>>]
  <2>1. <<g.id[1], g.id[3]>> \in events /\ <<g.id[1], g.id[3]>> \in Watches \X Releases
    BY <1>3, <1>7, OldReleases
  <2>2. <<g.id[1], g.id[3]>> \notin fresh
    BY <1>4, <2>1
  <2>3. QED
    BY <1>5, <2>1, <2>2
<1>8. ReferencesResolve'
  <2>1. ASSUME NEW e \in events', IsRelease(e)
        PROVE  refs'[e] \subseteq events'
    <3>1. e \in Watches \X Releases
      BY <1>4, <1>5, <2>1 DEF TypeOK, Events, IsRelease
    <3>2. CASE e \in events
      BY <1>3, <1>4, <1>5, <2>1, <3>1, <3>2 DEF ReferencesResolve
    <3>3. CASE e \notin events
      BY <1>4, <1>5, <2>1, <3>1, <3>3
    <3>4. QED
      BY <3>2, <3>3
  <2>2. ASSUME NEW g \in cards', g.id[2] = "release"
        PROVE  {e \in g.members : ~IsRelease(e)} \subseteq refs'[<<g.id[1], g.id[3]>>]
    <3>1. CASE g \in cards
      BY <1>3, <1>7, <2>2, <3>1 DEF ReferencesResolve
    <3>2. CASE g \in N
      <4> DEFINE r == <<g.id[1], g.id[3]>>
      <4>1. r \in new /\ IsRelease(r)
            /\ {e \in g.members : ~IsRelease(e)} \subseteq References(r, details)
        BY <1>2, <2>2, <3>2 DEF WellFormed
      <4>2. r \in fresh /\ r \in Watches \X Releases
        BY <1>4, <4>1 DEF Events, IsRelease
      <4>3. refs'[r] = References(r, details)
        BY <1>5, <4>2
      <4>4. QED
        BY <4>1, <4>3
    <3>3. QED
      BY <1>5, <3>1, <3>2
  <2>3. QED
    BY <2>1, <2>2, Zenon DEF ReferencesResolve
<1>9. OwnReferences'
  BY <1>3, <1>4, <1>5 DEF OwnReferences
<1>10. QED
  BY <1>5, <1>6, <1>7, <1>8, <1>9 DEF Publications

\* The deletion of an account takes whole cards with all their events.
LEMMA DeletionKeeps ==
  ASSUME TypeOK, Publications, NEW u \in Users, DeleteAccount(u)
  PROVE  /\ Publications'
         /\ \A g \in cards : g.id[1] \notin Owned(u) =>
              /\ g \in cards'
              /\ g.id[2] = "release" =>
                   refs'[<<g.id[1], g.id[3]>>] = refs[<<g.id[1], g.id[3]>>]
<1>0. CardsPartitionEvents /\ ReferencesResolve /\ OwnReferences
  BY DEF Publications
<1>1. /\ events' = {e \in events : e[1] \notin Owned(u)}
      /\ cards' = {g \in cards : g.id[1] \notin Owned(u)}
      /\ refs' = [e \in Watches \X Releases |-> IF e[1] \in Owned(u) THEN {} ELSE refs[e]]
  <2>1. DOMAIN refs = Watches \X Releases
    BY DEF TypeOK
  <2>2. QED
    BY <2>1 DEF DeleteAccount
<1>2. ASSUME NEW g \in cards, g.id[1] \notin Owned(u), g.id[2] = "release"
      PROVE  refs'[<<g.id[1], g.id[3]>>] = refs[<<g.id[1], g.id[3]>>]
  <2>1. <<g.id[1], g.id[3]>> \in Watches \X Releases
    BY <1>0, <1>2, OldReleases
  <2>2. QED
    BY <1>1, <1>2, <2>1
<1>3. CardsPartitionEvents'
  <2>1. ASSUME NEW g \in cards
        PROVE  /\ g.members # {} /\ g.members \subseteq events
               /\ \A e \in g.members : e[1] = g.id[1]
               /\ {e[2] : e \in {x \in g.members : IsRelease(x)}} =
                    (IF g.id[2] = "release" THEN {g.id[3]} ELSE {})
    BY <1>0, Zenon DEF CardsPartitionEvents
  <2>2. \A e \in events' : \E g \in cards' : e \in g.members
    <3>1. ASSUME NEW e \in events'
          PROVE  \E g \in cards' : e \in g.members
      <4>1. PICK g \in cards : e \in g.members
        BY <1>0, <1>1 DEF CardsPartitionEvents
      <4>2. e[1] = g.id[1] /\ e[1] \notin Owned(u)
        BY <1>1, <2>1, <4>1
      <4>3. QED
        BY <1>1, <4>1, <4>2
    <3>2. QED
      BY <3>1
  <2>3. \A g, h \in cards' : g.id = h.id \/ g.members \cap h.members # {} => g = h
    BY <1>0, <1>1 DEF CardsPartitionEvents
  <2>4. \A g \in cards' : g \in cards /\ g.members \subseteq events'
    BY <1>1, <2>1
  <2>5. QED
    BY <2>1, <2>2, <2>3, <2>4, Zenon DEF CardsPartitionEvents
<1>4. ReferencesResolve'
  <2>1. ASSUME NEW e \in events', IsRelease(e)
        PROVE  refs'[e] \subseteq events'
    <3>1. e \in events /\ e[1] \notin Owned(u) /\ e \in Watches \X Releases
      BY <1>1, <2>1 DEF TypeOK, Events, IsRelease
    <3>2. refs'[e] = refs[e] /\ refs[e] \subseteq events /\ \A f \in refs[e] : f[1] = e[1]
      BY <1>0, <1>1, <2>1, <3>1 DEF ReferencesResolve, OwnReferences
    <3>3. QED
      BY <1>1, <3>1, <3>2
  <2>2. \A g \in cards' : g.id[2] = "release" =>
          {e \in g.members : ~IsRelease(e)} \subseteq refs'[<<g.id[1], g.id[3]>>]
    BY <1>0, <1>1, <1>2 DEF ReferencesResolve
  <2>3. QED
    BY <2>1, <2>2, Zenon DEF ReferencesResolve
<1>5. OwnReferences'
  BY <1>0, <1>1 DEF OwnReferences
<1>6. QED
  BY <1>1, <1>2, <1>3, <1>4, <1>5 DEF Publications

\* A step keeps the partition; it takes a card away only with its owner's account.
LEMMA PublicationsStep ==
  ASSUME TypeOK, Working, Publications, [Next]_vars
  PROVE  /\ Publications'
         /\ \A g \in cards : account'[watch[g.id[1]].owner] = "active" =>
              /\ g \in cards'
              /\ g.id[2] = "release" =>
                   refs'[<<g.id[1], g.id[3]>>] = refs[<<g.id[1], g.id[3]>>]
<1> DEFINE Kept == \A g \in cards : account'[watch[g.id[1]].owner] = "active" =>
                     /\ g \in cards'
                     /\ g.id[2] = "release" =>
                          refs'[<<g.id[1], g.id[3]>>] = refs[<<g.id[1], g.id[3]>>]
<1>1. ASSUME UNCHANGED feed
      PROVE  Publications' /\ Kept
  BY <1>1 DEF feed, Publications, CardsPartitionEvents, ReferencesResolve, OwnReferences
<1>2. CASE UNCHANGED vars
  BY <1>1, <1>2 DEF vars
<1>3. CASE ProviderStep \/ Advance \/ LeaseTick
  BY <1>1, <1>3 DEF ProviderStep, PublishRelease, Push, Rewrite, Advance, LeaseTick
<1>4. ASSUME NEW u \in Users, NEW p \in Repos, NEW w \in Watches, Subscribe(u, p, w)
      PROVE  Publications' /\ Kept
  BY <1>1, <1>4 DEF Subscribe
<1>5. ASSUME NEW w \in Watches, Unsubscribe(w)
      PROVE  Publications' /\ Kept
  BY <1>1, <1>5 DEF Unsubscribe
<1>6. ASSUME NEW u \in Users, DeleteAccount(u)
      PROVE  Publications' /\ Kept
  <2>1. account'[u] = "deleted"
    BY <1>6 DEF DeleteAccount, TypeOK
  <2>2. \A g \in cards : g.id[1] \in Watches
    BY DEF TypeOK, Cards, CardIds
  <2>3. \A g \in cards : account'[watch[g.id[1]].owner] = "active" => g.id[1] \notin Owned(u)
    BY <2>1, <2>2 DEF Owned
  <2>4. QED
    BY <1>6, <2>3, DeletionKeeps
<1>7. ASSUME NEW s \in Scanners, Scan(s) \/ Renew(s) \/ ScanFails(s)
      PROVE  Publications' /\ Kept
  <2>1. Moves(s) \/ UNCHANGED feed
    BY <1>7, ScanMoves
  <2>2. ASSUME NEW row, Move(s, row)
        PROVE  UNCHANGED feed \/ Publishes(s, row)
    BY <2>2 DEF Move, Ends, GivesUp, LosesLease, Begins, Lists, Reads, Misses, Records
  <2>3. (\E row : Publishes(s, row)) \/ UNCHANGED feed
    BY <2>1, <2>2 DEF Moves
  <2>4. CASE \E row : Publishes(s, row)
    BY <2>4, PublicationKeeps
  <2>5. QED
    BY <1>1, <2>3, <2>4
<1>8. QED
  BY <1>2, <1>3, <1>4, <1>5, <1>6, <1>7 DEF Next, UserStep

-----------------------------------------------------------------------------
(* Every step has the types. *)

\* Adding a fault, and letting time pass.
LEMMA CounterTypes ==
  ASSUME TypeOK
  PROVE  (Fault => faults' \in 0..MaxFaults) /\ Later \in Times
<1>1. MaxFaults \in Nat /\ MaxTime \in Nat \ {0} /\ faults \in 0..MaxFaults /\ clock \in 1..MaxTime
  BY ScanAssumptions DEF TypeOK, Times
<1>2. Fault => faults' \in 0..MaxFaults
  BY <1>1 DEF Fault
<1>3. Later \in 1..MaxTime
  BY <1>1 DEF Later
<1>4. QED
  BY <1>2, <1>3 DEF Times

\* The types, a part for each of the variables that change together.
ProviderTypes == /\ released \in [Releases -> [repo : Repos \cup {None}, time : 0..MaxTime]]
                 /\ branch \in [Repos -> Seq(Commits)]
                 /\ date \in [Commits -> 0..MaxTime]
LeaseType == lease \in [key : Nat, left : 0..LeaseTicks]
RunTypes == runRow \in [Scanners -> [status : Checks \cup {"running"}, startedAt : 0..MaxTime]]
FeedTypes == /\ events \subseteq Events /\ cards \subseteq Cards
             /\ refs \in [Watches \X Releases -> SUBSET Events]

LEMMA TypeParts ==
  TypeOK <=> /\ clock \in Times /\ ProviderTypes
             /\ account \in [Users -> {"active", "deleted"}]
             /\ watch \in [Watches -> WatchRows] /\ cursor \in [Repos -> CursorRows]
             /\ LeaseType /\ scanner \in [Scanners -> Processes] /\ RunTypes /\ FeedTypes
             /\ faults \in 0..MaxFaults
  BY Zenon DEF TypeOK, ProviderTypes, LeaseType, RunTypes, FeedTypes

\* The same of the next state.
LEMMA NextTypeParts ==
  ASSUME clock' \in Times, ProviderTypes', account' \in [Users -> {"active", "deleted"}],
         watch' \in [Watches -> WatchRows], cursor' \in [Repos -> CursorRows],
         LeaseType', scanner' \in [Scanners -> Processes], RunTypes', FeedTypes',
         faults' \in 0..MaxFaults
  PROVE  TypeOK'
  BY Zenon DEF TypeOK, ProviderTypes, LeaseType, RunTypes, FeedTypes

LEMMA DeletedRow ==
  ASSUME NEW row \in WatchRows
  PROVE  [row EXCEPT !.state = "deleted"] \in WatchRows
  BY DEF WatchRows

LEMMA ProviderTypeStep ==
  ASSUME TypeOK, ProviderStep
  PROVE  TypeOK'
<1>1. clock \in 0..MaxTime /\ 1 \in 0..MaxTime
  BY ScanAssumptions DEF TypeOK, Times
<1>2. ProviderTypes' /\ faults' \in 0..MaxFaults
  <2>0. ProviderTypes /\ faults \in 0..MaxFaults
    BY TypeParts
  <2>1. ASSUME NEW p \in Repos, NEW r \in Releases, PublishRelease(p, r)
        PROVE  ProviderTypes' /\ faults' \in 0..MaxFaults
    BY <1>1, <2>0, <2>1 DEF PublishRelease, ProviderTypes
  <2>2. ASSUME NEW p \in Repos, NEW c \in Commits, Push(p, c)
        PROVE  ProviderTypes' /\ faults' \in 0..MaxFaults
    <3>1. PICK d \in {1, clock} : date' = [date EXCEPT ![c] = d]
      BY <2>2 DEF Push
    <3>2. date' \in [Commits -> 0..MaxTime]
      BY <1>1, <2>0, <3>1 DEF ProviderTypes
    <3>3. Append(branch[p], c) \in Seq(Commits)
      BY <2>0 DEF ProviderTypes
    <3>4. branch' \in [Repos -> Seq(Commits)]
      BY <2>0, <2>2, <3>3 DEF Push, ProviderTypes
    <3>5. QED
      BY <2>0, <2>2, <3>2, <3>4 DEF Push, ProviderTypes
  <2>3. ASSUME NEW p \in Repos, Rewrite(p)
        PROVE  ProviderTypes' /\ faults' \in 0..MaxFaults
    <3>1. branch[p] \in Seq(Commits) /\ branch[p] # <<>>
      BY <2>0, <2>3 DEF ProviderTypes, Rewrite
    <3>2. Len(branch[p]) \in Nat /\ Len(branch[p]) > 0
      BY <3>1, EmptySeq, LenProperties
    <3>3. SubSeq(branch[p], 1, Len(branch[p]) - 1) \in Seq(Commits)
      BY <3>1, <3>2, SubSeqProperties
    <3>4. branch' \in [Repos -> Seq(Commits)]
      BY <2>0, <2>3, <3>3 DEF Rewrite, ProviderTypes
    <3>5. faults' \in 0..MaxFaults
      BY <2>3, CounterTypes DEF Rewrite
    <3>6. QED
      BY <2>0, <2>3, <3>4, <3>5 DEF Rewrite, ProviderTypes
  <2>4. QED
    BY <2>1, <2>2, <2>3 DEF ProviderStep
<1>3. UNCHANGED <<clock, account, watch, cursor, lease, scanner, runRow, feed>>
  BY DEF ProviderStep, PublishRelease, Push, Rewrite
<1>4. QED
  BY <1>2, <1>3, TypeParts, NextTypeParts DEF LeaseType, RunTypes, FeedTypes, feed

LEMMA UserTypeStep ==
  ASSUME TypeOK, UserStep
  PROVE  TypeOK'
<1>1. ASSUME NEW u \in Users, NEW p \in Repos, NEW w \in Watches, Subscribe(u, p, w)
      PROVE  TypeOK'
  <2>1. clock \in 0..MaxTime /\ cursor[p].sha \in Shas \cup {None}
    BY ScanAssumptions DEF TypeOK, Times, CursorRows
  <2>2. Racing(p) \in BOOLEAN
    BY Zenon DEF Racing
  <2> DEFINE row(b) == [state |-> "live", owner |-> u, repo |-> p, since |-> clock,
                        base |-> cursor[p].sha, raced |-> b]
  <2>3. \A b \in BOOLEAN : row(b) \in WatchRows
    BY <2>1 DEF WatchRows
  <2>4. watch' = [watch EXCEPT ![w] = row(Racing(p))]
    BY <1>1, Zenon DEF Subscribe
  <2> HIDE DEF row
  <2>5. watch' \in [Watches -> WatchRows]
    BY <2>2, <2>3, <2>4, TypeParts
  <2>6. UNCHANGED <<clock, provider, account, cursor, lease, scanner, runRow, feed, faults>>
    BY <1>1 DEF Subscribe
  <2>7. QED
    BY <2>5, <2>6, TypeParts, NextTypeParts
       DEF ProviderTypes, LeaseType, RunTypes, FeedTypes, provider, feed
<1>2. ASSUME NEW w \in Watches, Unsubscribe(w)
      PROVE  TypeOK'
  <2>1. watch' \in [Watches -> WatchRows]
    <3>1. watch' = [watch EXCEPT ![w] = [watch[w] EXCEPT !.state = "deleted"]]
      BY <1>2 DEF Unsubscribe, TypeOK
    <3>2. [watch[w] EXCEPT !.state = "deleted"] \in WatchRows
      BY TypeParts, DeletedRow
    <3>3. QED
      BY <3>1, <3>2, TypeParts
  <2>2. UNCHANGED <<clock, provider, account, cursor, lease, scanner, runRow, feed, faults>>
    BY <1>2 DEF Unsubscribe
  <2>3. QED
    BY <2>1, <2>2, TypeParts, NextTypeParts
       DEF ProviderTypes, LeaseType, RunTypes, FeedTypes, provider, feed
<1>3. ASSUME NEW u \in Users, DeleteAccount(u)
      PROVE  TypeOK'
  <2>1. account' \in [Users -> {"active", "deleted"}]
    BY <1>3 DEF DeleteAccount, TypeOK
  <2>2. watch' \in [Watches -> WatchRows]
    <3>1. \A w \in Watches : [watch[w] EXCEPT !.state = "deleted"] \in WatchRows
      BY TypeParts, DeletedRow
    <3>2. QED
      BY <1>3, <3>1 DEF DeleteAccount, TypeOK
  <2>3. FeedTypes'
    BY <1>3 DEF DeleteAccount, TypeOK, FeedTypes
  <2>4. UNCHANGED <<clock, provider, cursor, lease, scanner, runRow, faults>>
    BY <1>3 DEF DeleteAccount
  <2>5. QED
    BY <2>1, <2>2, <2>3, <2>4, TypeParts, NextTypeParts
       DEF ProviderTypes, LeaseType, RunTypes, provider
<1>4. QED
  BY <1>1, <1>2, <1>3 DEF UserStep

LEMMA TimeTypeStep ==
  ASSUME TypeOK, Advance \/ LeaseTick
  PROVE  TypeOK'
<1>1. LeaseTicks \in Nat /\ lease \in [key : Nat, left : 0..LeaseTicks]
  BY ScanAssumptions DEF TypeOK
<1>2. clock' \in Times
  BY CounterTypes DEF Advance, LeaseTick
<1>3. lease' \in [key : Nat, left : 0..LeaseTicks]
  BY <1>1 DEF Advance, LeaseTick
<1>4. faults' \in 0..MaxFaults
  BY CounterTypes, TypeParts DEF Advance, LeaseTick
<1>5. UNCHANGED <<provider, account, watch, cursor, scanner, runRow, feed>>
  BY DEF Advance, LeaseTick
<1>6. QED
  BY <1>2, <1>3, <1>4, <1>5, TypeParts, NextTypeParts
     DEF ProviderTypes, LeaseType, RunTypes, FeedTypes, provider, feed

\* What a step of a process leaves alone.
LEMMA ProcessFrame ==
  ASSUME TypeOK, NEW s \in Scanners, Scan(s) \/ Renew(s) \/ ScanFails(s)
  PROVE  UNCHANGED <<clock, provider, account, watch>>
<1>1. CASE Acquire(s) \/ Start(s) \/ RecordCheck(s) \/ Finish(s) \/ Discard(s) \/ Release(s)
  BY <1>1, Zenon DEF Acquire, Start, RecordCheck, Finish, Discard, Release
<1>2. CASE Read(s)
  BY <1>2, Zenon DEF Read
<1>3. CASE Persist(s)
  BY <1>3, PersistCases
<1>4. CASE Renew(s) \/ ScanFails(s)
  BY <1>4, Zenon DEF Renew, ScanFails, RepositoryFails, RunFails, RenewFails, Crash
<1>5. QED
  BY <1>1, <1>2, <1>3, <1>4 DEF Scan

\* A lease that a process takes, renews or gives back.
LEMMA LeaseTypeStep ==
  ASSUME TypeOK, IsFiniteSet(cards), NEW s \in Scanners, Scan(s) \/ Renew(s) \/ ScanFails(s)
  PROVE  lease' \in [key : Nat, left : 0..LeaseTicks]
<1>0. lease \in [key : Nat, left : 0..LeaseTicks] /\ LeaseTicks \in Nat
  BY ScanAssumptions DEF TypeOK
<1>1. CASE Acquire(s)
  BY <1>0, <1>1, FreshKey DEF Acquire
<1>2. CASE Release(s)
  BY <1>0, <1>2 DEF Release, NoLease
<1>3. CASE Renew(s)
  BY <1>0, <1>3 DEF Renew, Renewed
<1>4. CASE Read(s)
  BY <1>0, <1>4, Zenon DEF Read
<1>5. CASE Persist(s)
  BY <1>0, <1>5, PersistCases
<1>6. CASE Start(s) \/ RecordCheck(s) \/ Finish(s) \/ Discard(s) \/ ScanFails(s)
  BY <1>0, <1>6, Zenon DEF Start, RecordCheck, Finish, Discard, ScanFails, RepositoryFails,
                           RunFails, RenewFails, Crash
<1>7. QED
  BY <1>1, <1>2, <1>3, <1>4, <1>5, <1>6 DEF Scan

\* A run that begins, ends or fails.
LEMMA RunTypeStep ==
  ASSUME TypeOK, NEW s \in Scanners, Scan(s) \/ Renew(s) \/ ScanFails(s)
  PROVE  RunTypes'
<1>0. RunTypes /\ clock \in 0..MaxTime /\ runRow[s].startedAt \in 0..MaxTime
  BY ScanAssumptions DEF TypeOK, RunTypes, Times
<1>1. ASSUME NEW status \in Checks \cup {"running"}, NEW at \in 0..MaxTime,
             runRow' = [runRow EXCEPT ![s] = [status |-> status, startedAt |-> at]]
      PROVE  RunTypes'
  BY <1>0, <1>1 DEF RunTypes
<1>2. CASE Start(s)
  <2>1. "running" \in Checks \cup {"running"}
    OBVIOUS
  <2>2. runRow' = runRow \/ runRow' = [runRow EXCEPT ![s] =
                                         [status |-> "running", startedAt |-> clock]]
    BY <1>2, Zenon DEF Start
  <2>3. QED
    BY <1>0, <1>1, <2>1, <2>2 DEF RunTypes
<1>3. CASE Finish(s)
  <2>1. runRow' = runRow \/ \E status \in {"partial", "succeeded"} :
                              runRow' = [runRow EXCEPT ![s].status = status]
    BY <1>3, Zenon DEF Finish
  <2>2. "partial" \in Checks /\ "succeeded" \in Checks
    BY DEF Checks
  <2>3. QED
    BY <1>0, <2>1, <2>2 DEF RunTypes
<1>4. CASE RunFails(s)
  <2> DEFINE at == IF scanner[s].pc = "acquired" THEN clock ELSE runRow[s].startedAt
  <2>1. at \in 0..MaxTime
    BY <1>0
  <2>2. runRow' = runRow \/ \E status \in {"running", "failed"} :
          runRow' = [runRow EXCEPT ![s] = [status |-> status, startedAt |-> at]]
    BY <1>4, Zenon DEF RunFails
  <2>3. "failed" \in Checks
    BY DEF Checks
  <2> HIDE DEF at
  <2>4. QED
    BY <1>0, <1>1, <2>1, <2>2, <2>3 DEF RunTypes
<1>5. CASE Read(s)
  BY <1>0, <1>5, Zenon DEF Read, RunTypes
<1>6. CASE Persist(s)
  BY <1>0, <1>6, PersistCases DEF RunTypes
<1>7. CASE \/ Acquire(s) \/ RecordCheck(s) \/ Discard(s) \/ Release(s) \/ Renew(s)
           \/ RepositoryFails(s) \/ RenewFails(s) \/ Crash(s)
  BY <1>0, <1>7, Zenon DEF Acquire, RecordCheck, Discard, Release, Renew, RepositoryFails,
                           RenewFails, Crash, RunTypes
<1>8. QED
  BY <1>2, <1>3, <1>4, <1>5, <1>6, <1>7 DEF Scan, ScanFails

\* A checkpoint that a publication moves, and a fault that a step needs.
LEMMA CursorTypeStep ==
  ASSUME TypeOK, Plans, NEW s \in Scanners, Scan(s) \/ Renew(s) \/ ScanFails(s)
  PROVE  cursor' \in [Repos -> CursorRows] /\ faults' \in 0..MaxFaults
<1>0. cursor \in [Repos -> CursorRows] /\ faults \in 0..MaxFaults
      /\ (Fault => faults' \in 0..MaxFaults)
  BY TypeParts, CounterTypes
<1>1. CASE Persist(s)
  <2>1. /\ scanner[s].pc = "read" /\ UNCHANGED faults
        /\ \/ UNCHANGED cursor
           \/ cursor' = [cursor EXCEPT ![scanner[s].repo] = Advanced(s)]
    BY <1>1, PersistCases
  <2>2. scanner[s].repo \in Repos /\ Advanced(s) \in CursorRows
    BY <2>1, AdvancedType
  <2>3. QED
    BY <1>0, <2>1, <2>2
<1>2. CASE Read(s)
  <2>1. UNCHANGED cursor /\ (faults' = faults \/ Fault)
    BY <1>2, Zenon DEF Read
  <2>2. QED
    BY <1>0, <2>1
<1>3. CASE Acquire(s) \/ Start(s) \/ RecordCheck(s) \/ Finish(s) \/ Discard(s) \/ Release(s)
           \/ Renew(s)
  BY <1>0, <1>3, Zenon DEF Acquire, Start, RecordCheck, Finish, Discard, Release, Renew
<1>4. CASE ScanFails(s)
  BY <1>0, <1>4, Zenon DEF ScanFails, RepositoryFails, RunFails, RenewFails, Crash
<1>5. QED
  BY <1>1, <1>2, <1>3, <1>4 DEF Scan

LEMMA ProcessTypeStep ==
  ASSUME TypeOK, Working, NEW s \in Scanners, Scan(s) \/ Renew(s) \/ ScanFails(s)
  PROVE  TypeOK'
<1>0. Plans /\ IsFiniteSet(cards)
  BY DEF Working, Names
<1>1. Moves(s) \/ UNCHANGED <<scanner, feed>>
  BY ScanMoves
<1>2. scanner' \in [Scanners -> Processes] /\ FeedTypes'
  <2>1. CASE UNCHANGED <<scanner, feed>>
    BY <2>1, TypeParts DEF FeedTypes, feed
  <2>2. CASE Moves(s)
    <3>1. PICK row : Turn(s, row) /\ Move(s, row)
      BY <2>2 DEF Moves
    <3>2. scanner' \in [Scanners -> Processes]
      BY <3>1, TypeParts DEF Turn
    <3>3. CASE Publishes(s, row)
      BY <1>0, <3>2, <3>3, FeedType DEF Publishes, FeedTypes
    <3>4. CASE UNCHANGED feed
      BY <3>2, <3>4, TypeParts DEF FeedTypes, feed
    <3>5. QED
      BY <3>1, <3>3, <3>4 DEF Move, Ends, GivesUp, LosesLease, Begins, Lists, Reads, Misses,
                              Records
  <2>3. QED
    BY <1>1, <2>1, <2>2
<1>3. LeaseType' /\ RunTypes' /\ cursor' \in [Repos -> CursorRows] /\ faults' \in 0..MaxFaults
  BY <1>0, LeaseTypeStep, RunTypeStep, CursorTypeStep DEF LeaseType
<1>4. UNCHANGED <<clock, provider, account, watch>>
  BY ProcessFrame
<1>5. QED
  BY <1>2, <1>3, <1>4, TypeParts, NextTypeParts DEF ProviderTypes, provider

LEMMA TypeStep ==
  ASSUME TypeOK, Working, [Next]_vars
  PROVE  TypeOK'
<1>1. CASE UNCHANGED vars
  BY <1>1, TypeParts, NextTypeParts
     DEF vars, ProviderTypes, LeaseType, RunTypes, FeedTypes, provider, feed
<1>2. CASE Next
  BY <1>2, ProviderTypeStep, UserTypeStep, TimeTypeStep, ProcessTypeStep DEF Next
<1>3. QED
  BY <1>1, <1>2

-----------------------------------------------------------------------------
(* The theorems. *)

LEMMA InitIndInv == Init => IndInv
<1> SUFFICES ASSUME Init
             PROVE  IndInv
  OBVIOUS
<1>1. MaxTime \in Nat \ {0} /\ LeaseTicks \in Nat \ {0} /\ MaxFaults \in Nat
  BY ScanAssumptions
<1>2. TypeOK
  <2>1. clock \in Times /\ faults \in 0..MaxFaults
    BY <1>1 DEF Init, Times
  <2>2. ProviderTypes
    BY <1>1, EmptySeq DEF Init, ProviderTypes
  <2>3. account \in [Users -> {"active", "deleted"}]
    BY DEF Init
  <2>4. watch \in [Watches -> WatchRows] /\ cursor \in [Repos -> CursorRows]
    <3>1. NoWatch \in WatchRows
      BY <1>1 DEF NoWatch, WatchRows
    <3>2. QED
      BY <3>1, ZeroType DEF Init
  <2>5. LeaseType
    BY <1>1 DEF Init, LeaseType, NoLease
  <2>6. scanner \in [Scanners -> Processes]
    BY IdleType DEF Init
  <2>7. RunTypes
    BY <1>1 DEF Init, RunTypes, NoRun, Checks
  <2>8. FeedTypes
    BY DEF Init, FeedTypes
  <2>9. QED
    BY <2>1, <2>2, <2>3, <2>4, <2>5, <2>6, <2>7, <2>8, TypeParts
<1>3. Working
  <2>1. \A s \in Scanners : /\ scanner[s].pc = "idle" /\ scanner[s].key = 0
                            /\ scanner[s].listed = {} /\ scanner[s].todo = {}
    BY DEF Init, Idle
  <2>2. \A w \in Watches : watch[w].state = "new" /\ watch[w].owner = None
    BY DEF Init, NoWatch
  <2>3. Watched /\ Plans /\ Keys
    BY <2>1, <2>2 DEF Init, Watched, Plans, Plan, Keys
  <2>4. Names
    BY FS_EmptySet DEF Init, Names
  <2>5. QED
    BY <2>3, <2>4 DEF Working
<1>4. Publications
  BY DEF Init, Publications, CardsPartitionEvents, ReferencesResolve, OwnReferences
<1>5. QED
  BY <1>2, <1>3, <1>4 DEF IndInv

LEMMA NextIndInv ==
  ASSUME IndInv, [Next]_vars
  PROVE  IndInv'
  BY TypeStep, WorkingStep, PublicationsStep DEF IndInv

\* Every reachable state satisfies the inductive invariant: types, what processes
\* hold of leases and watches, and what the Feed holds of publications.
THEOREM Invariance == Spec => []IndInv
<1>1. IndInv /\ [Next]_vars => IndInv'
  BY NextIndInv
<1>2. QED
  BY InitIndInv, <1>1, PTL DEF Spec

\* The provider, the watches, the checkpoints, the lease, the processes and the
\* Feed keep their types: every key that NewKey chooses exists, and every time that
\* a checkpoint takes is one of a signal.
THEOREM TypeCorrect == Spec => []TypeOK
<1>1. IndInv => TypeOK
  BY DEF IndInv
<1>2. QED
  BY Invariance, <1>1, PTL

\* Every event is on exactly one card of its watch, and no two cards have one name,
\* however many processes scan, lose their lease, fail and scan again.
THEOREM CardsAlwaysPartitionEvents == Spec => []CardsPartitionEvents
<1>1. IndInv => CardsPartitionEvents
  BY DEF IndInv, Publications
<1>2. QED
  BY Invariance, <1>1, PTL

\* The facts that a release refers to are in the Feed with it, also while accounts
\* are deleted.
THEOREM ReferencesAlwaysResolve == Spec => []ReferencesResolve
<1>1. IndInv => ReferencesResolve
  BY DEF IndInv, Publications
<1>2. QED
  BY Invariance, <1>1, PTL

\* No retry, late scan or second lease changes a card that has been published, or
\* the references of its release, while its owner has an account.
THEOREM PublicationsStayFinal == Spec => PublishedIsFinal
<1> DEFINE Final == \A g \in cards : account'[watch[g.id[1]].owner] = "active" =>
                      /\ g \in cards'
                      /\ g.id[2] = "release" =>
                           refs'[<<g.id[1], g.id[3]>>] = refs[<<g.id[1], g.id[3]>>]
<1>1. IndInv /\ [Next]_vars => [Final]_vars
  BY PublicationsStep DEF IndInv
<1>2. Spec => [][Final]_vars
  BY Invariance, <1>1, PTL DEF Spec
<1>3. QED
  BY <1>2 DEF PublishedIsFinal

-----------------------------------------------------------------------------
(* Checkpoints: no scan takes one back, however late it commits.  A process *)
(* that reads and one that publishes may be any two of them, with any      *)
(* number of leases lost, expired and taken in between; what makes it true *)
(* is that a lease key is never handed out again while a process holds it. *)

\* A branch holds pushed commits, each once.
Histories ==
  \A p \in Repos : \A i \in DOMAIN branch[p] :
    /\ Pushed(branch[p][i])
    /\ \A j \in DOMAIN branch[p] : branch[p][i] = branch[p][j] => i = j

\* A commit that is stored or about to be was pushed.
Seen == /\ \A p \in Repos : cursor[p].sha \in Commits => Pushed(cursor[p].sha)
        /\ \A s \in Scanners : scanner[s].pc = "read" /\ scanner[s].head \in Commits =>
             Pushed(scanner[s].head)

\* OnBranch and Position in the history b of one branch.
In(b, sha) == sha = Root \/ \E i \in DOMAIN b : b[i] = sha
Place(b, sha) == IF sha = Root THEN 0 ELSE CHOOSE i \in DOMAIN b : b[i] = sha

\* The first commit does not come after the second one while both are in it.
InOrder(b, old, new) == In(b, old) /\ In(b, new) => Place(b, old) <= Place(b, new)

\* What the holder of the lease has read begins at the checkpoints as they are.
Current(s) ==
  LET a == scanner[s]
      c == cursor[a.repo]
  IN  /\ a.from.release >= c.release /\ a.from.commit >= c.commit
      /\ a.head # None => InOrder(branch[a.repo], c.sha, a.head)
Fenced == \A s \in Scanners : scanner[s].pc = "read" /\ scanner[s].key = lease.key => Current(s)

Ordered == Histories /\ Seen /\ Fenced

-----------------------------------------------------------------------------
(* Histories. *)

\* A commit that is in a history has one place there.
LEMMA PlaceType ==
  ASSUME NEW b \in Seq(Commits), NEW sha, In(b, sha)
  PROVE  /\ Place(b, sha) \in Nat /\ Place(b, sha) <= Len(b)
         /\ sha # Root => Place(b, sha) \in DOMAIN b /\ b[Place(b, sha)] = sha
<1>1. Len(b) \in Nat /\ DOMAIN b = 1..Len(b)
  BY LenProperties
<1>2. CASE sha = Root
  BY <1>1, <1>2 DEF Place
<1>3. CASE sha # Root
  <2>1. Place(b, sha) \in DOMAIN b /\ b[Place(b, sha)] = sha
    BY <1>3 DEF In, Place
  <2>2. QED
    BY <1>1, <1>3, <2>1
<1>4. QED
  BY <1>2, <1>3

\* A change of a history that puts a commit nowhere new leaves it where it was.
LEMMA StaysInPlace ==
  ASSUME NEW b, NEW d, NEW sha,
         \A i, j \in DOMAIN b : b[i] = b[j] => i = j,
         \A i \in DOMAIN d : d[i] = sha => i \in DOMAIN b /\ b[i] = sha,
         In(d, sha)
  PROVE  In(b, sha) /\ Place(d, sha) = Place(b, sha)
<1>1. CASE sha = Root
  BY <1>1 DEF In, Place
<1>2. CASE sha # Root
  <2>1. PICK i \in DOMAIN d : d[i] = sha
    BY <1>2 DEF In
  <2>2. Place(d, sha) \in DOMAIN d /\ d[Place(d, sha)] = sha
    BY <1>2, <2>1 DEF Place
  <2>3. i \in DOMAIN b /\ b[i] = sha
    BY <2>1
  <2>4. Place(b, sha) \in DOMAIN b /\ b[Place(b, sha)] = sha
    BY <1>2, <2>3 DEF Place
  <2>5. Place(d, sha) \in DOMAIN b /\ b[Place(d, sha)] = sha
    BY <2>2
  <2>6. QED
    BY <2>3, <2>4, <2>5 DEF In
<1>3. QED
  BY <1>1, <1>2

LEMMA StaysInOrder ==
  ASSUME NEW b, NEW d, NEW old, NEW new, InOrder(b, old, new),
         \A i, j \in DOMAIN b : b[i] = b[j] => i = j,
         \A i \in DOMAIN d : d[i] \in {old, new} => i \in DOMAIN b /\ b[i] = d[i]
  PROVE  InOrder(d, old, new)
<1>1. ASSUME In(d, old), In(d, new)
      PROVE  Place(d, old) <= Place(d, new)
  <2>1. In(b, old) /\ Place(d, old) = Place(b, old)
    BY <1>1, StaysInPlace
  <2>2. In(b, new) /\ Place(d, new) = Place(b, new)
    BY <1>1, StaysInPlace
  <2>3. QED
    BY <2>1, <2>2 DEF InOrder
<1>2. QED
  BY <1>1 DEF InOrder

\* HEAD comes after everything in the history.
LEMMA TipIsLast ==
  ASSUME TypeOK, Histories, NEW p \in Repos, NEW sha
  PROVE  InOrder(branch[p], sha, Tip(p))
<1> DEFINE b == branch[p]
<1>1. b \in Seq(Commits) /\ Len(b) \in Nat /\ DOMAIN b = 1..Len(b)
  BY LenProperties DEF TypeOK
<1>2. ASSUME In(b, sha), In(b, Tip(p))
      PROVE  Place(b, sha) <= Place(b, Tip(p))
  <2>1. Place(b, sha) \in Nat /\ Place(b, sha) <= Len(b)
    BY <1>1, <1>2, PlaceType
  <2>2. CASE b = <<>>
    <3>1. Tip(p) = Root /\ Len(b) = 0
      BY <2>2 DEF Tip
    <3>2. Place(b, Tip(p)) = 0
      BY <3>1 DEF Place
    <3>3. QED
      BY <1>1, <2>1, <3>1, <3>2
  <2>3. CASE b # <<>>
    <3>1. Tip(p) = b[Len(b)] /\ Len(b) \in DOMAIN b
      BY <1>1, <2>3, EmptySeq DEF Tip
    <3>2. Tip(p) # Root
      BY <1>1, <3>1, ScanAssumptions
    <3>3. Place(b, Tip(p)) \in DOMAIN b /\ b[Place(b, Tip(p))] = b[Len(b)]
      BY <1>1, <1>2, <3>1, <3>2, PlaceType
    <3>4. Place(b, Tip(p)) = Len(b)
      BY <3>1, <3>3 DEF Histories
    <3>5. QED
      BY <2>1, <3>4
  <2>4. QED
    BY <2>2, <2>3
<1>3. QED
  BY <1>2 DEF InOrder

\* A commit is in order with itself.
LEMMA Reflexive ==
  ASSUME NEW b \in Seq(Commits), NEW sha
  PROVE  InOrder(b, sha, sha)
  BY PlaceType DEF InOrder

-----------------------------------------------------------------------------
(* What the steps of a process make of its read. *)

\* The row of s does not show a read, or it shows the same read as before.
SameRead(s) ==
  scanner'[s].pc = "read" =>
    /\ scanner[s].pc = "read" /\ scanner'[s].key = scanner[s].key
    /\ scanner'[s].repo = scanner[s].repo /\ scanner'[s].from = scanner[s].from
    /\ scanner'[s].head = scanner[s].head /\ scanner'[s].signals = scanner[s].signals
    /\ scanner'[s].releasesDone = scanner[s].releasesDone
    /\ scanner'[s].listed = scanner[s].listed

\* The row shows a read of p that begins at the checkpoints and ends at HEAD.
Linear(p, from) == from.sha = None \/ OnBranch(p, from.sha)
Gathers(s, p, from, commitsDone) ==
  /\ scanner'[s].repo = p /\ scanner'[s].from = from
  /\ scanner'[s].head = IF commitsDone /\ Linear(p, from) THEN Tip(p) ELSE None
  /\ \E rs \in Yield(ReleasesFrom(p, from), scanner'[s].releasesDone),
        cs \in Yield(IF Linear(p, from) THEN CommitsFrom(p, from) ELSE {}, commitsDone) :
       scanner'[s].signals = rs \cup cs
NewRead(s) ==
  /\ scanner[s].pc = "scanning" /\ scanner'[s].pc = "read"
  /\ scanner'[s].key = scanner[s].key /\ scanner'[s].listed = scanner[s].listed
  /\ scanner'[s].todo = scanner[s].todo /\ scanner'[s].failed = scanner[s].failed
  /\ \E p \in scanner[s].todo, commitsDone \in BOOLEAN :
       Gathers(s, p, Boundary(s, p), commitsDone)

LEMMA ReadIsNew ==
  ASSUME TypeOK, NEW s \in Scanners, Read(s)
  PROVE  NewRead(s)
<1> DEFINE R(p, releasesDone, commitsDone) ==
             LET from == Boundary(s, p)
                 linear == from.sha = None \/ OnBranch(p, from.sha)
             IN  /\ scanner[s].pc = "scanning" /\ ~scanner[s].lost
                 /\ IF releasesDone /\ commitsDone THEN faults' = faults ELSE Fault
                 /\ \E rs \in Yield(ReleasesFrom(p, from), releasesDone),
                       cs \in Yield(IF linear THEN CommitsFrom(p, from) ELSE {}, commitsDone) :
                      scanner' = [scanner EXCEPT ![s] =
                        [@ EXCEPT !.pc = "read", !.repo = p, !.from = from,
                                  !.signals = rs \cup cs, !.releasesDone = releasesDone,
                                  !.head = IF commitsDone /\ linear THEN Tip(p) ELSE None]]
                 /\ UNCHANGED <<clock, provider, account, watch, cursor, lease, runRow, feed>>
<1>0. \E p \in scanner[s].todo, releasesDone, commitsDone \in BOOLEAN :
        R(p, releasesDone, commitsDone)
  BY Zenon DEF Read
<1> HIDE DEF R
<1>1. PICK p \in scanner[s].todo, releasesDone \in BOOLEAN, commitsDone \in BOOLEAN :
        R(p, releasesDone, commitsDone)
  BY <1>0, Zenon
<1> DEFINE from == Boundary(s, p)
           head == IF commitsDone /\ Linear(p, from) THEN Tip(p) ELSE None
<1>2. scanner[s].pc = "scanning"
  BY <1>1, Zenon DEF R
<1>3. \E rs \in Yield(ReleasesFrom(p, from), releasesDone),
         cs \in Yield(IF Linear(p, from) THEN CommitsFrom(p, from) ELSE {}, commitsDone) :
        scanner' = [scanner EXCEPT ![s] =
          [@ EXCEPT !.pc = "read", !.repo = p, !.from = from, !.signals = rs \cup cs,
                    !.releasesDone = releasesDone, !.head = head]]
  BY <1>1, Zenon DEF R, Linear
<1> HIDE DEF from, head
<1>4. PICK rs \in Yield(ReleasesFrom(p, from), releasesDone),
           cs \in Yield(IF Linear(p, from) THEN CommitsFrom(p, from) ELSE {}, commitsDone) :
        scanner' = [scanner EXCEPT ![s] =
          [@ EXCEPT !.pc = "read", !.repo = p, !.from = from, !.signals = rs \cup cs,
                    !.releasesDone = releasesDone, !.head = head]]
  BY <1>3
<1> DEFINE row == [scanner[s] EXCEPT !.pc = "read", !.repo = p, !.from = from,
                     !.signals = rs \cup cs, !.releasesDone = releasesDone, !.head = head]
<1>5. scanner[s] \in Processes
  BY DEF TypeOK
<1>6. /\ row.pc = "read" /\ row.key = scanner[s].key /\ row.listed = scanner[s].listed
      /\ row.repo = p /\ row.from = from /\ row.head = head /\ row.signals = rs \cup cs
      /\ row.releasesDone = releasesDone
      /\ row.todo = scanner[s].todo /\ row.failed = scanner[s].failed
  BY <1>5 DEF Processes
<1>7. scanner'[s] = row
  BY <1>4 DEF TypeOK
<1> HIDE DEF row
<1>8. Gathers(s, p, from, commitsDone)
  BY <1>4, <1>6, <1>7, Zenon DEF Gathers, head
<1>9. QED
  BY <1>2, <1>6, <1>7, <1>8 DEF NewRead, from

\* Every other step of a process ends its read or leaves it as it is.
LEMMA OtherReads ==
  ASSUME TypeOK, Working, NEW s \in Scanners, Scan(s) \/ Renew(s) \/ ScanFails(s)
  PROVE  /\ NewRead(s) \/ SameRead(s)
         /\ \A t \in Scanners : t # s => scanner'[t] = scanner[t]
<1>0. Watched /\ Plans /\ IsFiniteSet(cards)
  BY DEF Working, Names
<1>1. \A t \in Scanners : t # s => scanner'[t] = scanner[t]
  <2>1. Moves(s) \/ UNCHANGED <<scanner, feed>>
    BY ScanMoves
  <2>2. QED
    BY <2>1, TurnRows DEF Moves
<1>2. ASSUME NEW row, Turn(s, row), row.pc # "read"
      PROVE  SameRead(s)
  BY <1>2, TurnRows DEF SameRead
<1>3. ASSUME Discarded(s)
      PROVE  SameRead(s)
  BY <1>2, <1>3, DropTurn DEF Dropped
<1>4. ASSUME scanner' = [scanner EXCEPT ![s].lost = TRUE]
      PROVE  SameRead(s)
  <2> DEFINE row == [scanner[s] EXCEPT !.lost = TRUE]
  <2>1. scanner'[s] = row /\ scanner[s] \in Processes
    BY <1>4 DEF TypeOK
  <2>2. /\ row.pc = scanner[s].pc /\ row.key = scanner[s].key /\ row.repo = scanner[s].repo
        /\ row.from = scanner[s].from /\ row.head = scanner[s].head
        /\ row.signals = scanner[s].signals /\ row.releasesDone = scanner[s].releasesDone
        /\ row.listed = scanner[s].listed
    BY <2>1 DEF Processes
  <2> HIDE DEF row
  <2>3. QED
    BY <2>1, <2>2 DEF SameRead
<1>5. CASE Acquire(s)
  BY <1>0, <1>1, <1>2, <1>5, AcquireTurn
<1>6. CASE Start(s)
  BY <1>0, <1>1, <1>2, <1>6, StartTurn DEF Dropped
<1>7. CASE Read(s)
  BY <1>7, ReadIsNew, <1>1
<1>8. ASSUME NEW p \in Repos \cup {None}, NEW check \in Checks, Checked(s, p, check)
      PROVE  SameRead(s)
  BY <1>2, <1>8, CheckedTurn DEF GoesOn
<1>9. CASE Persist(s)
  <2>1. scanner[s].repo \in Repos \cup {None}
    BY DEF TypeOK, Processes
  <2>2. Discarded(s) \/ \E check \in Checks : Checked(s, scanner[s].repo, check)
    BY <1>9, PersistCases
  <2>3. QED
    BY <1>1, <1>3, <1>8, <2>1, <2>2
<1>10. CASE RecordCheck(s)
  BY <1>1, <1>2, <1>10, RecordTurn DEF Dropped
<1>11. CASE Finish(s) \/ Discard(s) \/ RunFails(s)
  <2>1. Discarded(s)
    BY <1>11, Zenon DEF Finish, Discard, RunFails
  <2>2. QED
    BY <1>1, <1>3, <2>1
<1>12. CASE Release(s) \/ Crash(s)
  <2>1. scanner' = [scanner EXCEPT ![s] = Idle]
    BY <1>12 DEF Release, Crash
  <2>2. Turn(s, Idle) /\ Idle.pc = "idle"
    BY <2>1, IdleType DEF Turn, Idle
  <2>3. QED
    BY <1>1, <1>2, <2>2
<1>13. CASE Renew(s)
  <2>1. scanner' = scanner \/ scanner' = [scanner EXCEPT ![s].lost = TRUE]
    BY <1>13, Zenon DEF Renew
  <2>2. scanner' = scanner => SameRead(s)
    BY DEF SameRead
  <2>3. QED
    BY <1>1, <1>4, <2>1, <2>2
<1>14. CASE RenewFails(s)
  BY <1>1, <1>4, <1>14 DEF RenewFails
<1>15. CASE RepositoryFails(s)
  <2>1. \E p \in scanner[s].todo \cup {scanner[s].repo} : Checked(s, p, "failed")
    BY <1>15, Zenon DEF RepositoryFails
  <2>2. scanner[s].todo \cup {scanner[s].repo} \subseteq Repos \cup {None}
    BY DEF TypeOK, Processes
  <2>3. "failed" \in Checks
    BY DEF Checks
  <2>4. QED
    BY <1>1, <1>8, <2>1, <2>2, <2>3
<1>16. QED
  BY <1>1, <1>5, <1>6, <1>7, <1>9, <1>10, <1>11, <1>12, <1>13, <1>14, <1>15
     DEF Scan, ScanFails

-----------------------------------------------------------------------------
(* The invariant of the checkpoints is inductive. *)

\* The provider alone moves histories, the holder of the lease alone checkpoints,
\* and a key is given only to a process that did not have it.
LEMMA LeaseKeys ==
  ASSUME TypeOK, Working, NEW s \in Scanners, Scan(s) \/ Renew(s) \/ ScanFails(s)
  PROVE  \A t \in Scanners :
           scanner'[t].pc = "read" /\ scanner'[t].key = lease'.key => lease'.key = lease.key
<1>0. IsFiniteSet(cards) /\ Keys
  BY DEF Working, Names
<1>1. /\ NewRead(s) \/ SameRead(s)
      /\ \A t \in Scanners : t # s => scanner'[t] = scanner[t]
  BY OtherReads
<1>2. \A t \in Scanners : scanner'[t].pc = "read" =>
        scanner'[t].key = scanner[t].key /\ scanner[t].key # 0
  BY <1>0, <1>1 DEF NewRead, SameRead, Keys
<1>3. CASE Acquire(s)
  <2>1. lease'.key = NewKey
    BY <1>3 DEF Acquire
  <2>2. QED
    BY <1>0, <1>2, <2>1, FreshKey
<1>4. CASE Release(s)
  <2>1. lease'.key = 0 \/ lease' = lease
    BY <1>4 DEF Release, NoLease
  <2>2. QED
    BY <1>2, <2>1
<1>5. CASE Renew(s)
  <2>1. lease' = lease \/ lease' = [lease EXCEPT !.left = Renewed(lease.left)]
    BY <1>5, Zenon DEF Renew
  <2>2. QED
    BY <2>1 DEF TypeOK
<1>6. CASE Persist(s)
  BY <1>6, PersistCases
<1>7. CASE Read(s) \/ Start(s) \/ RecordCheck(s) \/ Finish(s) \/ Discard(s) \/ ScanFails(s)
  <2>1. UNCHANGED lease
    BY <1>7, Zenon DEF Read, Start, RecordCheck, Finish, Discard, ScanFails, RepositoryFails,
                       RunFails, RenewFails, Crash
  <2>2. QED
    BY <2>1
<1>8. QED
  BY <1>3, <1>4, <1>5, <1>6, <1>7 DEF Scan

\* The checkpoints of a publication are the ones of its read.
LEMMA PersistMoves ==
  ASSUME TypeOK, Working, NEW s \in Scanners, Scan(s) \/ Renew(s) \/ ScanFails(s)
  PROVE  \/ UNCHANGED cursor
         \/ /\ scanner[s].pc = "read" /\ scanner[s].key = lease.key
            /\ scanner'[s].pc # "read" /\ UNCHANGED lease
            /\ scanner[s].repo \in Repos /\ Advanced(s) \in CursorRows
            /\ cursor' = [cursor EXCEPT ![scanner[s].repo] = Advanced(s)]
<1>1. CASE Persist(s)
  <2>1. /\ scanner[s].pc = "read" /\ UNCHANGED lease
        /\ \/ UNCHANGED cursor
           \/ /\ Owns(s) /\ cursor' = [cursor EXCEPT ![scanner[s].repo] = Advanced(s)]
              /\ \E check \in Checks : Checked(s, scanner[s].repo, check)
    BY <1>1, PersistCases
  <2>2. CASE UNCHANGED cursor
    BY <2>2
  <2>3. CASE ~UNCHANGED cursor
    <3>1. scanner[s].repo \in Repos /\ Advanced(s) \in CursorRows
      BY <2>1, AdvancedType DEF Working
    <3>2. scanner'[s].pc # "read"
      BY <2>1, <2>3, <3>1, CheckedTurn, TurnRows DEF GoesOn
    <3>3. QED
      BY <2>1, <2>3, <3>1, <3>2 DEF Owns
  <2>4. QED
    BY <2>2, <2>3
<1>2. CASE Read(s)
  BY <1>2, Zenon DEF Read
<1>3. CASE Acquire(s) \/ Start(s) \/ RecordCheck(s) \/ Finish(s) \/ Discard(s) \/ Release(s)
           \/ Renew(s)
  BY <1>3, Zenon DEF Acquire, Start, RecordCheck, Finish, Discard, Release, Renew
<1>4. CASE ScanFails(s)
  BY <1>4, Zenon DEF ScanFails, RepositoryFails, RunFails, RenewFails, Crash
<1>5. QED
  BY <1>1, <1>2, <1>3, <1>4 DEF Scan

\* A process that holds the lease moves each checkpoint forward.
LEMMA AdvancesFrom ==
  ASSUME TypeOK, Working, Ordered, NEW s \in Scanners,
         scanner[s].pc = "read", scanner[s].key = lease.key
  PROVE  LET p == scanner[s].repo IN
         /\ Advanced(s).release >= cursor[p].release
         /\ Advanced(s).commit >= cursor[p].commit
         /\ cursor[p].sha # None => /\ Advanced(s).sha # None
                                    /\ InOrder(branch[p], cursor[p].sha, Advanced(s).sha)
         /\ Advanced(s).sha \in Commits => Pushed(Advanced(s).sha)
<1> DEFINE a == scanner[s]
           c == cursor[a.repo]
<1>0. Plans /\ Fenced /\ Seen
  BY DEF Working, Ordered
<1>1. /\ a.signals \in SUBSET Items /\ a.from \in CursorRows /\ a.repo \in Repos /\ c \in CursorRows
  BY <1>0, AdvancedType DEF TypeOK, Processes
<1>2. Current(s)
  BY <1>0 DEF Fenced
<1>3. /\ a.from.release \in 0..MaxTime /\ a.from.commit \in 0..MaxTime
      /\ c.release \in 0..MaxTime /\ c.commit \in 0..MaxTime /\ MaxTime \in Nat
  BY <1>1, ScanAssumptions DEF CursorRows
<1>4. /\ Latest(a.signals \cap Releases, a.from.release) \in 0..MaxTime
      /\ Latest(a.signals \cap Releases, a.from.release) >= a.from.release
      /\ Latest(a.signals \cap Commits, a.from.commit) \in 0..MaxTime
      /\ Latest(a.signals \cap Commits, a.from.commit) >= a.from.commit
  BY <1>1, <1>3, LatestType
<1>5. a.from.release >= c.release /\ a.from.commit >= c.commit
      /\ (a.head # None => InOrder(branch[a.repo], c.sha, a.head))
  BY <1>2 DEF Current
<1>6. Advanced(s) = [release |-> IF a.releasesDone THEN Latest(a.signals \cap Releases, a.from.release)
                                 ELSE c.release,
                     commit |-> IF a.head # None THEN Latest(a.signals \cap Commits, a.from.commit)
                                ELSE c.commit,
                     sha |-> IF a.head # None THEN a.head ELSE c.sha]
  BY Zenon DEF Advanced
<1>7. Advanced(s).release >= c.release /\ Advanced(s).commit >= c.commit
  <2> DEFINE R == Latest(a.signals \cap Releases, a.from.release)
             C == Latest(a.signals \cap Commits, a.from.commit)
  <2>1. R >= c.release /\ C >= c.commit /\ c.release >= c.release /\ c.commit >= c.commit
    <3> HIDE DEF a
    <3>1. QED
      BY <1>3, <1>4, <1>5
  <2> HIDE DEF R, C
  <2>2. QED
    BY <1>6, <2>1 DEF R, C
<1>8. Advanced(s).sha = IF a.head # None THEN a.head ELSE c.sha
  BY <1>6
<1>9. branch[a.repo] \in Seq(Commits)
  BY <1>1 DEF TypeOK
<1>10. InOrder(branch[a.repo], c.sha, Advanced(s).sha)
  BY <1>5, <1>8, <1>9, Reflexive
<1>11. Advanced(s).sha \in Commits => Pushed(Advanced(s).sha)
  BY <1>0, <1>1, <1>8 DEF Seen
<1>12. QED
  BY <1>7, <1>8, <1>10, <1>11

\* A new read begins at the checkpoints as they are and ends at HEAD.
LEMMA NewReadIsCurrent ==
  ASSUME TypeOK, Working, Ordered, NEW s \in Scanners, NewRead(s)
  PROVE  LET a == scanner'[s]
             c == cursor[a.repo]
         IN  /\ a.repo \in Repos
             /\ a.from.release >= c.release /\ a.from.commit >= c.commit
             /\ a.head # None => InOrder(branch[a.repo], c.sha, a.head)
             /\ a.head \in Commits => Pushed(a.head)
<1>0. PICK p \in scanner[s].todo, commitsDone \in BOOLEAN :
        Gathers(s, p, Boundary(s, p), commitsDone)
  BY DEF NewRead
<1> DEFINE from == Boundary(s, p)
<1>1. p \in Repos /\ from \in CursorRows
  BY BoundaryType DEF Working, TypeOK, Processes
<1>2. cursor[p] \in CursorRows /\ MaxTime \in Nat
  BY <1>1, ScanAssumptions DEF TypeOK
<1>3. from.release >= cursor[p].release /\ from.commit >= cursor[p].commit
  <2>1. /\ cursor[p].release \in 0..MaxTime /\ cursor[p].commit \in 0..MaxTime
        /\ from.release \in 0..MaxTime /\ from.commit \in 0..MaxTime
    BY <1>1, <1>2 DEF CursorRows
  <2>2. /\ cursor[p].release # 0 => from.release = cursor[p].release
        /\ cursor[p].commit # 0 => from.commit = cursor[p].commit
    BY <1>2 DEF Boundary, CursorRows
  <2> HIDE DEF from
  <2>3. QED
    BY <1>2, <2>1, <2>2
<1>4. InOrder(branch[p], cursor[p].sha, Tip(p))
  BY <1>1, TipIsLast DEF Ordered
<1>5. Tip(p) \in Commits => Pushed(Tip(p))
  <2>1. branch[p] \in Seq(Commits)
    BY <1>1 DEF TypeOK
  <2>2. branch[p] # <<>> => Len(branch[p]) \in DOMAIN branch[p]
    BY <2>1, LenProperties, EmptySeq
  <2>3. QED
    BY <1>1, <2>2, ScanAssumptions DEF Tip, Ordered, Histories
<1>6. None \notin Commits
  BY ScanAssumptions
<1>7. /\ scanner'[s].repo = p /\ scanner'[s].from = from
      /\ scanner'[s].head \in {None, Tip(p)}
  BY <1>0 DEF Gathers
<1> HIDE DEF from
<1>8. QED
  BY <1>1, <1>3, <1>4, <1>5, <1>6, <1>7

LEMMA ProcessKeepsOrder ==
  ASSUME TypeOK, Working, Ordered, NEW s \in Scanners, Scan(s) \/ Renew(s) \/ ScanFails(s)
  PROVE  Ordered'
<1>0. Histories /\ Seen /\ Fenced /\ Keys /\ Plans
  BY DEF Ordered, Working
<1>1. UNCHANGED <<branch, date>>
  BY ProcessFrame DEF provider
<1>2. NewRead(s) \/ SameRead(s)
  BY OtherReads
<1>3. \A t \in Scanners : t # s => scanner'[t] = scanner[t]
  BY OtherReads
<1>4. \/ UNCHANGED cursor
      \/ /\ scanner[s].pc = "read" /\ scanner[s].key = lease.key
         /\ scanner'[s].pc # "read" /\ UNCHANGED lease
         /\ scanner[s].repo \in Repos /\ Advanced(s) \in CursorRows
         /\ cursor' = [cursor EXCEPT ![scanner[s].repo] = Advanced(s)]
  BY PersistMoves
<1>5. Histories'
  BY <1>0, <1>1 DEF Histories, Pushed
<1>6. Seen'
  <2>1. \A p \in Repos : cursor'[p].sha \in Commits => Pushed(cursor'[p].sha)
    <3>1. CASE UNCHANGED cursor
      BY <1>0, <3>1 DEF Seen
    <3>2. CASE ~UNCHANGED cursor
      <4>1. Advanced(s).sha \in Commits => Pushed(Advanced(s).sha)
        BY <1>4, <3>2, AdvancesFrom
      <4>2. \A p \in Repos : cursor'[p] = IF p = scanner[s].repo THEN Advanced(s) ELSE cursor[p]
        BY <1>4, <3>2 DEF TypeOK
      <4>3. QED
        BY <1>0, <4>1, <4>2 DEF Seen
    <3>3. QED
      BY <3>1, <3>2
  <2>2. scanner'[s].pc = "read" /\ scanner'[s].head \in Commits => Pushed(scanner'[s].head)
    <3>1. CASE NewRead(s)
      BY <3>1, NewReadIsCurrent
    <3>2. CASE SameRead(s)
      BY <1>0, <3>2 DEF SameRead, Seen
    <3>3. QED
      BY <1>2, <3>1, <3>2
  <2>3. \A t \in Scanners : scanner'[t].pc = "read" /\ scanner'[t].head \in Commits =>
          Pushed(scanner'[t].head)
    BY <1>0, <1>3, <2>2 DEF Seen
  <2>4. \A c \in Commits : Pushed(c) => Pushed(c)'
    BY <1>1 DEF Pushed
  <2>5. QED
    BY <2>1, <2>3, <2>4 DEF Seen
<1>7. Fenced'
  <2>1. ASSUME NEW t \in Scanners, scanner'[t].pc = "read", scanner'[t].key = lease'.key
        PROVE  /\ scanner'[t].from.release >= cursor'[scanner'[t].repo].release
               /\ scanner'[t].from.commit >= cursor'[scanner'[t].repo].commit
               /\ scanner'[t].head # None =>
                    InOrder(branch'[scanner'[t].repo], cursor'[scanner'[t].repo].sha,
                            scanner'[t].head)
    <3>1. lease'.key = lease.key
      BY <2>1, LeaseKeys
    <3>2. UNCHANGED cursor
      <4>1. ASSUME ~UNCHANGED cursor
            PROVE  FALSE
        <5>1. t # s /\ scanner[s].key = lease.key /\ scanner[s].pc = "read"
          BY <1>4, <2>1, <4>1
        <5>2. scanner[t].key = scanner[s].key /\ scanner[s].key # 0
          BY <1>0, <1>3, <2>1, <3>1, <5>1 DEF Keys
        <5>3. QED
          BY <1>0, <5>1, <5>2 DEF Keys
      <4>2. QED
        BY <4>1
    <3>3. CASE t = s /\ NewRead(s)
      BY <1>1, <3>2, <3>3, NewReadIsCurrent
    <3>4. CASE \/ t # s
               \/ t = s /\ SameRead(s)
      <4>1. /\ scanner[t].pc = "read" /\ scanner[t].key = lease.key
            /\ scanner'[t].repo = scanner[t].repo /\ scanner'[t].from = scanner[t].from
            /\ scanner'[t].head = scanner[t].head
        BY <1>3, <2>1, <3>1, <3>4 DEF SameRead
      <4>2. Current(t)
        BY <1>0, <4>1 DEF Fenced
      <4>3. QED
        BY <1>1, <3>2, <4>1, <4>2 DEF Current
    <3>5. QED
      BY <1>2, <3>3, <3>4
  <2>2. QED
    BY <2>1 DEF Fenced, Current
<1>8. QED
  BY <1>5, <1>6, <1>7 DEF Ordered

\* New commits come after all others, and a force push leaves the rest in place.
LEMMA ProviderKeepsOrder ==
  ASSUME TypeOK, Working, Ordered, ProviderStep
  PROVE  Ordered'
<1>0. Histories /\ Seen /\ Fenced /\ Plans
  BY DEF Ordered, Working
<1>1. UNCHANGED <<cursor, lease, scanner>>
  BY DEF ProviderStep, PublishRelease, Push, Rewrite
<1>2. \A p \in Repos : /\ branch[p] \in Seq(Commits) /\ Len(branch[p]) \in Nat
                       /\ DOMAIN branch[p] = 1..Len(branch[p])
  BY LenProperties DEF TypeOK
<1>3. \A s \in Scanners : scanner[s].pc = "read" => scanner[s].repo \in Repos
  BY <1>0 DEF Plans, Plan, TypeOK, Processes
<1>4. ASSUME \A c \in Commits : Pushed(c) => Pushed(c)', Histories',
             \A p \in Repos, old, new \in {c \in Commits : Pushed(c)} \cup {Root, None} :
               InOrder(branch[p], old, new) => InOrder(branch'[p], old, new)
      PROVE  Ordered'
  <2>1. Seen'
    BY <1>0, <1>1, <1>4 DEF Seen
  <2>2. ASSUME NEW s \in Scanners, scanner[s].pc = "read", scanner[s].key = lease.key
        PROVE  Current(s)'
    <3> DEFINE a == scanner[s]
               c == cursor[a.repo]
    <3>1. Current(s) /\ a.repo \in Repos
      BY <1>0, <1>3, <2>2 DEF Fenced
    <3>2. c.sha \in {d \in Commits : Pushed(d)} \cup {Root, None}
      BY <1>0, <3>1 DEF Seen, TypeOK, CursorRows, Shas
    <3>3. a.head \in {d \in Commits : Pushed(d)} \cup {Root, None}
      BY <1>0, <2>2 DEF Seen, TypeOK, Processes, Shas
    <3>4. a.head # None => InOrder(branch'[a.repo], c.sha, a.head)
      BY <1>4, <3>1, <3>2, <3>3 DEF Current
    <3>5. QED
      BY <1>1, <3>1, <3>4 DEF Current
  <2>3. Fenced'
    BY <1>1, <2>2 DEF Fenced
  <2>4. QED
    BY <1>4, <2>1, <2>3 DEF Ordered
<1>5. ASSUME NEW p \in Repos, NEW r \in Releases, PublishRelease(p, r)
      PROVE  Ordered'
  BY <1>0, <1>1, <1>4, <1>5 DEF PublishRelease, Histories, Pushed
<1>6. ASSUME NEW p \in Repos, NEW c \in Commits, Push(p, c)
      PROVE  Ordered'
  <2>1. PICK d \in {1, clock} : date' = [date EXCEPT ![c] = d]
    BY <1>6 DEF Push
  <2>2. d > 0
    BY DEF TypeOK, Times
  <2>3. ~Pushed(c) /\ Pushed(c)' /\ \A x \in Commits : Pushed(x) => Pushed(x)'
    BY <1>6, <2>1, <2>2 DEF Push, Pushed, TypeOK
  <2>4. \A q \in Repos : branch'[q] = IF q = p THEN Append(branch[p], c) ELSE branch[q]
    BY <1>6 DEF Push, TypeOK
  <2>5. /\ DOMAIN branch'[p] = 1..(Len(branch[p]) + 1)
        /\ \A i \in DOMAIN branch'[p] : IF i \in DOMAIN branch[p] THEN branch'[p][i] = branch[p][i]
                                        ELSE i = Len(branch[p]) + 1 /\ branch'[p][i] = c
    <3>1. branch'[p] = Append(branch[p], c) /\ branch[p] \in Seq(Commits)
      BY <1>2, <2>4
    <3>2. DOMAIN branch[p] = 1..Len(branch[p]) /\ Len(branch[p]) \in Nat
      BY <1>2
    <3>3. /\ Append(branch[p], c) \in Seq(Commits)
          /\ Len(Append(branch[p], c)) = Len(branch[p]) + 1
          /\ \A i \in 1..Len(branch[p]) : Append(branch[p], c)[i] = branch[p][i]
          /\ Append(branch[p], c)[Len(branch[p]) + 1] = c
      BY <3>1, AppendProperties
    <3>4. DOMAIN Append(branch[p], c) = 1..(Len(branch[p]) + 1)
      BY <3>3, LenProperties
    <3>5. QED
      BY <3>1, <3>2, <3>3, <3>4
  <2>6. \A q \in Repos : \A i \in DOMAIN branch[q] : branch[q][i] \in Commits /\ branch[q][i] # c
    BY <1>0, <1>2, <2>3 DEF Histories
  <2>7. Histories'
    <3>1. ASSUME NEW i \in DOMAIN branch'[p]
          PROVE  /\ date'[branch'[p][i]] > 0
                 /\ \A j \in DOMAIN branch'[p] : branch'[p][i] = branch'[p][j] => i = j
      <4>1. date'[branch'[p][i]] > 0
        BY <1>0, <2>3, <2>5, <2>6 DEF Histories, Pushed
      <4>2. \A j \in DOMAIN branch'[p] : branch'[p][i] = branch'[p][j] => i = j
        BY <1>0, <2>5, <2>6 DEF Histories
      <4>3. QED
        BY <4>1, <4>2
    <3>2. ASSUME NEW q \in Repos, q # p, NEW i \in DOMAIN branch[q]
          PROVE  /\ date'[branch[q][i]] > 0
                 /\ \A j \in DOMAIN branch[q] : branch[q][i] = branch[q][j] => i = j
      BY <1>0, <2>3, <2>6, <3>2 DEF Histories, Pushed
    <3>3. QED
      BY <2>4, <3>1, <3>2 DEF Histories, Pushed
  <2>8. ASSUME NEW q \in Repos, NEW old \in {x \in Commits : Pushed(x)} \cup {Root, None},
               NEW new \in {x \in Commits : Pushed(x)} \cup {Root, None},
               InOrder(branch[q], old, new)
        PROVE  InOrder(branch'[q], old, new)
    <3>1. old # c /\ new # c
      BY <2>3, ScanAssumptions
    <3>2. \A i \in DOMAIN branch'[q] : branch'[q][i] \in {old, new} =>
            i \in DOMAIN branch[q] /\ branch[q][i] = branch'[q][i]
      BY <2>4, <2>5, <3>1
    <3>3. \A i, j \in DOMAIN branch[q] : branch[q][i] = branch[q][j] => i = j
      BY <1>0 DEF Histories
    <3>4. QED
      BY <2>8, <3>2, <3>3, StaysInOrder
  <2>9. QED
    BY <1>4, <2>3, <2>7, <2>8
<1>7. ASSUME NEW p \in Repos, Rewrite(p)
      PROVE  Ordered'
  <2> DEFINE n == Len(branch[p])
  <2>1. branch[p] # <<>> /\ date' = date
        /\ \A q \in Repos : branch'[q] = IF q = p THEN SubSeq(branch[p], 1, n - 1) ELSE branch[q]
    BY <1>7 DEF Rewrite, TypeOK
  <2>2. n \in Nat /\ n > 0 /\ DOMAIN branch[p] = 1..n
    BY <1>2, <2>1, EmptySeq
  <2>3. /\ DOMAIN branch'[p] = 1..(n - 1)
        /\ \A i \in 1..(n - 1) : branch'[p][i] = branch[p][i]
    <3>1. /\ Len(SubSeq(branch[p], 1, n - 1)) = n - 1
          /\ SubSeq(branch[p], 1, n - 1) \in Seq(Commits)
          /\ \A i \in 1..(n - 1) : SubSeq(branch[p], 1, n - 1)[i] = branch[p][i]
      BY <1>2, <2>2, SubSeqProperties
    <3>2. DOMAIN SubSeq(branch[p], 1, n - 1) = 1..(n - 1)
      BY <3>1, LenProperties
    <3>3. QED
      BY <2>1, <3>1, <3>2
  <2>4. \A q \in Repos : \A i \in DOMAIN branch'[q] :
          i \in DOMAIN branch[q] /\ branch[q][i] = branch'[q][i]
    BY <2>1, <2>2, <2>3
  <2>5. Histories'
    BY <1>0, <2>1, <2>4 DEF Histories, Pushed
  <2>6. ASSUME NEW q \in Repos, NEW old, NEW new, InOrder(branch[q], old, new)
        PROVE  InOrder(branch'[q], old, new)
    <3>1. \A i, j \in DOMAIN branch[q] : branch[q][i] = branch[q][j] => i = j
      BY <1>0 DEF Histories
    <3>2. QED
      BY <2>4, <2>6, <3>1, StaysInOrder
  <2>7. \A x \in Commits : Pushed(x) => Pushed(x)'
    BY <2>1 DEF Pushed
  <2>8. QED
    BY <1>4, <2>5, <2>6, <2>7
<1>8. QED
  BY <1>5, <1>6, <1>7 DEF ProviderStep

LEMMA OrderedStep ==
  ASSUME TypeOK, Working, Ordered, [Next]_vars
  PROVE  Ordered'
<1>1. ASSUME UNCHANGED <<branch, date, cursor, scanner>>, lease'.key = lease.key
      PROVE  Ordered'
  BY <1>1 DEF Ordered, Histories, Seen, Fenced, Current, Pushed
<1>2. CASE UNCHANGED vars
  BY <1>1, <1>2 DEF vars, provider
<1>3. CASE Advance \/ LeaseTick
  <2>1. lease'.key = lease.key
    BY <1>3 DEF Advance, LeaseTick, TypeOK
  <2>2. QED
    BY <1>1, <1>3, <2>1 DEF Advance, LeaseTick, provider
<1>4. CASE UserStep
  BY <1>1, <1>4 DEF UserStep, Subscribe, Unsubscribe, DeleteAccount, provider
<1>5. CASE ProviderStep
  BY <1>5, ProviderKeepsOrder
<1>6. ASSUME NEW s \in Scanners, Scan(s) \/ Renew(s) \/ ScanFails(s)
      PROVE  Ordered'
  BY <1>6, ProcessKeepsOrder
<1>7. QED
  BY <1>2, <1>3, <1>4, <1>5, <1>6 DEF Next

LEMMA InitOrdered == Init => Ordered
<1> SUFFICES ASSUME Init
             PROVE  Ordered
  OBVIOUS
<1>1. \A p \in Repos : branch[p] = <<>> /\ cursor[p].sha = None
  BY DEF Init, NoCursor
<1>2. \A s \in Scanners : scanner[s].pc = "idle"
  BY DEF Init, Idle
<1>3. QED
  BY <1>1, <1>2, ScanAssumptions DEF Ordered, Histories, Seen, Fenced

-----------------------------------------------------------------------------
(* The theorem about checkpoints. *)

\* What one step may make of the checkpoints.
Forward ==
  \A p \in Repos :
    /\ cursor'[p].release >= cursor[p].release
    /\ cursor'[p].commit >= cursor[p].commit
    /\ cursor[p].sha # None =>
         /\ cursor'[p].sha # None
         /\ OnBranch(p, cursor[p].sha) /\ OnBranch(p, cursor'[p].sha) =>
              Position(p, cursor[p].sha) <= Position(p, cursor'[p].sha)

LEMMA ForwardStep ==
  ASSUME TypeOK, Working, Ordered, [Next]_vars
  PROVE  Forward
<1>1. \A p \in Repos : /\ cursor[p].release >= cursor[p].release
                       /\ cursor[p].commit >= cursor[p].commit
                       /\ InOrder(branch[p], cursor[p].sha, cursor[p].sha)
  <2>1. \A p \in Repos : /\ cursor[p].release \in 0..MaxTime /\ cursor[p].commit \in 0..MaxTime
                         /\ branch[p] \in Seq(Commits)
    BY DEF TypeOK, CursorRows
  <2>2. MaxTime \in Nat
    BY ScanAssumptions
  <2>3. QED
    BY <2>1, <2>2, Reflexive
<1>2. \/ UNCHANGED cursor
      \/ \E s \in Scanners :
           /\ scanner[s].pc = "read" /\ scanner[s].key = lease.key /\ scanner[s].repo \in Repos
           /\ cursor' = [cursor EXCEPT ![scanner[s].repo] = Advanced(s)]
  <2>1. CASE UNCHANGED vars \/ ProviderStep \/ UserStep \/ Advance \/ LeaseTick
    BY <2>1 DEF vars, ProviderStep, PublishRelease, Push, Rewrite, UserStep, Subscribe,
                Unsubscribe, DeleteAccount, Advance, LeaseTick
  <2>2. ASSUME NEW s \in Scanners, Scan(s) \/ Renew(s) \/ ScanFails(s)
        PROVE  \/ UNCHANGED cursor
               \/ /\ scanner[s].pc = "read" /\ scanner[s].key = lease.key
                  /\ scanner[s].repo \in Repos
                  /\ cursor' = [cursor EXCEPT ![scanner[s].repo] = Advanced(s)]
    BY <2>2, PersistMoves
  <2>3. QED
    BY <2>1, <2>2 DEF Next
<1>3. \A p \in Repos : /\ cursor'[p].release >= cursor[p].release
                       /\ cursor'[p].commit >= cursor[p].commit
                       /\ cursor[p].sha # None =>
                            /\ cursor'[p].sha # None
                            /\ InOrder(branch[p], cursor[p].sha, cursor'[p].sha)
  <2>1. CASE UNCHANGED cursor
    BY <1>1, <2>1
  <2>2. CASE ~UNCHANGED cursor
    <3>1. PICK s \in Scanners :
            /\ scanner[s].pc = "read" /\ scanner[s].key = lease.key /\ scanner[s].repo \in Repos
            /\ cursor' = [cursor EXCEPT ![scanner[s].repo] = Advanced(s)]
      BY <1>2, <2>2
    <3> DEFINE q == scanner[s].repo
    <3>2. /\ Advanced(s).release >= cursor[q].release
          /\ Advanced(s).commit >= cursor[q].commit
          /\ cursor[q].sha # None => /\ Advanced(s).sha # None
                                     /\ InOrder(branch[q], cursor[q].sha, Advanced(s).sha)
      BY <3>1, AdvancesFrom
    <3>3. \A p \in Repos : cursor'[p] = IF p = q THEN Advanced(s) ELSE cursor[p]
      BY <3>1 DEF TypeOK
    <3> HIDE DEF q
    <3>4. QED
      BY <1>1, <3>2, <3>3
  <2>3. QED
    BY <2>1, <2>2
<1>4. \A p \in Repos : \A sha : /\ OnBranch(p, sha) <=> In(branch[p], sha)
                               /\ Position(p, sha) = Place(branch[p], sha)
  BY DEF OnBranch, In, Position, Place
<1>5. QED
  BY <1>3, <1>4 DEF Forward, InOrder

\* No scan, however late, takes a checkpoint back to an earlier time or commit: a
\* process publishes only under the key it read with, and while that key is the
\* lease's nobody else has moved the checkpoints.
THEOREM CheckpointsGoForward == Spec => CheckpointsOnlyAdvance
<1> DEFINE Both == IndInv /\ Ordered
<1>1. Init => Both
  BY InitIndInv, InitOrdered
<1>2. Both /\ [Next]_vars => Both'
  BY NextIndInv, OrderedStep DEF IndInv
<1>3. Both /\ [Next]_vars => [Forward]_vars
  BY ForwardStep DEF IndInv
<1>4. Spec => [][Forward]_vars
  <2> HIDE DEF Both
  <2>1. QED
    BY <1>1, <1>2, <1>3, PTL DEF Spec
<1>5. QED
  BY <1>4 DEF CheckpointsOnlyAdvance, Forward
=============================================================================
