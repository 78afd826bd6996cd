---------------------- MODULE MonitoringCheckpointProofs ----------------------
(***************************************************************************)
(* Theorems about MonitoringScan: a checkpoint never passes activity that  *)
(* a watch has not received, and a run that succeeded has caught up, for   *)
(* every number of processes, members, watches, repositories, releases and *)
(* commits, whatever fails.                                                *)
(***************************************************************************)
EXTENDS MonitoringScanProofs

-----------------------------------------------------------------------------
(* The inductive invariant. *)

\* Nothing is newer than now; a repository has both commit checkpoints or none, and
\* a watch that began without them began with none.
Dated ==
  /\ \A r \in Releases : released[r].time <= clock
  /\ \A c \in Commits : date[c] <= clock
  /\ \A w \in Watches : /\ watch[w].since <= clock
                        /\ watch[w].base \in Commits => Pushed(watch[w].base)
                        /\ watch[w].state # "new" /\ cursor[watch[w].repo].sha = None =>
                             watch[w].base = None
  /\ \A p \in Repos : /\ cursor[p].release <= clock
                      /\ cursor[p].sha = None => cursor[p].commit = 0

\* A process has listed the watches of what it may still publish.
Listing ==
  \A s \in Scanners, w \in Watches :
    Live(w) /\ ~watch[w].raced /\ watch[w].repo \in Unpublished(s) => w \in scanner[s].listed

\* What the holder of the lease has read begins where the checkpoints are, or where
\* the oldest watch does.
Begun(s) ==
  LET a == scanner[s]
      c == cursor[a.repo]
  IN  /\ a.from.sha = c.sha
      /\ IF c.release # 0 THEN a.from.release = c.release
         ELSE \A w \in Group(s, a.repo) : a.from.release <= watch[w].since
      /\ c.sha = None => \A w \in Group(s, a.repo) : a.from.commit <= watch[w].since

\* A read that is complete has everything from its beginning on, but for releases
\* that came later, and for the commits that were there up to its HEAD.
ReleasesSought(s) ==
  LET a == scanner[s] IN
  /\ a.from.release <= clock
  /\ \A i \in a.signals \cap Releases : released[i].repo # None
  /\ a.releasesDone =>
       \A r \in Releases : released[r].repo = a.repo /\ released[r].time >= a.from.release =>
         r \in a.signals \/ \A i \in a.signals \cap Releases : released[i].time <= released[r].time

CommitsSought(s) ==
  LET a == scanner[s]
      b == branch[a.repo]
  IN  /\ \A i \in a.signals \cap Commits : Pushed(i)
      /\ a.head # None /\ In(b, a.head) =>
           /\ a.from.sha # None => In(b, a.from.sha) /\ Place(b, a.from.sha) <= Place(b, a.head)
           /\ \A j \in 1..Place(b, a.head) :
                \/ b[j] \in a.signals
                \/ IF a.from.sha = None THEN date[b[j]] < a.from.commit
                   ELSE j <= Place(b, a.from.sha)

Reading ==
  \A s \in Scanners : scanner[s].pc = "read" =>
    /\ ReleasesSought(s) /\ CommitsSought(s)
    /\ scanner[s].key = lease.key => Begun(s)

\* What a watch is owed of the history of its repository.
Owed(w, b, j) == \/ date[b[j]] > watch[w].since
                 \/ watch[w].base # None /\ In(b, watch[w].base) /\ j > Place(b, watch[w].base)

\* What the checkpoints have passed.
ReleasesServed(w) ==
  \A r \in Releases :
    /\ released[r].repo = watch[w].repo /\ released[r].time > watch[w].since
    /\ released[r].time < cursor[watch[w].repo].release
    => <<w, r>> \in events
CommitsServed(w) ==
  LET b == branch[watch[w].repo]
      sha == cursor[watch[w].repo].sha
  IN  sha # None /\ In(b, sha) =>
        \A j \in 1..Place(b, sha) : Owed(w, b, j) => <<w, b[j]>> \in events
Served == \A w \in Watches : Live(w) /\ ~watch[w].raced => ReleasesServed(w) /\ CommitsServed(w)

Complete == Dated /\ Listing /\ Reading /\ Served

-----------------------------------------------------------------------------
(* Histories that grow and shrink at their end. *)

\* The commits that anything refers to.
Known == {c \in Commits : Pushed(c)} \cup {Root, None}

\* The history d has the commits of X where b has them, and b's as far as it goes.
Kept(b, d, X) == /\ \A i \in DOMAIN d : d[i] \in X => i \in DOMAIN b /\ b[i] = d[i]
                 /\ \A i \in DOMAIN b \cap DOMAIN d : d[i] = b[i]

LEMMA KeptPlaces ==
  ASSUME NEW b \in Seq(Commits), NEW d \in Seq(Commits), NEW X, Kept(b, d, X),
         \A i, j \in DOMAIN b : b[i] = b[j] => i = j
  PROVE  /\ \A x \in X : In(d, x) => /\ In(b, x) /\ Place(d, x) = Place(b, x)
                                     /\ \A j \in 1..Place(d, x) : j \in DOMAIN b /\ d[j] = b[j]
         /\ \A x, y \in X : In(d, x) /\ In(b, y) /\ Place(b, y) <= Place(b, x) =>
              In(d, y) /\ Place(d, y) = Place(b, y)
<1>1. /\ DOMAIN b = 1..Len(b) /\ Len(b) \in Nat
      /\ DOMAIN d = 1..Len(d) /\ Len(d) \in Nat
  BY LenProperties
<1>2. ASSUME NEW x \in X, In(d, x)
      PROVE  /\ In(b, x) /\ Place(d, x) = Place(b, x)
             /\ Place(d, x) \in Nat /\ Place(d, x) <= Len(d) /\ Place(d, x) <= Len(b)
             /\ \A j \in 1..Place(d, x) : j \in DOMAIN b /\ d[j] = b[j]
  <2>1. \A i \in DOMAIN d : d[i] = x => i \in DOMAIN b /\ b[i] = x
    BY <1>2 DEF Kept
  <2>2. In(b, x) /\ Place(d, x) = Place(b, x)
    BY <1>2, <2>1, StaysInPlace
  <2>3. Place(d, x) \in Nat /\ Place(d, x) <= Len(d)
    BY <1>2, PlaceType
  <2>4. Place(b, x) \in Nat /\ Place(b, x) <= Len(b)
    BY <2>2, PlaceType
  <2>5. \A j \in 1..Place(d, x) : j \in DOMAIN b /\ j \in DOMAIN d
    BY <1>1, <2>2, <2>3, <2>4
  <2>6. QED
    BY <2>2, <2>3, <2>4, <2>5 DEF Kept
<1>3. ASSUME NEW x \in X, NEW y \in X, In(d, x), In(b, y), Place(b, y) <= Place(b, x)
      PROVE  In(d, y) /\ Place(d, y) = Place(b, y)
  <2>1. In(d, y)
    <3>1. CASE y = Root
      BY <3>1 DEF In
    <3>2. CASE y # Root
      <4>1. Place(b, y) \in DOMAIN b /\ b[Place(b, y)] = y
        BY <1>3, <3>2, PlaceType
      <4>2. Place(b, x) <= Len(d) /\ Place(b, x) \in Nat
        BY <1>2, <1>3
      <4>3. Place(b, y) \in DOMAIN d
        BY <1>1, <1>3, <4>1, <4>2
      <4>4. d[Place(b, y)] = y
        BY <4>1, <4>3 DEF Kept
      <4>5. QED
        BY <4>3, <4>4 DEF In
    <3>3. QED
      BY <3>1, <3>2
  <2>2. QED
    BY <1>2, <2>1
<1>4. QED
  BY <1>2, <1>3

\* A push and a force push keep what is known.
LEMMA BranchesKept ==
  ASSUME TypeOK, Working, Ordered, NEW p \in Repos,
         Rewrite(p) \/ \E c \in Commits : Push(p, c)
  PROVE  /\ \A q \in Repos : /\ Kept(branch[q], branch'[q], Known)
                             /\ branch[q] \in Seq(Commits) /\ branch'[q] \in Seq(Commits)
                             /\ \A i, j \in DOMAIN branch[q] : branch[q][i] = branch[q][j] => i = j
                             /\ \A i \in DOMAIN branch[q] : branch[q][i] \in Commits
                                                            /\ Pushed(branch[q][i])
         /\ \A c \in Commits : Pushed(c) => date'[c] = date[c]
         /\ \A c \in Commits : date[c] <= clock => date'[c] <= clock
<1>1. TypeOK'
  BY ProviderTypeStep DEF ProviderStep
<1>2. Histories
  BY DEF Ordered
<1>3. \A q \in Repos : /\ branch[q] \in Seq(Commits) /\ branch'[q] \in Seq(Commits)
                       /\ DOMAIN branch[q] = 1..Len(branch[q]) /\ Len(branch[q]) \in Nat
  BY <1>1, LenProperties DEF TypeOK
<1>4. \A q \in Repos : \A i \in DOMAIN branch[q] : branch[q][i] \in Commits /\ Pushed(branch[q][i])
  BY <1>2, <1>3 DEF Histories
<1>5. \A q \in Repos : \A i, j \in DOMAIN branch[q] : branch[q][i] = branch[q][j] => i = j
  BY <1>2 DEF Histories
<1>6. \A q \in Repos : Kept(branch[q], branch[q], Known)
  BY DEF Kept
<1>7. ASSUME NEW c \in Commits, Push(p, c)
      PROVE  /\ \A q \in Repos : Kept(branch[q], branch'[q], Known)
             /\ \A x \in Commits : Pushed(x) => date'[x] = date[x]
             /\ \A x \in Commits : date[x] <= clock => date'[x] <= clock
  <2>1. ~Pushed(c) /\ c \notin Known
    BY <1>7, ScanAssumptions DEF Push, Known
  <2>2. \A q \in Repos : branch'[q] = IF q = p THEN Append(branch[p], c) ELSE branch[q]
    BY <1>7 DEF Push, TypeOK
  <2>3. /\ Len(Append(branch[p], c)) = Len(branch[p]) + 1
        /\ \A i \in 1..Len(branch[p]) : Append(branch[p], c)[i] = branch[p][i]
        /\ Append(branch[p], c)[Len(branch[p]) + 1] = c
    BY <1>3, AppendProperties
  <2>4. DOMAIN branch'[p] = 1..(Len(branch[p]) + 1)
    BY <1>3, <2>2, <2>3, LenProperties
  <2>5. Kept(branch[p], branch'[p], Known)
    <3>1. \A i \in DOMAIN branch'[p] : IF i \in DOMAIN branch[p] THEN branch'[p][i] = branch[p][i]
                                       ELSE branch'[p][i] = c
      <4>1. /\ branch'[p] = Append(branch[p], c) /\ Len(branch[p]) \in Nat
            /\ DOMAIN branch[p] = 1..Len(branch[p])
        BY <1>3, <2>2
      <4>2. QED
        BY <2>3, <2>4, <4>1
    <3>2. QED
      BY <2>1, <3>1 DEF Kept
  <2>6. PICK d \in {1, clock} : date' = [date EXCEPT ![c] = d]
    BY <1>7 DEF Push
  <2>7. d <= clock
    BY DEF TypeOK, Times
  <2>8. QED
    BY <1>6, <2>1, <2>2, <2>5, <2>6, <2>7 DEF TypeOK
<1>8. ASSUME Rewrite(p)
      PROVE  /\ \A q \in Repos : Kept(branch[q], branch'[q], Known)
             /\ UNCHANGED date
  <2> DEFINE n == Len(branch[p])
  <2>1. branch[p] # <<>> /\ date' = date
        /\ \A q \in Repos : branch'[q] = IF q = p THEN SubSeq(branch[p], 1, n - 1) ELSE branch[q]
    BY <1>8 DEF Rewrite, TypeOK
  <2>2. n \in Nat /\ n > 0
    BY <1>3, <2>1, EmptySeq
  <2>3. /\ Len(SubSeq(branch[p], 1, n - 1)) = n - 1
        /\ \A i \in 1..(n - 1) : SubSeq(branch[p], 1, n - 1)[i] = branch[p][i]
    BY <1>3, <2>2, SubSeqProperties
  <2>4. DOMAIN branch'[p] = 1..(n - 1)
    BY <1>3, <2>1, <2>3, LenProperties
  <2>5. Kept(branch[p], branch'[p], Known)
    <3>1. \A i \in DOMAIN branch'[p] : i \in DOMAIN branch[p] /\ branch'[p][i] = branch[p][i]
      <4>1. branch'[p] = SubSeq(branch[p], 1, n - 1) /\ DOMAIN branch[p] = 1..n
        BY <1>3, <2>1
      <4>2. QED
        BY <2>2, <2>3, <2>4, <4>1
    <3>2. QED
      BY <3>1 DEF Kept
  <2>6. \A q \in Repos : Kept(branch[q], branch'[q], Known)
    BY <1>6, <2>1, <2>5
  <2>7. QED
    BY <2>1, <2>6
<1>9. QED
  BY <1>3, <1>4, <1>5, <1>7, <1>8

-----------------------------------------------------------------------------
(* The provider's steps. *)

LEMMA PublishReleaseKeeps ==
  ASSUME TypeOK, Working, Ordered, Complete,
         NEW p \in Repos, NEW r \in Releases, PublishRelease(p, r)
  PROVE  Complete'
<1>0. Dated /\ Listing /\ Reading /\ Served
  BY DEF Complete
<1>1. /\ \A q \in Releases : released'[q] = IF q = r THEN [repo |-> p, time |-> clock]
                                            ELSE released[q]
      /\ released[r].repo = None
      /\ UNCHANGED <<clock, branch, date, account, watch, cursor, lease, scanner, events>>
  BY DEF PublishRelease, TypeOK, feed
<1>2. clock \in Nat /\ \A q \in Releases : released[q].time \in Nat
  BY ScanAssumptions DEF TypeOK, Times
<1>3. Dated'
  BY <1>0, <1>1, <1>2 DEF Dated, Pushed
<1>4. Listing'
  BY <1>0, <1>1 DEF Listing, Live, Unpublished
<1>5. Reading'
  <2>1. ASSUME NEW s \in Scanners, scanner[s].pc = "read"
        PROVE  ReleasesSought(s)'
    <3> DEFINE a == scanner[s]
    <3>1. ReleasesSought(s)
      BY <1>0, <2>1 DEF Reading
    <3>2. \A i \in a.signals \cap Releases : i # r /\ released'[i] = released[i]
      BY <1>1, <3>1 DEF ReleasesSought
    <3>3. \A i \in a.signals \cap Releases : released[i].time <= clock
      BY <1>0 DEF Dated
    <3>4. a.releasesDone =>
            \A q \in Releases : released'[q].repo = a.repo /\ released'[q].time >= a.from.release =>
              q \in a.signals
              \/ \A i \in a.signals \cap Releases : released'[i].time <= released'[q].time
      BY <1>1, <3>1, <3>2, <3>3 DEF ReleasesSought
    <3>5. QED
      BY <1>1, <3>1, <3>2, <3>4 DEF ReleasesSought
  <2>2. ASSUME NEW s \in Scanners, scanner[s].pc = "read"
        PROVE  /\ CommitsSought(s)'
               /\ scanner[s].key = lease.key => Begun(s)'
    BY <1>0, <1>1, <2>2 DEF Reading, CommitsSought, Begun, Group, Pushed
  <2>3. QED
    BY <1>1, <2>1, <2>2 DEF Reading
<1>6. Served'
  <2>1. ASSUME NEW w \in Watches, Live(w), ~watch[w].raced
        PROVE  ReleasesServed(w)' /\ CommitsServed(w)'
    <3>1. ReleasesServed(w) /\ CommitsServed(w)
      BY <1>0, <2>1 DEF Served
    <3>2. CommitsServed(w)'
      BY <1>1, <3>1 DEF CommitsServed, Owed
    <3>3. watch[w].repo \in Repos
      BY <2>1 DEF Working, Watched, Live
    <3>4. cursor[watch[w].repo].release <= clock /\ cursor[watch[w].repo].release \in Int
      BY <1>0, <3>3, ScanAssumptions DEF Dated, TypeOK, CursorRows
    <3>5. ReleasesServed(w)'
      BY <1>1, <1>2, <3>1, <3>4 DEF ReleasesServed
    <3>6. QED
      BY <3>2, <3>5
  <2>2. QED
    BY <1>1, <2>1 DEF Served, Live
<1>7. QED
  BY <1>3, <1>4, <1>5, <1>6 DEF Complete

LEMMA BranchKeeps ==
  ASSUME TypeOK, Working, Ordered, Complete, NEW p \in Repos,
         Rewrite(p) \/ \E c \in Commits : Push(p, c)
  PROVE  Complete'
<1>0. Dated /\ Listing /\ Reading /\ Served /\ Seen
  BY DEF Complete, Ordered
<1>1. UNCHANGED <<clock, released, account, watch, cursor, lease, scanner, events>>
  BY DEF Rewrite, Push, feed
<1>2. /\ \A q \in Repos : /\ Kept(branch[q], branch'[q], Known)
                          /\ branch[q] \in Seq(Commits) /\ branch'[q] \in Seq(Commits)
                          /\ \A i, j \in DOMAIN branch[q] : branch[q][i] = branch[q][j] => i = j
                          /\ \A i \in DOMAIN branch[q] : branch[q][i] \in Commits
                                                         /\ Pushed(branch[q][i])
      /\ \A c \in Commits : Pushed(c) => date'[c] = date[c]
      /\ \A c \in Commits : date[c] <= clock => date'[c] <= clock
  BY BranchesKept
<1>3. ASSUME NEW q \in Repos
      PROVE  /\ \A x \in Known : In(branch'[q], x) =>
                  /\ In(branch[q], x) /\ Place(branch'[q], x) = Place(branch[q], x)
                  /\ \A j \in 1..Place(branch'[q], x) : /\ branch'[q][j] = branch[q][j]
                                                        /\ date'[branch[q][j]] = date[branch[q][j]]
             /\ \A x, y \in Known : In(branch'[q], x) /\ In(branch[q], y)
                                     /\ Place(branch[q], y) <= Place(branch[q], x) =>
                  In(branch'[q], y) /\ Place(branch'[q], y) = Place(branch[q], y)
  BY <1>2, KeptPlaces
<1>4. Dated'
  BY <1>0, <1>1, <1>2 DEF Dated, Pushed
<1>5. Listing'
  BY <1>0, <1>1 DEF Listing, Live, Unpublished
<1>6. Reading'
  <2>1. ASSUME NEW s \in Scanners, scanner[s].pc = "read"
        PROVE  CommitsSought(s)'
    <3> DEFINE a == scanner[s]
    <3>1. CommitsSought(s) /\ a.repo \in Repos
      BY <1>0, <2>1 DEF Reading, Working, Plans, Plan, TypeOK, Processes
    <3>2. a.head # None => a.head \in Known
      BY <1>0, <2>1 DEF Seen, TypeOK, Processes, Shas, Known
    <3>3. \A i \in a.signals \cap Commits : Pushed(i)'
      BY <1>2, <3>1 DEF CommitsSought, Pushed
    <3>4. ASSUME a.head # None, In(branch'[a.repo], a.head)
          PROVE  /\ a.from.sha # None =>
                      /\ In(branch'[a.repo], a.from.sha)
                      /\ Place(branch'[a.repo], a.from.sha) <= Place(branch'[a.repo], a.head)
                 /\ \A j \in 1..Place(branch'[a.repo], a.head) :
                      \/ branch'[a.repo][j] \in a.signals
                      \/ IF a.from.sha = None THEN date'[branch'[a.repo][j]] < a.from.commit
                         ELSE j <= Place(branch'[a.repo], a.from.sha)
      <4> DEFINE b == branch[a.repo]
                 d == branch'[a.repo]
      <4>1. /\ In(b, a.head) /\ Place(d, a.head) = Place(b, a.head)
            /\ \A j \in 1..Place(d, a.head) : d[j] = b[j] /\ date'[b[j]] = date[b[j]]
        BY <1>3, <3>1, <3>2, <3>4
      <4>2. /\ a.from.sha # None => /\ In(b, a.from.sha)
                                    /\ Place(b, a.from.sha) <= Place(b, a.head)
            /\ \A j \in 1..Place(b, a.head) :
                 \/ b[j] \in a.signals
                 \/ IF a.from.sha = None THEN date[b[j]] < a.from.commit
                    ELSE j <= Place(b, a.from.sha)
        BY <3>1, <3>4, <4>1 DEF CommitsSought
      <4>3. In(b, a.from.sha) => a.from.sha \in Known
        BY <1>2, <3>1 DEF In, Known
      <4>4. a.from.sha # None => In(d, a.from.sha) /\ Place(d, a.from.sha) = Place(b, a.from.sha)
        BY <1>3, <3>1, <3>2, <3>4, <4>2, <4>3
      <4> HIDE DEF b, d, a
      <4>5. \A j \in 1..Place(d, a.head) :
                 \/ d[j] \in a.signals
                 \/ IF a.from.sha = None THEN date'[d[j]] < a.from.commit
                    ELSE j <= Place(d, a.from.sha)
        BY <4>1, <4>2, <4>4
      <4>6. a.from.sha # None => /\ In(d, a.from.sha)
                                 /\ Place(d, a.from.sha) <= Place(d, a.head)
        BY <4>1, <4>2, <4>4
      <4>7. QED
        BY <4>5, <4>6 DEF b, d
    <3>5. QED
      BY <1>1, <3>3, <3>4 DEF CommitsSought
  <2>2. ASSUME NEW s \in Scanners, scanner[s].pc = "read"
        PROVE  /\ ReleasesSought(s)'
               /\ scanner[s].key = lease.key => Begun(s)'
    BY <1>0, <1>1, <2>2 DEF Reading, ReleasesSought, Begun, Group
  <2>3. QED
    BY <1>1, <2>1, <2>2 DEF Reading
<1>7. Served'
  <2>1. ASSUME NEW w \in Watches, Live(w), ~watch[w].raced
        PROVE  ReleasesServed(w)' /\ CommitsServed(w)'
    <3> DEFINE q == watch[w].repo
               sha == cursor[q].sha
               base == watch[w].base
    <3>1. ReleasesServed(w) /\ CommitsServed(w) /\ q \in Repos
      BY <1>0, <2>1 DEF Served, Working, Watched, Live
    <3>2. ReleasesServed(w)'
      BY <1>1, <3>1 DEF ReleasesServed
    <3>3. sha \in Known /\ base \in Known
      BY <1>0, <3>1 DEF Seen, Dated, TypeOK, CursorRows, WatchRows, Shas, Known
    <3>4. ASSUME sha # None, In(branch'[q], sha), NEW j \in 1..Place(branch'[q], sha),
                 \/ date'[branch'[q][j]] > watch[w].since
                 \/ base # None /\ In(branch'[q], base) /\ j > Place(branch'[q], base)
          PROVE  <<w, branch'[q][j]>> \in events
      <4>1. /\ In(branch[q], sha) /\ j \in 1..Place(branch[q], sha)
            /\ branch'[q][j] = branch[q][j] /\ date'[branch[q][j]] = date[branch[q][j]]
        BY <1>3, <3>1, <3>3, <3>4
      <4>2. In(branch'[q], base) =>
              In(branch[q], base) /\ Place(branch'[q], base) = Place(branch[q], base)
        BY <1>3, <3>1, <3>3
      <4>3. Owed(w, branch[q], j)
        BY <1>1, <3>4, <4>1, <4>2 DEF Owed
      <4>4. QED
        BY <3>1, <3>4, <4>1, <4>3 DEF CommitsServed
    <3>5. CommitsServed(w)'
      BY <1>1, <3>4 DEF CommitsServed, Owed
    <3>6. QED
      BY <3>2, <3>5
  <2>2. QED
    BY <1>1, <2>1 DEF Served, Live
<1>8. QED
  BY <1>4, <1>5, <1>6, <1>7 DEF Complete

LEMMA ProviderKeeps ==
  ASSUME TypeOK, Working, Ordered, Complete, ProviderStep
  PROVE  Complete'
  BY PublishReleaseKeeps, BranchKeeps DEF ProviderStep

-----------------------------------------------------------------------------
(* The users' steps, and time. *)

\* The watches that were listed and the ones that are owed are as they were.
LEMMA WatchesKeep ==
  ASSUME TypeOK, Working, Complete, Dated', Listing',
         UNCHANGED <<released, branch, date, cursor, scanner>>,
         clock' \in Int, clock' >= clock, lease'.key = lease.key,
         \A w \in Watches : watch[w].state # "new" =>
           watch'[w].since = watch[w].since /\ watch'[w].repo = watch[w].repo,
         \A w \in Watches : Live(w)' /\ ~watch'[w].raced =>
           \/ /\ Live(w) /\ ~watch[w].raced /\ watch'[w].base = watch[w].base
              /\ \A i \in Items : <<w, i>> \in events => <<w, i>> \in events'
           \/ ReleasesServed(w)' /\ CommitsServed(w)'
  PROVE  Complete'
<1>0. Dated /\ Listing /\ Reading /\ Served /\ Plans /\ Watched
  BY DEF Complete, Working
<1>1. Reading'
  <2>1. ASSUME NEW s \in Scanners, scanner[s].pc = "read"
        PROVE  /\ ReleasesSought(s)' /\ CommitsSought(s)'
               /\ scanner[s].key = lease.key => Begun(s)'
    <3>1. /\ ReleasesSought(s) /\ CommitsSought(s)
          /\ scanner[s].key = lease.key => Begun(s)
      BY <1>0, <2>1 DEF Reading
    <3>2. scanner[s].from.release \in Int /\ clock \in Int
      <4>1. scanner[s].from \in CursorRows /\ MaxTime \in Nat
        BY ScanAssumptions DEF TypeOK, Processes
      <4>2. QED
        BY <4>1 DEF CursorRows, TypeOK, Times
    <3>3. ReleasesSought(s)'
      BY <3>1, <3>2 DEF ReleasesSought
    <3>4. CommitsSought(s)'
      BY <3>1 DEF CommitsSought, Pushed
    <3>5. scanner[s].listed \in SUBSET Watches
          /\ \A w \in scanner[s].listed : watch[w].state # "new"
      BY <1>0 DEF TypeOK, Processes, Plans, Plan
    <3>6. scanner[s].key = lease.key => Begun(s)'
      <4>1. Group(s, scanner[s].repo)' = Group(s, scanner[s].repo)
        BY <3>5 DEF Group
      <4>2. \A w \in Group(s, scanner[s].repo) : watch'[w].since = watch[w].since
        BY <3>5 DEF Group
      <4>3. QED
        BY <3>1, <4>1, <4>2 DEF Begun
    <3>7. QED
      BY <3>3, <3>4, <3>6
  <2>2. QED
    BY <2>1 DEF Reading
<1>2. Served'
  <2>1. ASSUME NEW w \in Watches, Live(w), ~watch[w].raced, watch'[w].base = watch[w].base,
               \A i \in Items : <<w, i>> \in events => <<w, i>> \in events'
        PROVE  ReleasesServed(w)' /\ CommitsServed(w)'
    <3>1. ReleasesServed(w) /\ CommitsServed(w) /\ watch[w].repo \in Repos
      BY <1>0, <2>1 DEF Served, Watched, Live
    <3>2. watch'[w].since = watch[w].since /\ watch'[w].repo = watch[w].repo
      BY <2>1 DEF Live
    <3>3. ReleasesServed(w)'
      BY <2>1, <3>1, <3>2 DEF ReleasesServed, Items
    <3>4. CommitsServed(w)'
      <4> DEFINE b == branch[watch[w].repo]
                 sha == cursor[watch[w].repo].sha
      <4>1. b \in Seq(Commits)
        BY <3>1 DEF TypeOK
      <4>2. \A j \in 1..Place(b, sha) : sha # None /\ In(b, sha) => b[j] \in Commits
        BY <4>1, PlaceType, LenProperties
      <4>3. \A j : Owed(w, b, j)' <=> Owed(w, b, j)
        BY <2>1, <3>2 DEF Owed
      <4>4. QED
        BY <2>1, <3>1, <3>2, <4>2, <4>3 DEF CommitsServed, Items
    <3>5. QED
      BY <3>3, <3>4
  <2>2. QED
    BY <2>1 DEF Served
<1>3. QED
  BY <1>1, <1>2 DEF Complete

LEMMA SubscribeKeeps ==
  ASSUME TypeOK, Working, Ordered, Complete,
         NEW u \in Users, NEW p \in Repos, NEW w \in Watches, Subscribe(u, p, w)
  PROVE  Complete'
<1>0. Dated /\ Listing /\ Watched /\ Plans /\ Seen
  BY DEF Complete, Working, Ordered
<1>1. /\ \A v \in Watches : v # w => watch'[v] = watch[v]
      /\ watch'[w].since = clock /\ watch'[w].repo = p /\ watch'[w].base = cursor[p].sha
      /\ watch'[w].raced = Racing(p) /\ watch[w].state = "new" /\ watch'[w].state = "live"
      /\ UNCHANGED <<clock, released, branch, date, account, cursor, lease, scanner, events>>
  BY DEF Subscribe, TypeOK, provider, feed
<1>2. clock \in Int /\ \A i \in 1..MaxTime : i \in Int
  BY ScanAssumptions DEF TypeOK, Times
<1>3. Dated'
  <2>1. watch'[w].base \in Commits => Pushed(watch'[w].base)
    BY <1>0, <1>1 DEF Seen
  <2>2. QED
    BY <1>0, <1>1, <1>2, <2>1 DEF Dated, Pushed
<1>4. Listing'
  <2>1. \A s \in Scanners : Unpublished(s)' = Unpublished(s)
    BY <1>1 DEF Unpublished
  <2>2. ~watch'[w].raced => \A s \in Scanners : p \notin Unpublished(s)
    BY <1>1 DEF Racing
  <2>3. QED
    BY <1>0, <1>1, <2>1, <2>2 DEF Listing, Live
<1>5. ReleasesServed(w)'
  BY <1>0, <1>1, <1>2, ScanAssumptions DEF ReleasesServed, Dated, TypeOK
<1>6. CommitsServed(w)'
  <2> DEFINE b == branch[p]
             sha == cursor[p].sha
  <2>1. b \in Seq(Commits) /\ Len(b) \in Nat /\ DOMAIN b = 1..Len(b)
    BY LenProperties DEF TypeOK
  <2>2. ASSUME sha # None, In(b, sha), NEW j \in 1..Place(b, sha),
               date[b[j]] > clock \/ j > Place(b, sha)
        PROVE  FALSE
    <3>1. Place(b, sha) \in Nat /\ Place(b, sha) <= Len(b)
      BY <2>1, <2>2, PlaceType
    <3>2. b[j] \in Commits
      BY <2>1, <3>1
    <3>3. date[b[j]] <= clock /\ date[b[j]] \in Int
      BY <1>0, <3>2, ScanAssumptions DEF Dated, TypeOK
    <3>4. QED
      BY <1>2, <2>2, <3>1, <3>3
  <2>3. QED
    BY <1>1, <2>2 DEF CommitsServed, Owed
<1>7. QED
  BY <1>1, <1>2, <1>3, <1>4, <1>5, <1>6, WatchesKeep DEF Live

LEMMA UserKeeps ==
  ASSUME TypeOK, Working, Ordered, Complete, UserStep
  PROVE  Complete'
<1>0. Dated /\ Listing /\ clock \in Int
  BY ScanAssumptions DEF Complete, TypeOK, Times
<1>1. ASSUME NEW w \in Watches, Unsubscribe(w)
      PROVE  Complete'
  <2>1. /\ \A v \in Watches : /\ watch'[v].since = watch[v].since
                              /\ watch'[v].repo = watch[v].repo
                              /\ watch'[v].base = watch[v].base
                              /\ watch'[v].raced = watch[v].raced
                              /\ watch'[v].state # watch[v].state =>
                                   watch'[v].state = "deleted" /\ watch[v].state # "new"
        /\ UNCHANGED <<clock, released, branch, date, cursor, lease, scanner, events>>
    BY <1>1 DEF Unsubscribe, Live, TypeOK, WatchRows, provider, feed
  <2>2. Dated'
    BY <1>0, <2>1 DEF Dated, Pushed
  <2>3. Listing'
    BY <1>0, <2>1 DEF Listing, Live, Unpublished
  <2>4. QED
    BY <1>0, <2>1, <2>2, <2>3, WatchesKeep DEF Live
<1>2. ASSUME NEW u \in Users, DeleteAccount(u)
      PROVE  Complete'
  <2>0. \A v \in Watches : watch[v].state = "new" => v \notin Owned(u)
    BY ScanAssumptions DEF Working, Watched, Owned
  <2>1. /\ \A v \in Watches : /\ watch'[v].since = watch[v].since
                              /\ watch'[v].repo = watch[v].repo
                              /\ watch'[v].base = watch[v].base
                              /\ watch'[v].raced = watch[v].raced
                              /\ watch'[v].state = IF v \in Owned(u) THEN "deleted"
                                                   ELSE watch[v].state
    BY <1>2 DEF DeleteAccount, TypeOK, WatchRows
  <2>2. /\ events' = {e \in events : e[1] \notin Owned(u)}
        /\ UNCHANGED <<clock, released, branch, date, cursor, lease, scanner>>
    BY <1>2 DEF DeleteAccount, provider
  <2>3. Dated'
    BY <1>0, <2>0, <2>1, <2>2 DEF Dated, Pushed
  <2>4. Listing'
    BY <1>0, <2>0, <2>1, <2>2 DEF Listing, Live, Unpublished
  <2>5. \A w \in Watches : Live(w)' => w \notin Owned(u) /\ Live(w)
    BY <2>1 DEF Live
  <2>6. QED
    BY <1>0, <2>1, <2>2, <2>3, <2>4, <2>5, WatchesKeep
<1>3. QED
  BY <1>1, <1>2, SubscribeKeeps DEF UserStep

LEMMA TimeKeeps ==
  ASSUME TypeOK, Working, Ordered, Complete, Advance \/ LeaseTick \/ UNCHANGED vars
  PROVE  Complete'
<1>0. Dated /\ Listing
  BY DEF Complete
<1>1. clock' >= clock /\ clock \in Int /\ clock' \in Int
  BY ScanAssumptions DEF Advance, LeaseTick, Later, TypeOK, Times, vars
<1>2. lease'.key = lease.key
  BY DEF Advance, LeaseTick, TypeOK, vars
<1>3. UNCHANGED <<released, branch, date, watch, cursor, scanner, events>>
  BY DEF Advance, LeaseTick, vars, provider, feed
<1>4. Dated'
  <2>1. MaxTime \in Nat
    BY ScanAssumptions
  <2>2. /\ \A r \in Releases : released[r].time \in Int
        /\ \A c \in Commits : date[c] \in Int
        /\ \A w \in Watches : watch[w].since \in Int
        /\ \A p \in Repos : cursor[p].release \in Int
    BY <2>1 DEF TypeOK, WatchRows, CursorRows
  <2>3. QED
    BY <1>0, <1>1, <1>3, <2>2 DEF Dated, Pushed
<1>5. Listing'
  BY <1>0, <1>3 DEF Listing, Live, Unpublished
<1>6. QED
  BY <1>1, <1>2, <1>3, <1>4, <1>5, WatchesKeep DEF Live

-----------------------------------------------------------------------------
(* A read. *)

\* A boundary is the checkpoint or the start of the oldest watch.
LEMMA BoundaryFacts ==
  ASSUME TypeOK, Plans, NEW s \in Scanners, NEW p \in scanner[s].todo
  PROVE  /\ Boundary(s, p).sha = cursor[p].sha
         /\ IF cursor[p].release # 0 THEN Boundary(s, p).release = cursor[p].release
            ELSE /\ \A w \in Group(s, p) : Boundary(s, p).release <= watch[w].since
                 /\ \E w \in Group(s, p) : Boundary(s, p).release = watch[w].since
         /\ cursor[p].commit = 0 =>
              \A w \in Group(s, p) : Boundary(s, p).commit <= watch[w].since
         /\ Group(s, p) \subseteq Watches
<1> DEFINE S == {watch[w].since : w \in Group(s, p)}
<1>1. S # {} /\ S \in SUBSET Nat /\ Group(s, p) \subseteq Watches
  <2>1. PICK w \in scanner[s].listed : watch[w].repo = p
    BY DEF Plans, Plan
  <2>2. scanner[s].listed \in SUBSET Watches
    BY DEF TypeOK, Processes
  <2>3. Group(s, p) \in SUBSET Watches /\ w \in Group(s, p)
    BY <2>1, <2>2 DEF Group
  <2>4. \A v \in Watches : watch[v].since \in Nat
    BY ScanAssumptions DEF TypeOK, WatchRows
  <2>5. QED
    BY <2>3, <2>4
<1>2. Oldest(s, p) \in S /\ \A w \in Group(s, p) : Oldest(s, p) <= watch[w].since
  <2>1. \E t \in S : \A u \in S : t <= u
    BY <1>1, LeastNatural
  <2>2. \E t \in S : \A w \in Group(s, p) : t <= watch[w].since
    BY <2>1
  <2>3. QED
    BY <2>2, Zenon DEF Oldest
<1>3. p \in Repos /\ cursor[p] \in CursorRows
  BY DEF TypeOK, Processes
<1>4. /\ Boundary(s, p).sha = cursor[p].sha
      /\ Boundary(s, p).release = IF cursor[p].release = 0 THEN Oldest(s, p) ELSE cursor[p].release
      /\ Boundary(s, p).commit = IF cursor[p].commit = 0 THEN Oldest(s, p) ELSE cursor[p].commit
  BY <1>3 DEF Boundary, CursorRows
<1>5. QED
  BY <1>1, <1>2, <1>4

\* A complete stream of commits has all that HEAD newly reaches.
LEMMA CommitsFromFacts ==
  ASSUME TypeOK, Histories, NEW p \in Repos, NEW from \in CursorRows, Linear(p, from)
  PROVE  /\ \A c \in CommitsFrom(p, from) : c \in Commits /\ Pushed(c)
         /\ \A j \in 1..Len(branch[p]) :
              \/ branch[p][j] \in CommitsFrom(p, from)
              \/ IF from.sha = None THEN date[branch[p][j]] < from.commit
                 ELSE j <= Place(branch[p], from.sha)
<1> DEFINE b == branch[p]
           start == IF from.sha = None THEN 0 ELSE Place(b, from.sha)
           found == {b[i] : i \in (start + 1)..Len(b)}
<1>1. b \in Seq(Commits) /\ Len(b) \in Nat /\ DOMAIN b = 1..Len(b)
  BY LenProperties DEF TypeOK
<1>2. from.sha # None => In(b, from.sha)
  BY DEF Linear, OnBranch, In
<1>3. start \in Nat
  BY <1>1, <1>2, PlaceType
<1>4. CommitsFrom(p, from) = IF from.sha = None THEN {c \in found : date[c] >= from.commit}
                             ELSE found
  BY Zenon DEF CommitsFrom, Position, Place
<1> HIDE DEF start
<1>5. \A i \in (start + 1)..Len(b) : b[i] \in Commits /\ Pushed(b[i])
  BY <1>1, <1>3 DEF Histories
<1>6. \A c \in CommitsFrom(p, from) : c \in Commits /\ Pushed(c)
  BY <1>4, <1>5
<1>7. ASSUME NEW j \in 1..Len(b)
      PROVE  \/ b[j] \in CommitsFrom(p, from)
             \/ IF from.sha = None THEN date[b[j]] < from.commit ELSE j <= Place(b, from.sha)
  <2>1. b[j] \in Commits /\ date[b[j]] \in Int /\ from.commit \in Int
    BY <1>1, ScanAssumptions DEF TypeOK, CursorRows
  <2>2. CASE j >= start + 1
    <3>1. b[j] \in found
      BY <1>3, <2>2
    <3> HIDE DEF found, b
    <3>2. QED
      BY <1>4, <2>1, <3>1
  <2>3. CASE ~(j >= start + 1)
    BY <1>1, <1>3, <2>3 DEF start
  <2>4. QED
    BY <2>2, <2>3
<1>8. QED
  BY <1>6, <1>7

\* A read begins at the checkpoints and seeks everything after them.
LEMMA NewReadSeeks ==
  ASSUME TypeOK, Plans, Histories, Dated, NEW s \in Scanners, NewRead(s),
         UNCHANGED <<clock, released, branch, date, watch, cursor>>
  PROVE  ReleasesSought(s)' /\ CommitsSought(s)' /\ Begun(s)'
<1>0. PICK p \in scanner[s].todo, commitsDone \in BOOLEAN :
        Gathers(s, p, Boundary(s, p), commitsDone)
  BY DEF NewRead
<1> DEFINE from == Boundary(s, p)
           a == scanner'[s]
           b == branch[p]
<1>1. p \in Repos /\ from \in CursorRows /\ b \in Seq(Commits)
  BY BoundaryType DEF TypeOK, Processes
<1>2. /\ a.repo = p /\ a.from = from
      /\ a.head = IF commitsDone /\ Linear(p, from) THEN Tip(p) ELSE None
  BY <1>0 DEF Gathers
<1>3. PICK rs \in Yield(ReleasesFrom(p, from), a.releasesDone),
           cs \in Yield(IF Linear(p, from) THEN CommitsFrom(p, from) ELSE {}, commitsDone) :
        a.signals = rs \cup cs
  BY <1>0, Zenon DEF Gathers
<1> HIDE DEF from, a
<1>4. Linear(p, from) =>
        /\ \A c \in CommitsFrom(p, from) : c \in Commits /\ Pushed(c)
        /\ \A j \in 1..Len(b) : \/ b[j] \in CommitsFrom(p, from)
                                \/ IF from.sha = None THEN date[b[j]] < from.commit
                                   ELSE j <= Place(b, from.sha)
  BY <1>1, CommitsFromFacts
<1>5. \A i \in cs : i \in Commits /\ Pushed(i)
  BY <1>3, <1>4 DEF Yield
<1>6. \A i \in rs : i \in Releases /\ released[i].repo = p
  BY <1>3 DEF Yield, ReleasesFrom
<1>7. p # None
  BY <1>1, ScanAssumptions
<1>8. from.release <= clock
  <2>1. cursor[p].release <= clock /\ \A w \in Watches : watch[w].since <= clock
    BY <1>1 DEF Dated
  <2>2. QED
    BY <2>1, BoundaryFacts DEF from
<1>9. a.releasesDone => rs = ReleasesFrom(p, from)
  BY <1>3 DEF Yield
<1>10. ReleasesSought(s)'
  <2>1. a.signals \cap Releases = rs
    BY <1>3, <1>5, <1>6, FeedAssumptions
  <2>2. a.releasesDone => \A r \in Releases :
          released[r].repo = p /\ released[r].time >= from.release => r \in a.signals
    BY <1>3, <1>9 DEF ReleasesFrom
  <2>3. QED
    BY <1>2, <1>6, <1>7, <1>8, <2>1, <2>2 DEF ReleasesSought, a
<1>11. CommitsSought(s)'
  <2>1. a.signals \cap Commits = cs
    BY <1>3, <1>5, <1>6, FeedAssumptions
  <2>2. ASSUME a.head # None, In(b, a.head)
        PROVE  /\ from.sha # None => In(b, from.sha) /\ Place(b, from.sha) <= Place(b, a.head)
               /\ \A j \in 1..Place(b, a.head) :
                    \/ b[j] \in a.signals
                    \/ IF from.sha = None THEN date[b[j]] < from.commit
                       ELSE j <= Place(b, from.sha)
    <3>1. commitsDone /\ Linear(p, from) /\ a.head = Tip(p)
      BY <1>2, <2>2
    <3>2. cs = CommitsFrom(p, from)
      BY <1>3, <3>1 DEF Yield
    <3>3. from.sha # None => In(b, from.sha)
      BY <3>1 DEF Linear, OnBranch, In
    <3>4. InOrder(b, from.sha, a.head)
      BY <1>1, <3>1, TipIsLast
    <3>5. Place(b, a.head) \in Nat /\ Place(b, a.head) <= Len(b) /\ Len(b) \in Nat
      BY <1>1, <2>2, PlaceType, LenProperties
    <3>6. \A j \in 1..Place(b, a.head) : j \in 1..Len(b)
      BY <3>5
    <3>7. QED
      BY <1>3, <1>4, <2>2, <3>1, <3>2, <3>3, <3>4, <3>6 DEF InOrder
  <2>3. \A i \in a.signals \cap Commits : Pushed(i)
    BY <1>5, <2>1
  <2>4. QED
    BY <1>2, <2>2, <2>3 DEF CommitsSought, Pushed, a
<1>12. Begun(s)'
  <2>1. scanner'[s].listed = scanner[s].listed
    BY DEF NewRead
  <2>2. Group(s, p)' = Group(s, p)
    BY <2>1 DEF Group
  <2>3. /\ from.sha = cursor[p].sha
        /\ IF cursor[p].release # 0 THEN from.release = cursor[p].release
           ELSE \A w \in Group(s, p) : from.release <= watch[w].since
        /\ cursor[p].commit = 0 => \A w \in Group(s, p) : from.commit <= watch[w].since
    BY BoundaryFacts DEF from
  <2>4. cursor[p].sha = None => cursor[p].commit = 0
    BY <1>1 DEF Dated
  <2>5. QED
    BY <1>2, <2>2, <2>3, <2>4 DEF Begun, a
<1>13. QED
  BY <1>10, <1>11, <1>12

-----------------------------------------------------------------------------
(* A publication. *)

\* A process lists all watches at once and then only strikes repositories off.
LEMMA ProcessKeepsListing ==
  ASSUME TypeOK, Working, Listing, NEW s \in Scanners, Scan(s) \/ Renew(s) \/ ScanFails(s)
  PROVE  Listing'
<1>1. UNCHANGED watch
  BY ProcessFrame
<1>2. Moves(s) \/ UNCHANGED scanner
  BY ScanMoves
<1>3. CASE UNCHANGED scanner
  BY <1>1, <1>3 DEF Listing, Live, Unpublished
<1>4. CASE Moves(s)
  <2>1. PICK row : Turn(s, row) /\ Move(s, row)
    BY <1>4 DEF Moves
  <2>2. scanner'[s] = row /\ \A t \in Scanners : t # s => scanner'[t] = scanner[t]
    BY <2>1, TurnRows
  <2>3. \/ Unpublished(s)' = {}
        \/ Unpublished(s)' \subseteq Unpublished(s) /\ row.listed = scanner[s].listed
        \/ row.listed = {w \in Watches : Live(w)}
    <3>1. CASE Ends(s, row) \/ GivesUp(s, row) \/ Begins(s, row)
      BY <2>2, <3>1 DEF Ends, GivesUp, Dropped, Begins, Idle, Unpublished
    <3>2. CASE LosesLease(s, row)
      BY <2>2, <3>2 DEF LosesLease, GoesOn, Unpublished
    <3>3. CASE Lists(s, row)
      BY <3>3 DEF Lists
    <3>4. CASE Reads(s, row) \/ Misses(s, row) \/ Publishes(s, row) \/ Records(s, row)
      BY <2>2, <3>4 DEF Reads, Misses, Publishes, Records, GoesOn, Unpublished
    <3>5. QED
      BY <2>1, <3>1, <3>2, <3>3, <3>4 DEF Move
  <2>4. \A w \in Watches : Live(w) /\ ~watch[w].raced /\ watch[w].repo \in Unpublished(s)' =>
          w \in scanner'[s].listed
    BY <2>2, <2>3 DEF Listing
  <2>5. \A t \in Scanners : t # s => Unpublished(t)' = Unpublished(t)
    BY <2>2 DEF Unpublished
  <2>6. QED
    BY <1>1, <2>2, <2>4, <2>5 DEF Listing, Live
<1>5. QED
  BY <1>2, <1>3, <1>4

\* Checkpoints move only together with the events of the read.
LEMMA CheckpointsFollowEvents ==
  ASSUME TypeOK, Working, NEW s \in Scanners, Scan(s) \/ Renew(s) \/ ScanFails(s)
  PROVE  /\ events \subseteq events'
         /\ UNCHANGED cursor \/ EventsOf(s) \subseteq events'
<1>1. CASE Persist(s)
  <2>1. \/ UNCHANGED <<feed, cursor>>
        \/ \E found, fresh, details, all : Publication(s, found, fresh, details, all)
    BY <1>1, PersistCases
  <2>2. QED
    BY <2>1 DEF Publication, feed
<1>2. CASE Read(s)
  BY <1>2, Zenon DEF Read, feed
<1>3. CASE Acquire(s) \/ Start(s) \/ RecordCheck(s) \/ Finish(s) \/ Discard(s) \/ Release(s)
           \/ Renew(s)
  <2>1. UNCHANGED <<cursor, feed>>
    BY <1>3, Zenon DEF Acquire, Start, RecordCheck, Finish, Discard, Release, Renew
  <2>2. QED
    BY <2>1 DEF feed
<1>4. CASE ScanFails(s)
  <2>1. UNCHANGED <<cursor, feed>>
    BY <1>4, Zenon DEF ScanFails, RepositoryFails, RunFails, RenewFails, Crash
  <2>2. QED
    BY <2>1 DEF feed
<1>5. QED
  BY <1>1, <1>2, <1>3, <1>4 DEF Scan

\* Whatever is newer than the watch, or newly reached by HEAD, becomes an event.
LEMMA SignalsBecomeEvents ==
  ASSUME TypeOK, NEW s \in Scanners, NEW w \in Group(s, scanner[s].repo),
         NEW i \in scanner[s].signals, w \in Watches,
         (i \in Commits /\ scanner[s].from.sha # None) \/ TimeOf(i) > watch[w].since
  PROVE  <<w, i>> \in EventsOf(s)
<1>1. i \in Items
  BY DEF TypeOK, Processes
<1>2. TimeOf(i) \in Int /\ watch[w].since \in Int
  BY <1>1, ScanAssumptions DEF TypeOK, TimeOf, Items, WatchRows
<1>3. ~(TimeOf(i) > watch[w].since /\ TimeOf(i) <= watch[w].since)
  BY <1>2
<1>4. <<w, i>>[1] = w /\ <<w, i>>[2] = i
  OBVIOUS
<1>5. QED
  BY <1>3, <1>4 DEF EventsOf

\* What the checkpoints of the holder have passed when it publishes.
LEMMA PublicationServes ==
  ASSUME TypeOK, Working, Complete, NEW s \in Scanners,
         scanner[s].pc = "read", scanner[s].key = lease.key,
         NEW w \in Watches, Live(w), ~watch[w].raced, watch[w].repo = scanner[s].repo
  PROVE  /\ \A r \in Releases :
              /\ released[r].repo = watch[w].repo /\ released[r].time > watch[w].since
              /\ released[r].time < Advanced(s).release
              => <<w, r>> \in events \cup EventsOf(s)
         /\ LET b == branch[watch[w].repo]
                sha == Advanced(s).sha
            IN  sha # None /\ In(b, sha) =>
                  \A j \in 1..Place(b, sha) :
                    Owed(w, b, j) => <<w, b[j]>> \in events \cup EventsOf(s)
<1> DEFINE a == scanner[s]
           p == scanner[s].repo
           c == cursor[p]
           b == branch[p]
<1>0. /\ Dated /\ Listing /\ Plan(s)
      /\ ReleasesSought(s) /\ CommitsSought(s) /\ Begun(s)
      /\ ReleasesServed(w) /\ CommitsServed(w)
  BY DEF Complete, Reading, Served, Working, Plans
<1>1. /\ a.signals \in SUBSET Items /\ a.from \in CursorRows /\ p \in Repos /\ c \in CursorRows
  BY AdvancedType DEF Working, TypeOK, Processes
<1>2. w \in Group(s, p)
  BY <1>0 DEF Plan, Unpublished, Listing, Group
<1>3. Advanced(s) = [release |-> IF a.releasesDone
                                 THEN Latest(a.signals \cap Releases, a.from.release)
                                 ELSE c.release,
                     commit |-> IF a.head # None
                                THEN Latest(a.signals \cap Commits, a.from.commit)
                                ELSE c.commit,
                     sha |-> IF a.head # None THEN a.head ELSE c.sha]
  BY Zenon DEF Advanced
<1>4. ASSUME NEW r \in Releases, released[r].repo = p, released[r].time > watch[w].since,
             released[r].time < Advanced(s).release
      PROVE  <<w, r>> \in events \cup EventsOf(s)
  <2> DEFINE L == Latest(a.signals \cap Releases, a.from.release)
             t == released[r].time
  <2>1. /\ t \in Int /\ watch[w].since \in Int /\ a.from.release \in 0..MaxTime
        /\ a.from.release \in Int /\ c.release \in Int
    BY <1>1, ScanAssumptions DEF TypeOK, WatchRows, CursorRows
  <2>2. CASE ~a.releasesDone
    <3>1. Advanced(s).release = c.release
      BY <1>3, <2>2
    <3>2. QED
      BY <1>0, <1>4, <3>1 DEF ReleasesServed
  <2>3. CASE a.releasesDone /\ t >= a.from.release
    <3>1. Advanced(s).release = L
      BY <1>3, <2>3
    <3>2. L \in {a.from.release} \cup {TimeOf(i) : i \in a.signals \cap Releases}
      BY <1>1, <2>1, LatestType
    <3>3. \A i \in a.signals \cap Releases : TimeOf(i) = released[i].time /\ released[i].time \in Int
      BY ScanAssumptions DEF TimeOf, TypeOK
    <3>4. r \in a.signals \/ \A i \in a.signals \cap Releases : released[i].time <= t
      BY <1>0, <1>4, <2>3 DEF ReleasesSought
    <3>5. CASE r \in a.signals
      <4>1. TimeOf(r) > watch[w].since
        BY <1>4 DEF TimeOf
      <4>2. <<w, r>> \in EventsOf(s)
        BY <1>2, <3>5, <4>1, SignalsBecomeEvents
      <4>3. QED
        BY <4>2
    <3>6. CASE \A i \in a.signals \cap Releases : released[i].time <= t
      <4>1. L <= t /\ L \in Int
        <5> HIDE DEF L
        <5>1. QED
          BY <2>1, <2>3, <3>2, <3>3, <3>6
      <4>2. t < L
        BY <1>4, <3>1
      <4> HIDE DEF L, t
      <4>3. QED
        BY <2>1, <4>1, <4>2
    <3>7. QED
      BY <3>4, <3>5, <3>6
  <2>4. CASE a.releasesDone /\ ~(t >= a.from.release)
    <3>1. t < a.from.release
      BY <2>1, <2>4
    <3>2. IF c.release # 0 THEN a.from.release = c.release
          ELSE a.from.release <= watch[w].since
      BY <1>0, <1>2 DEF Begun
    <3>3. t < c.release
      BY <1>4, <2>1, <3>1, <3>2
    <3>4. QED
      BY <1>0, <1>4, <3>3 DEF ReleasesServed
  <2>5. QED
    BY <2>2, <2>3, <2>4
<1>5. ASSUME Advanced(s).sha # None, In(b, Advanced(s).sha),
             NEW j \in 1..Place(b, Advanced(s).sha), Owed(w, b, j)
      PROVE  <<w, b[j]>> \in events \cup EventsOf(s)
  <2>1. CASE a.head = None
    <3>1. Advanced(s).sha = c.sha
      BY <1>3, <2>1
    <3>2. QED
      BY <1>0, <1>5, <3>1 DEF CommitsServed
  <2>2. CASE a.head # None
    <3>1. Advanced(s).sha = a.head
      BY <1>3, <2>2
    <3>2. /\ a.from.sha # None => In(b, a.from.sha) /\ Place(b, a.from.sha) <= Place(b, a.head)
          /\ \/ b[j] \in a.signals
             \/ IF a.from.sha = None THEN date[b[j]] < a.from.commit ELSE j <= Place(b, a.from.sha)
      BY <1>0, <1>5, <2>2, <3>1 DEF CommitsSought
    <3>3. b[j] \in Commits
      <4>1. b \in Seq(Commits)
        BY <1>1 DEF TypeOK
      <4>2. Place(b, a.head) \in Nat /\ Place(b, a.head) <= Len(b)
        BY <1>5, <3>1, <4>1, PlaceType
      <4>3. Len(b) \in Nat /\ DOMAIN b = 1..Len(b) /\ j \in 1..Place(b, a.head)
        BY <1>5, <3>1, <4>1, LenProperties
      <4>4. QED
        BY <4>1, <4>2, <4>3
    <3>4. /\ date[b[j]] \in Int /\ a.from.commit \in Int /\ watch[w].since \in Int
          /\ TimeOf(b[j]) = date[b[j]]
      BY <1>1, <3>3, ScanAssumptions, FeedAssumptions, SMTT(30)
         DEF TypeOK, CursorRows, WatchRows, TimeOf
    <3>5. a.from.sha = c.sha
      BY <1>0 DEF Begun
    <3>6. c.sha = None => date[b[j]] > watch[w].since /\ a.from.commit <= watch[w].since
      <4>1. c.sha = None => watch[w].base = None
        BY <1>0 DEF Dated, Live
      <4>2. c.sha = None => a.from.commit <= watch[w].since
        BY <1>0, <1>2 DEF Begun
      <4>3. QED
        BY <1>5, <4>1, <4>2 DEF Owed
    <3>7. CASE b[j] \in a.signals
      <4>1. <<w, b[j]>> \in EventsOf(s)
        BY <1>2, <3>3, <3>4, <3>5, <3>6, <3>7, SignalsBecomeEvents
      <4>2. QED
        BY <4>1
    <3>8. CASE b[j] \notin a.signals
      <4>1. a.from.sha # None /\ j <= Place(b, a.from.sha) /\ In(b, a.from.sha)
        BY <3>2, <3>4, <3>5, <3>6, <3>8
      <4>2. j \in 1..Place(b, c.sha)
        <5>1. Place(b, c.sha) \in Nat
          <6>1. b \in Seq(Commits)
            BY <1>1 DEF TypeOK
          <6>2. QED
            BY <3>5, <4>1, <6>1, PlaceType
        <5>2. j \in Nat /\ j >= 1
          BY <1>5
        <5>3. QED
          BY <3>5, <4>1, <5>1, <5>2
      <4>3. QED
        BY <1>0, <1>5, <3>5, <4>1, <4>2 DEF CommitsServed
    <3>9. QED
      BY <3>7, <3>8
  <2>3. QED
    BY <2>1, <2>2
<1>6. QED
  BY <1>4, <1>5

-----------------------------------------------------------------------------
(* The invariant is inductive. *)

LEMMA ProcessKeepsDated ==
  ASSUME TypeOK, Working, Ordered, Complete, NEW s \in Scanners,
         Scan(s) \/ Renew(s) \/ ScanFails(s)
  PROVE  Dated'
<1> DEFINE a == scanner[s]
           c == cursor[a.repo]
<1>0. Dated
  BY DEF Complete
<1>1. UNCHANGED <<clock, released, branch, date, watch>>
  BY ProcessFrame DEF provider
<1>2. CASE UNCHANGED cursor
  BY <1>0, <1>1, <1>2 DEF Dated, Pushed
<1>3. CASE ~UNCHANGED cursor
  <2>1. /\ a.pc = "read" /\ a.key = lease.key /\ a.repo \in Repos
        /\ \A p \in Repos : cursor'[p] = IF p = a.repo THEN Advanced(s) ELSE cursor[p]
    BY <1>3, PersistMoves DEF TypeOK
  <2>2. Advanced(s).sha = None => c.sha = None
    BY <2>1, AdvancesFrom
  <2>3. Advanced(s) = [release |-> IF a.releasesDone
                                   THEN Latest(a.signals \cap Releases, a.from.release)
                                   ELSE c.release,
                       commit |-> IF a.head # None
                                  THEN Latest(a.signals \cap Commits, a.from.commit)
                                  ELSE c.commit,
                       sha |-> IF a.head # None THEN a.head ELSE c.sha]
    BY Zenon DEF Advanced
  <2>4. Advanced(s).sha = None => Advanced(s).commit = 0
    <3>1. c.sha = None => c.commit = 0
      BY <1>0, <2>1 DEF Dated
    <3>2. QED
      BY <2>3, <3>1
  <2>5. Advanced(s).release <= clock
    <3>1. a.signals \in SUBSET Items /\ a.from.release \in 0..MaxTime
      BY DEF TypeOK, Processes, CursorRows
    <3>2. Latest(a.signals \cap Releases, a.from.release)
            \in {a.from.release} \cup {TimeOf(i) : i \in a.signals \cap Releases}
      BY <3>1, LatestType
    <3>3. a.from.release <= clock
      BY <2>1 DEF Complete, Reading, ReleasesSought
    <3>4. \A i \in a.signals \cap Releases : TimeOf(i) <= clock
      BY <1>0 DEF Dated, TimeOf
    <3>5. Latest(a.signals \cap Releases, a.from.release) <= clock
      BY <3>2, <3>3, <3>4
    <3>6. c.release <= clock
      BY <1>0, <2>1 DEF Dated
    <3>7. QED
      BY <2>3, <3>5, <3>6
  <2>6. \A w \in Watches : watch[w].state # "new" /\ cursor'[watch[w].repo].sha = None =>
          watch[w].base = None
    <3>1. \A w \in Watches : watch[w].state # "new" => watch[w].repo \in Repos
      BY DEF Working, Watched
    <3>2. \A p \in Repos : cursor'[p].sha = None => cursor[p].sha = None
      BY <2>1, <2>2
    <3>3. QED
      BY <1>0, <3>1, <3>2 DEF Dated
  <2>7. \A p \in Repos : /\ cursor'[p].release <= clock
                         /\ cursor'[p].sha = None => cursor'[p].commit = 0
    BY <1>0, <2>1, <2>4, <2>5 DEF Dated
  <2>8. QED
    BY <1>0, <1>1, <2>6, <2>7 DEF Dated, Pushed
<1>4. QED
  BY <1>2, <1>3

LEMMA ProcessKeepsReading ==
  ASSUME TypeOK, Working, Ordered, Complete, NEW s \in Scanners,
         Scan(s) \/ Renew(s) \/ ScanFails(s)
  PROVE  Reading'
<1>0. Dated /\ Reading /\ Histories /\ Keys /\ Plans
  BY DEF Complete, Ordered, Working
<1>1. UNCHANGED <<clock, released, branch, date, watch>>
  BY ProcessFrame DEF provider
<1>2. /\ NewRead(s) \/ SameRead(s)
      /\ \A t \in Scanners : t # s => scanner'[t] = scanner[t]
  BY OtherReads
<1>3. \/ UNCHANGED cursor
      \/ /\ scanner[s].pc = "read" /\ scanner[s].key = lease.key
         /\ scanner'[s].pc # "read" /\ UNCHANGED lease
  BY PersistMoves
<1>4. ASSUME NEW t \in Scanners, scanner'[t].pc = "read"
      PROVE  /\ ReleasesSought(t)' /\ CommitsSought(t)'
             /\ scanner'[t].key = lease'.key => Begun(t)'
  <2>1. CASE t = s /\ NewRead(s)
    <3>1. UNCHANGED cursor
      BY <1>3, <2>1 DEF NewRead
    <3>2. ReleasesSought(s)' /\ CommitsSought(s)' /\ Begun(s)'
      BY <1>0, <1>1, <2>1, <3>1, NewReadSeeks
    <3>3. QED
      BY <2>1, <3>2
  <2>2. CASE \/ t # s
             \/ t = s /\ SameRead(s)
    <3>1. /\ scanner[t].pc = "read" /\ scanner'[t].key = scanner[t].key
          /\ scanner'[t].repo = scanner[t].repo /\ scanner'[t].from = scanner[t].from
          /\ scanner'[t].head = scanner[t].head /\ scanner'[t].signals = scanner[t].signals
          /\ scanner'[t].releasesDone = scanner[t].releasesDone
          /\ scanner'[t].listed = scanner[t].listed
      BY <1>2, <1>4, <2>2 DEF SameRead
    <3>2. /\ ReleasesSought(t) /\ CommitsSought(t)
          /\ scanner[t].key = lease.key => Begun(t)
      BY <1>0, <3>1 DEF Reading
    <3>3. ReleasesSought(t)'
      BY <1>1, <3>1, <3>2 DEF ReleasesSought
    <3>4. CommitsSought(t)'
      BY <1>1, <3>1, <3>2 DEF CommitsSought, Pushed
    <3>5. ASSUME scanner'[t].key = lease'.key
          PROVE  Begun(t)'
      <4>1. lease'.key = lease.key
        BY <1>4, <3>5, LeaseKeys
      <4>2. UNCHANGED cursor
        <5>1. ASSUME ~UNCHANGED cursor
              PROVE  FALSE
          <6>1. t # s /\ scanner[s].key = lease.key /\ scanner[s].pc = "read"
            BY <1>3, <1>4, <5>1
          <6>2. scanner[t].key = scanner[s].key /\ scanner[s].key # 0
            BY <1>0, <3>1, <3>5, <4>1, <6>1 DEF Keys
          <6>3. QED
            BY <1>0, <6>1, <6>2 DEF Keys
        <5>2. QED
          BY <5>1
      <4>3. Begun(t)
        BY <3>1, <3>2, <3>5, <4>1
      <4>4. Group(t, scanner[t].repo)' = Group(t, scanner[t].repo)
        BY <1>1, <3>1 DEF Group
      <4>5. QED
        BY <1>1, <3>1, <4>2, <4>3, <4>4 DEF Begun
    <3>6. QED
      BY <3>3, <3>4, <3>5
  <2>3. QED
    BY <1>2, <2>1, <2>2
<1>5. QED
  BY <1>4 DEF Reading

LEMMA ProcessKeepsServed ==
  ASSUME TypeOK, Working, Ordered, Complete, NEW s \in Scanners,
         Scan(s) \/ Renew(s) \/ ScanFails(s)
  PROVE  Served'
<1> DEFINE p == scanner[s].repo
<1>0. Served
  BY DEF Complete
<1>1. UNCHANGED <<clock, released, branch, date, watch>>
  BY ProcessFrame DEF provider
<1>2. /\ events \subseteq events'
      /\ UNCHANGED cursor \/ EventsOf(s) \subseteq events'
  BY CheckpointsFollowEvents
<1>3. ASSUME NEW w \in Watches, Live(w), ~watch[w].raced
      PROVE  ReleasesServed(w)' /\ CommitsServed(w)'
  <2>0. ReleasesServed(w) /\ CommitsServed(w) /\ watch[w].repo \in Repos
    BY <1>0, <1>3 DEF Served, Working, Watched, Live
  <2>1. CASE cursor'[watch[w].repo] = cursor[watch[w].repo]
    BY <1>1, <1>2, <2>0, <2>1 DEF ReleasesServed, CommitsServed, Owed
  <2>2. CASE cursor'[watch[w].repo] # cursor[watch[w].repo]
    <3>1. /\ scanner[s].pc = "read" /\ scanner[s].key = lease.key /\ p \in Repos
          /\ cursor' = [cursor EXCEPT ![p] = Advanced(s)]
      BY <2>2, PersistMoves
    <3>2. watch[w].repo = p /\ cursor'[watch[w].repo] = Advanced(s)
      BY <2>0, <2>2, <3>1 DEF TypeOK
    <3>3. events \cup EventsOf(s) \subseteq events'
      BY <1>2, <2>2
    <3>4. /\ \A r \in Releases :
                /\ released[r].repo = watch[w].repo /\ released[r].time > watch[w].since
                /\ released[r].time < Advanced(s).release
                => <<w, r>> \in events \cup EventsOf(s)
          /\ LET b == branch[watch[w].repo]
                 sha == Advanced(s).sha
             IN  sha # None /\ In(b, sha) =>
                   \A j \in 1..Place(b, sha) :
                     Owed(w, b, j) => <<w, b[j]>> \in events \cup EventsOf(s)
      BY <1>3, <3>1, <3>2, PublicationServes
    <3>5. ReleasesServed(w)'
      BY <1>1, <3>2, <3>3, <3>4 DEF ReleasesServed
    <3>6. CommitsServed(w)'
      BY <1>1, <3>2, <3>3, <3>4 DEF CommitsServed, Owed
    <3>7. QED
      BY <3>5, <3>6
  <2>3. QED
    BY <2>1, <2>2
<1>4. QED
  BY <1>1, <1>3 DEF Served, Live

LEMMA CompleteStep ==
  ASSUME TypeOK, Working, Ordered, Complete, [Next]_vars
  PROVE  Complete'
<1>1. ASSUME NEW s \in Scanners, Scan(s) \/ Renew(s) \/ ScanFails(s)
      PROVE  Complete'
  <2>1. Listing
    BY DEF Complete
  <2>2. Dated' /\ Listing' /\ Reading' /\ Served'
    BY <1>1, <2>1, ProcessKeepsDated, ProcessKeepsListing, ProcessKeepsReading,
       ProcessKeepsServed
  <2>3. QED
    BY <2>2 DEF Complete
<1>2. QED
  BY <1>1, ProviderKeeps, UserKeeps, TimeKeeps DEF Next

LEMMA InitComplete == Init => Complete
<1> SUFFICES ASSUME Init
             PROVE  Complete
  OBVIOUS
<1>1. clock = 1 /\ \A w \in Watches : watch[w] = NoWatch
  BY DEF Init
<1>2. \A s \in Scanners : scanner[s].pc = "idle"
  BY DEF Init, Idle
<1>3. None \notin Commits
  BY ScanAssumptions
<1>4. Dated
  BY <1>1, <1>3 DEF Init, Dated, NoWatch, NoCursor
<1>5. Listing /\ Reading /\ Served
  BY <1>1, <1>2 DEF Listing, Reading, Served, Live, NoWatch
<1>6. QED
  BY <1>4, <1>5 DEF Complete

-----------------------------------------------------------------------------
(* The theorem. *)

LEMMA ServedSkipNothing ==
  ASSUME TypeOK, Served
  PROVE  CheckpointsSkipNothing
<1> SUFFICES ASSUME NEW w \in Watches, Live(w), ~watch[w].raced,
                    NEW i \in PassedReleases(w) \cup PassedCommits(w)
             PROVE  <<w, i>> \in events
  BY DEF CheckpointsSkipNothing
<1> DEFINE p == watch[w].repo
           b == branch[p]
           base == watch[w].base
           sha == cursor[p].sha
<1>1. ReleasesServed(w) /\ CommitsServed(w)
  BY DEF Served
<1>2. \A x : /\ OnBranch(p, x) <=> In(b, x)
             /\ Position(p, x) = Place(b, x)
  BY DEF OnBranch, In, Position, Place
<1>3. CASE i \in PassedReleases(w)
  BY <1>1, <1>3 DEF PassedReleases, ReleasesServed
<1>4. CASE i \in PassedCommits(w)
  <2>1. PassedCommits(w) = IF sha = None \/ ~OnBranch(p, sha) THEN {}
                           ELSE {b[k] : k \in {j \in 1..Position(p, sha) :
                                   \/ date[b[j]] > watch[w].since
                                   \/ base # None /\ OnBranch(p, base) /\ j > Position(p, base)}}
    BY Zenon DEF PassedCommits
  <2>2. sha # None /\ In(b, sha)
    BY <1>2, <1>4, <2>1
  <2>3. PICK j \in 1..Place(b, sha) : i = b[j] /\ Owed(w, b, j)
    <3> DEFINE passes(j) == \/ date[b[j]] > watch[w].since
                            \/ base # None /\ OnBranch(p, base) /\ j > Position(p, base)
    <3>1. PassedCommits(w) = {b[k] : k \in {j \in 1..Position(p, sha) : passes(j)}}
      BY <1>2, <2>1, <2>2
    <3>2. \A j : passes(j) <=> Owed(w, b, j)
      BY <1>2 DEF Owed
    <3> HIDE DEF passes, b, sha
    <3>3. PICK j \in 1..Position(p, sha) : i = b[j] /\ passes(j)
      BY <1>4, <3>1
    <3>4. j \in 1..Place(b, sha) /\ Owed(w, b, j)
      BY <1>2, <3>2, <3>3
    <3>5. QED
      BY <3>3, <3>4
  <2>4. QED
    BY <1>1, <2>2, <2>3 DEF CommitsServed
<1>5. QED
  BY <1>3, <1>4

\* A checkpoint never passes a release or a commit that a watch has not received,
\* however many processes read partly, crash, lose their lease and read again, and
\* whoever else watches the repository: the read of whoever publishes began at the
\* checkpoints that it moves, and its list had every watch that did not appear
\* between the listing and the publication.
THEOREM CheckpointsNeverSkip == Spec => []CheckpointsSkipNothing
<1> DEFINE All == IndInv /\ Ordered /\ Complete
<1>1. Init => All
  BY InitIndInv, InitOrdered, InitComplete
<1>2. All /\ [Next]_vars => All'
  BY NextIndInv, OrderedStep, CompleteStep DEF IndInv
<1>3. All => CheckpointsSkipNothing
  BY ServedSkipNothing DEF IndInv, Complete
<1>4. QED
  <2> HIDE DEF All
  <2>1. QED
    BY <1>1, <1>2, <1>3, PTL DEF Spec

-----------------------------------------------------------------------------
(* Runs that succeed. *)

Busy == {"scanning", "read", "checked"}

\* A watch that was there before the latest run of a process, and that it is not
\* behind with what was released until then.
There(s, w) == Live(w) /\ ~watch[w].raced /\ watch[w].since < runRow[s].startedAt
Swept(s, w) == \A r \in Releases :
  /\ released[r].repo = watch[w].repo /\ released[r].time > watch[w].since
  /\ released[r].time < runRow[s].startedAt
  => <<w, r>> \in events

\* What a complete read begins with, it has up to the start of its run.
Prompt(s) ==
  LET a == scanner[s] IN
  a.pc = "read" /\ a.releasesDone =>
    \A r \in Releases :
      /\ released[r].repo = a.repo /\ released[r].time >= a.from.release
      /\ released[r].time < runRow[s].startedAt
      => r \in a.signals

\* A run has swept what it has ticked off without a failure.
Accounted(s, w) ==
  LET a == scanner[s] IN
  /\ runRow[s].status = "succeeded" => Swept(s, w)
  /\ a.pc \in Busy =>
       /\ w \in a.listed
       /\ ~a.failed /\ watch[w].repo \notin a.todo => Swept(s, w)
       /\ a.pc = "checked" /\ a.check = "succeeded" /\ watch[w].repo = a.repo => Swept(s, w)

Runs == \A s \in Scanners : /\ runRow[s].startedAt <= clock
                            /\ Prompt(s)
                            /\ \A w \in Watches : There(s, w) => Accounted(s, w)

\* What a step of process s makes of its run.
Over(s) ==
  /\ scanner'[s].pc \notin Busy
  /\ \/ runRow'[s] = runRow[s]
     \/ /\ runRow'[s].status # "succeeded"
        /\ runRow'[s].startedAt \in {clock, runRow[s].startedAt}
     \/ /\ scanner[s].pc = "scanning" /\ scanner[s].todo = {}
        /\ runRow'[s].startedAt = runRow[s].startedAt
        /\ runRow'[s].status = "succeeded" => ~scanner[s].failed
Opens(s) ==
  /\ runRow'[s] = [status |-> "running", startedAt |-> clock] /\ scanner'[s].pc = "scanning"
  /\ scanner'[s].listed = {w \in Watches : Live(w)}
  /\ scanner'[s].todo = {watch[w].repo : w \in scanner'[s].listed}
Stays(s) ==
  /\ scanner'[s].pc = scanner[s].pc /\ scanner'[s].todo = scanner[s].todo
  /\ scanner'[s].failed = scanner[s].failed /\ scanner'[s].repo = scanner[s].repo
  /\ scanner'[s].check = scanner[s].check
Ticks(s) ==
  /\ scanner[s].pc \in {"scanning", "read"} /\ scanner'[s].pc = "checked"
  /\ scanner'[s].todo = scanner[s].todo /\ scanner'[s].failed = scanner[s].failed
  /\ scanner'[s].check = "succeeded" =>
       /\ scanner[s].pc = "read" /\ scanner[s].key = lease.key /\ scanner[s].releasesDone
       /\ scanner'[s].repo = scanner[s].repo /\ EventsOf(s) \subseteq events'
Counts(s) ==
  /\ scanner[s].pc = "checked" /\ scanner'[s].pc = "scanning"
  /\ scanner'[s].todo = scanner[s].todo \ {scanner[s].repo}
  /\ ~scanner'[s].failed => ~scanner[s].failed /\ scanner[s].check = "succeeded"

GoesOnWith(s) ==
  /\ runRow'[s] = runRow[s] /\ scanner'[s].listed = scanner[s].listed
  /\ NewRead(s) \/ Stays(s) \/ Ticks(s) \/ Counts(s)

LEMMA DiscardEnds ==
  ASSUME TypeOK, NEW s \in Scanners, Discarded(s)
  PROVE  scanner'[s].pc = "release"
  BY DropTurn, TurnRows DEF Dropped

LEMMA CheckedTicks ==
  ASSUME TypeOK, NEW s \in Scanners, NEW p, NEW check, Checked(s, p, check)
  PROVE  /\ scanner'[s].pc = "checked" /\ scanner'[s].repo = p /\ scanner'[s].check = check
         /\ scanner'[s].todo = scanner[s].todo /\ scanner'[s].failed = scanner[s].failed
         /\ scanner'[s].listed = scanner[s].listed
<1> DEFINE row == [scanner[s] EXCEPT !.pc = "checked", !.repo = p, !.check = check,
                     !.from = NoCursor, !.signals = {}, !.releasesDone = FALSE, !.head = None]
<1>1. scanner[s] \in Processes
  BY DEF TypeOK
<1>2. /\ row.pc = "checked" /\ row.repo = p /\ row.check = check
      /\ row.todo = scanner[s].todo /\ row.failed = scanner[s].failed
      /\ row.listed = scanner[s].listed
  BY <1>1 DEF Processes
<1>3. scanner' = [scanner EXCEPT ![s] = row]
  BY DEF Checked
<1> HIDE DEF row
<1>4. scanner'[s] = row
  BY <1>3 DEF TypeOK
<1>5. QED
  BY <1>2, <1>4

LEMMA StartOpens ==
  ASSUME TypeOK, Working, NEW s \in Scanners, Start(s)
  PROVE  Over(s) \/ Opens(s)
<1>1. CASE Owns(s)
  <2> DEFINE listed == {w \in Watches : Live(w)}
             todo == {watch[w].repo : w \in listed}
             row == [scanner[s] EXCEPT !.pc = "scanning", !.listed = listed, !.todo = todo]
  <2>1. /\ scanner' = [scanner EXCEPT ![s] = row]
        /\ runRow' = [runRow EXCEPT ![s] = [status |-> "running", startedAt |-> clock]]
    BY <1>1, Zenon DEF Start
  <2>2. scanner[s] \in Processes
    BY DEF TypeOK
  <2> HIDE DEF listed, todo
  <2>3. row.pc = "scanning" /\ row.listed = listed /\ row.todo = todo
    BY <2>2 DEF Processes
  <2> HIDE DEF row
  <2>4. /\ scanner'[s] = row
        /\ runRow'[s] = [status |-> "running", startedAt |-> clock]
    BY <2>1 DEF TypeOK
  <2>5. QED
    BY <2>3, <2>4 DEF Opens, listed, todo
<1>2. CASE ~Owns(s)
  <2>1. Discarded(s) /\ runRow' = runRow
    BY <1>2, Zenon DEF Start
  <2>2. QED
    BY <2>1, DiscardEnds DEF Over, Busy
<1>3. QED
  BY <1>1, <1>2

LEMMA PersistTicks ==
  ASSUME TypeOK, Working, NEW s \in Scanners, Persist(s)
  PROVE  Over(s) \/ GoesOnWith(s)
<1>1. scanner[s].pc = "read" /\ UNCHANGED runRow
  BY PersistCases
<1>2. CASE Owns(s)
  <2>1. Checked(s, scanner[s].repo, IF scanner[s].releasesDone /\ scanner[s].head # None
                                    THEN "succeeded" ELSE "partial")
    BY <1>2, Zenon DEF Persist
  <2>2. EventsOf(s) \subseteq events'
    <3>1. ~Discarded(s)
      BY <2>1, CheckedTicks, DiscardEnds
    <3>2. \E found, fresh, details, all : Publication(s, found, fresh, details, all)
      BY <3>1, PersistCases
    <3>3. QED
      BY <3>2 DEF Publication
  <2>3. Ticks(s)
    BY <1>1, <1>2, <2>1, <2>2, CheckedTicks DEF Ticks, Owns
  <2>4. QED
    BY <1>1, <2>1, <2>3, CheckedTicks DEF GoesOnWith
<1>3. CASE ~Owns(s)
  <2>1. Discarded(s)
    BY <1>3, Zenon DEF Persist
  <2>2. QED
    BY <1>1, <2>1, DiscardEnds DEF Over, Busy
<1>4. QED
  BY <1>2, <1>3

LEMMA RecordCounts ==
  ASSUME TypeOK, Working, NEW s \in Scanners, RecordCheck(s)
  PROVE  Over(s) \/ GoesOnWith(s)
<1>1. scanner[s].pc = "checked" /\ UNCHANGED runRow
  BY Zenon DEF RecordCheck
<1>2. CASE Owns(s)
  <2> DEFINE a == scanner[s]
             failed == a.failed \/ CountsAsFailed(a.check)
             row == [a EXCEPT !.pc = "scanning", !.todo = a.todo \ {a.repo}, !.repo = None,
                              !.check = "none", !.failed = failed]
  <2>1. scanner' = [scanner EXCEPT ![s] = row]
    BY <1>2, Zenon DEF RecordCheck
  <2>2. a \in Processes
    BY DEF TypeOK
  <2>3. ~failed => ~a.failed /\ a.check = "succeeded"
    BY DEF CountsAsFailed
  <2> HIDE DEF failed
  <2>4. /\ row.pc = "scanning" /\ row.listed = a.listed /\ row.todo = a.todo \ {a.repo}
        /\ row.failed = failed
    BY <2>2 DEF Processes
  <2> HIDE DEF row
  <2>5. scanner'[s] = row
    BY <2>1 DEF TypeOK
  <2>6. Counts(s)
    BY <1>1, <2>3, <2>4, <2>5 DEF Counts
  <2>7. QED
    BY <1>1, <2>4, <2>5, <2>6 DEF GoesOnWith
<1>3. CASE ~Owns(s)
  <2>1. Discarded(s)
    BY <1>3, Zenon DEF RecordCheck
  <2>2. QED
    BY <1>1, <2>1, DiscardEnds DEF Over, Busy
<1>4. QED
  BY <1>2, <1>3

\* Every step of a process ends its run, begins it or goes on with it.
LEMMA RunMoves ==
  ASSUME TypeOK, Working, NEW s \in Scanners, Scan(s) \/ Renew(s) \/ ScanFails(s)
  PROVE  /\ Over(s) \/ Opens(s) \/ GoesOnWith(s)
         /\ \A t \in Scanners : t # s => runRow'[t] = runRow[t]
<1>0. runRow \in [Scanners -> [status : Checks \cup {"running"}, startedAt : 0..MaxTime]]
  BY DEF TypeOK
<1>1. ASSUME Discarded(s), runRow' = runRow
      PROVE  Over(s)
  BY <1>1, DiscardEnds DEF Over, Busy
<1>2. ASSUME scanner' = scanner \/ scanner' = [scanner EXCEPT ![s].lost = TRUE], runRow' = runRow
      PROVE  GoesOnWith(s)
  <2> DEFINE row == [scanner[s] EXCEPT !.lost = TRUE]
  <2>1. scanner[s] \in Processes
    BY DEF TypeOK
  <2>2. /\ row.pc = scanner[s].pc /\ row.todo = scanner[s].todo /\ row.failed = scanner[s].failed
        /\ row.repo = scanner[s].repo /\ row.check = scanner[s].check
        /\ row.listed = scanner[s].listed
    BY <2>1 DEF Processes
  <2>3. scanner'[s] = row \/ scanner'[s] = scanner[s]
    BY <1>2 DEF TypeOK
  <2> HIDE DEF row
  <2>4. QED
    BY <1>2, <2>2, <2>3 DEF GoesOnWith, Stays
<1>3. CASE Acquire(s)
  <2>1. scanner'[s].pc = "acquired"
    <3>1. PICK row : Turn(s, row) /\ row.pc = "acquired"
      BY <1>3, AcquireTurn DEF Working, Names
    <3>2. QED
      BY <3>1, TurnRows
  <2>2. UNCHANGED runRow
    BY <1>3 DEF Acquire
  <2>3. QED
    BY <2>1, <2>2 DEF Over, Busy
<1>4. CASE Start(s)
  <2>1. runRow' = runRow \/ runRow' = [runRow EXCEPT ![s] =
                                         [status |-> "running", startedAt |-> clock]]
    BY <1>4, Zenon DEF Start
  <2>2. QED
    BY <1>0, <1>4, <2>1, StartOpens
<1>5. CASE Read(s)
  <2>1. UNCHANGED runRow
    BY <1>5, Zenon DEF Read
  <2>2. NewRead(s)
    BY <1>5, ReadIsNew
  <2>3. QED
    BY <2>1, <2>2 DEF GoesOnWith, NewRead
<1>6. CASE Persist(s)
  BY <1>6, PersistTicks, PersistCases
<1>7. CASE RecordCheck(s)
  <2>1. UNCHANGED runRow
    BY <1>7 DEF RecordCheck
  <2>2. QED
    BY <1>7, <2>1, RecordCounts
<1>8. CASE Finish(s)
  <2> DEFINE status == IF scanner[s].failed THEN "partial" ELSE "succeeded"
  <2>1. /\ scanner[s].pc = "scanning" /\ scanner[s].todo = {} /\ Discarded(s)
        /\ \/ runRow' = runRow
           \/ runRow' = [runRow EXCEPT ![s].status = status]
    BY <1>8, Zenon DEF Finish
  <2>2. status = "succeeded" => ~scanner[s].failed
    OBVIOUS
  <2> HIDE DEF status
  <2>3. /\ runRow'[s] = runRow[s] \/ (/\ runRow'[s].status = status
                                      /\ runRow'[s].startedAt = runRow[s].startedAt)
        /\ \A t \in Scanners : t # s => runRow'[t] = runRow[t]
    BY <1>0, <2>1
  <2>4. QED
    BY <2>1, <2>2, <2>3, DiscardEnds DEF Over, Busy
<1>9. CASE Discard(s)
  BY <1>1, <1>9 DEF Discard
<1>10. CASE Release(s) \/ Crash(s)
  <2>1. scanner' = [scanner EXCEPT ![s] = Idle] /\ UNCHANGED runRow
    BY <1>10 DEF Release, Crash
  <2>2. scanner'[s].pc = "idle"
    BY <2>1 DEF TypeOK, Idle
  <2>3. QED
    BY <2>1, <2>2 DEF Over, Busy
<1>11. CASE Renew(s) \/ RenewFails(s)
  <2>1. /\ scanner' = scanner \/ scanner' = [scanner EXCEPT ![s].lost = TRUE]
        /\ runRow' = runRow
    BY <1>11, Zenon DEF Renew, RenewFails
  <2>2. QED
    BY <1>2, <2>1
<1>12. CASE RepositoryFails(s)
  <2>1. /\ UNCHANGED runRow /\ scanner[s].pc \in {"scanning", "read"}
        /\ \E p \in scanner[s].todo \cup {scanner[s].repo} : Checked(s, p, "failed")
    BY <1>12, Zenon DEF RepositoryFails
  <2>2. QED
    BY <2>1, CheckedTicks DEF GoesOnWith, Ticks
<1>13. CASE RunFails(s)
  <2> DEFINE at == IF scanner[s].pc = "acquired" THEN clock ELSE runRow[s].startedAt
  <2>1. /\ Discarded(s)
        /\ \/ runRow' = runRow
           \/ \E status \in {"running", "failed"} :
                runRow' = [runRow EXCEPT ![s] = [status |-> status, startedAt |-> at]]
    BY <1>13, Zenon DEF RunFails
  <2>2. at \in {clock, runRow[s].startedAt}
    OBVIOUS
  <2> HIDE DEF at
  <2>3. /\ \/ runRow'[s] = runRow[s]
           \/ runRow'[s].status # "succeeded" /\ runRow'[s].startedAt = at
        /\ \A t \in Scanners : t # s => runRow'[t] = runRow[t]
    BY <1>0, <2>1
  <2>4. QED
    BY <2>1, <2>2, <2>3, DiscardEnds DEF Over, Busy
<1>14. QED
  BY <1>1, <1>2, <1>3, <1>4, <1>5, <1>6, <1>7, <1>8, <1>9, <1>10, <1>11, <1>12, <1>13
     DEF Scan, ScanFails

\* A new read has whatever its boundary asks for, when it is complete.
LEMMA NewReadPrompt ==
  ASSUME TypeOK, NEW s \in Scanners, NewRead(s), UNCHANGED released, scanner'[s].releasesDone
  PROVE  \A r \in Releases :
           released[r].repo = scanner'[s].repo /\ released[r].time >= scanner'[s].from.release =>
             r \in scanner'[s].signals
<1>1. PICK p \in scanner[s].todo, commitsDone \in BOOLEAN :
        Gathers(s, p, Boundary(s, p), commitsDone)
  BY DEF NewRead
<1> DEFINE from == Boundary(s, p)
<1>2. PICK rs \in Yield(ReleasesFrom(p, from), scanner'[s].releasesDone),
           cs \in Yield(IF Linear(p, from) THEN CommitsFrom(p, from) ELSE {}, commitsDone) :
        scanner'[s].signals = rs \cup cs
  BY <1>1, Zenon DEF Gathers
<1>3. scanner'[s].repo = p /\ scanner'[s].from = from
  BY <1>1 DEF Gathers
<1>4. rs = ReleasesFrom(p, from)
  BY <1>2 DEF Yield
<1> HIDE DEF from
<1>5. QED
  BY <1>2, <1>3, <1>4 DEF ReleasesFrom

\* A repository that is read to its end leaves no release behind.
LEMMA PublicationSweeps ==
  ASSUME TypeOK, Working, Complete, Runs, NEW s \in Scanners,
         scanner[s].pc = "read", scanner[s].key = lease.key, scanner[s].releasesDone,
         NEW w \in Watches, There(s, w), watch[w].repo = scanner[s].repo,
         NEW r \in Releases, released[r].repo = watch[w].repo,
         released[r].time > watch[w].since, released[r].time < runRow[s].startedAt
  PROVE  <<w, r>> \in events \cup EventsOf(s)
<1> DEFINE a == scanner[s]
           p == scanner[s].repo
           c == cursor[p]
           t == released[r].time
<1>1. /\ Begun(s) /\ ReleasesServed(w) /\ Prompt(s) /\ w \in a.listed
  BY DEF Complete, Reading, Served, Runs, There, Accounted, Busy
<1>2. w \in Group(s, p)
  BY <1>1 DEF Group
<1>3. a.from \in CursorRows /\ p \in Repos /\ c \in CursorRows
  BY AdvancedType DEF Working, TypeOK, Processes
<1>4. /\ t \in Int /\ watch[w].since \in Int /\ a.from.release \in Int /\ c.release \in Int
  BY <1>3, ScanAssumptions DEF TypeOK, WatchRows, CursorRows
<1>5. CASE t >= a.from.release
  <2>1. r \in a.signals
    BY <1>1, <1>5 DEF Prompt
  <2>2. TimeOf(r) > watch[w].since
    BY DEF TimeOf
  <2>3. QED
    BY <1>2, <2>1, <2>2, SignalsBecomeEvents
<1>6. CASE ~(t >= a.from.release)
  <2>1. t < a.from.release
    BY <1>4, <1>6
  <2>2. IF c.release # 0 THEN a.from.release = c.release ELSE a.from.release <= watch[w].since
    BY <1>1, <1>2 DEF Begun
  <2>3. t < c.release
    BY <1>4, <2>1, <2>2
  <2>4. QED
    BY <1>1, <2>3 DEF ReleasesServed
<1>7. QED
  BY <1>5, <1>6

\* A process accounts for its run.
LEMMA ProcessKeepsRuns ==
  ASSUME TypeOK, Working, Ordered, Complete, Runs, NEW s \in Scanners,
         Scan(s) \/ Renew(s) \/ ScanFails(s)
  PROVE  Runs'
<1> DEFINE a == scanner[s]
<1>0. /\ UNCHANGED <<clock, released, watch>> /\ events \subseteq events'
      /\ \A t \in Scanners : t # s => scanner'[t] = scanner[t] /\ runRow'[t] = runRow[t]
      /\ NewRead(s) \/ SameRead(s)
  BY ProcessFrame, CheckpointsFollowEvents, OtherReads, RunMoves DEF provider
<1>1. ASSUME NEW t \in Scanners, NEW w \in Watches, runRow'[t].startedAt = runRow[t].startedAt
      PROVE  (There(t, w)' <=> There(t, w)) /\ (Swept(t, w) => Swept(t, w)')
  BY <1>0, <1>1 DEF There, Live, Swept
<1>2. ASSUME NEW t \in Scanners, t # s
      PROVE  /\ runRow'[t].startedAt <= clock' /\ Prompt(t)'
             /\ \A w \in Watches : There(t, w)' => Accounted(t, w)'
  <2>1. runRow[t].startedAt <= clock /\ Prompt(t)
        /\ \A w \in Watches : There(t, w) => Accounted(t, w)
    BY DEF Runs
  <2>2. runRow'[t] = runRow[t] /\ scanner'[t] = scanner[t]
    BY <1>0, <1>2
  <2>3. Prompt(t)'
    BY <1>0, <2>1, <2>2 DEF Prompt
  <2>4. ASSUME NEW w \in Watches, There(t, w)'
        PROVE  Accounted(t, w)'
    BY <1>0, <1>1, <2>1, <2>2, <2>4 DEF Accounted
  <2>5. QED
    BY <1>0, <2>1, <2>2, <2>3, <2>4
<1>3. runRow[s].startedAt <= clock /\ Prompt(s) /\ \A w \in Watches : There(s, w) => Accounted(s, w)
  BY DEF Runs
<1>4. clock \in Int /\ \A w \in Watches : watch[w].since \in Int
  BY ScanAssumptions DEF TypeOK, Times, WatchRows
<1>5. CASE Over(s)
  <2>1. runRow'[s].startedAt <= clock
    BY <1>3, <1>4, <1>5 DEF Over
  <2>2. Prompt(s)'
    BY <1>5 DEF Over, Prompt, Busy
  <2>3. ASSUME NEW w \in Watches, There(s, w)', runRow'[s].status = "succeeded"
        PROVE  Swept(s, w)'
    <3>1. runRow'[s].startedAt = runRow[s].startedAt
      BY <1>5, <2>3 DEF Over
    <3>2. Accounted(s, w)
      BY <1>1, <1>3, <2>3, <3>1
    <3>3. Swept(s, w)
      BY <1>5, <2>3, <3>2 DEF Over, Accounted, Busy
    <3>4. QED
      BY <1>1, <3>1, <3>3
  <2>4. \A w \in Watches : There(s, w)' => Accounted(s, w)'
    BY <1>5, <2>3 DEF Over, Accounted
  <2>5. QED
    BY <1>0, <1>2, <2>1, <2>2, <2>4 DEF Runs
<1>6. CASE Opens(s)
  <2>1. /\ runRow'[s].status = "running" /\ runRow'[s].startedAt = clock
        /\ scanner'[s].pc = "scanning"
    BY <1>6 DEF Opens
  <2>2. ASSUME NEW w \in Watches, There(s, w)'
        PROVE  w \in scanner'[s].listed /\ watch[w].repo \in scanner'[s].todo
    BY <1>0, <1>6, <2>2 DEF Opens, There, Live
  <2>3. \A w \in Watches : There(s, w)' => Accounted(s, w)'
    BY <1>0, <2>1, <2>2 DEF Accounted
  <2>4. Prompt(s)' /\ runRow'[s].startedAt <= clock'
    BY <1>0, <1>4, <2>1 DEF Prompt
  <2>5. QED
    BY <1>2, <2>3, <2>4 DEF Runs
<1>7. CASE GoesOnWith(s)
  <2>1. runRow'[s] = runRow[s] /\ scanner'[s].listed = a.listed
    BY <1>7 DEF GoesOnWith
  <2>2. Prompt(s)'
    <3>1. CASE NewRead(s) /\ scanner'[s].releasesDone
      BY <1>0, <3>1, NewReadPrompt DEF Prompt
    <3>2. CASE SameRead(s)
      BY <1>0, <1>3, <2>1, <3>2 DEF SameRead, Prompt
    <3>3. CASE ~scanner'[s].releasesDone
      BY <3>3 DEF Prompt
    <3>4. QED
      BY <1>0, <3>1, <3>2, <3>3
  <2>3. ASSUME NEW w \in Watches, There(s, w)'
        PROVE  Accounted(s, w)'
    <3>1. There(s, w) /\ Accounted(s, w) /\ (Swept(s, w) => Swept(s, w)')
      BY <1>1, <1>3, <2>1, <2>3
    <3>2. runRow'[s].status = "succeeded" => Swept(s, w)'
      BY <2>1, <3>1 DEF Accounted
    <3>3. CASE NewRead(s)
      BY <1>0, <2>1, <3>1, <3>2, <3>3 DEF NewRead, Accounted, Busy
    <3>4. CASE Stays(s)
      BY <1>0, <2>1, <3>1, <3>2, <3>4 DEF Stays, Accounted
    <3>5. CASE Ticks(s)
      <4>1. a.pc \in Busy /\ scanner'[s].pc = "checked"
        BY <3>5 DEF Ticks, Busy
      <4>2. w \in scanner'[s].listed
        BY <2>1, <3>1, <4>1 DEF Accounted
      <4>3. ~scanner'[s].failed /\ watch[w].repo \notin scanner'[s].todo => Swept(s, w)'
        BY <3>1, <3>5, <4>1 DEF Ticks, Accounted
      <4>4. ASSUME scanner'[s].check = "succeeded", watch[w].repo = scanner'[s].repo
            PROVE  Swept(s, w)'
        <5>1. /\ a.pc = "read" /\ a.key = lease.key /\ a.releasesDone
              /\ watch[w].repo = a.repo /\ EventsOf(s) \subseteq events'
          BY <3>5, <4>4 DEF Ticks
        <5>2. \A r \in Releases :
                /\ released[r].repo = watch[w].repo /\ released[r].time > watch[w].since
                /\ released[r].time < runRow[s].startedAt
                => <<w, r>> \in events \cup EventsOf(s)
          BY <3>1, <5>1, PublicationSweeps
        <5>3. QED
          BY <1>0, <2>1, <5>1, <5>2 DEF Swept
      <4>5. QED
        BY <1>0, <3>2, <4>2, <4>3, <4>4 DEF Accounted
    <3>6. CASE Counts(s)
      <4>1. /\ a.pc = "checked" /\ scanner'[s].pc = "scanning"
            /\ scanner'[s].todo = a.todo \ {a.repo}
            /\ ~scanner'[s].failed => ~a.failed /\ a.check = "succeeded"
        BY <3>6 DEF Counts
      <4>2. w \in scanner'[s].listed
        BY <2>1, <3>1, <4>1 DEF Accounted, Busy
      <4>3. ~scanner'[s].failed /\ watch[w].repo \notin scanner'[s].todo => Swept(s, w)'
        BY <3>1, <4>1 DEF Accounted, Busy
      <4>4. QED
        BY <1>0, <3>2, <4>1, <4>2, <4>3 DEF Accounted
    <3>7. QED
      BY <1>7, <3>3, <3>4, <3>5, <3>6 DEF GoesOnWith
  <2>4. QED
    BY <1>0, <1>2, <1>3, <2>1, <2>2, <2>3 DEF Runs
<1>8. QED
  BY <1>5, <1>6, <1>7, RunMoves

\* Members and the provider add only watches and releases that are no older than
\* any run, and take events only with their watches.
LEMMA OthersKeepRuns ==
  ASSUME TypeOK, Working, Runs,
         UserStep \/ ProviderStep \/ Advance \/ LeaseTick \/ UNCHANGED vars
  PROVE  Runs'
<1>0. UNCHANGED <<scanner, runRow>>
  BY DEF UserStep, Subscribe, Unsubscribe, DeleteAccount, ProviderStep, PublishRelease, Push,
         Rewrite, Advance, LeaseTick, vars
<1>1. clock' >= clock /\ clock \in Int /\ clock' \in Int
  BY ScanAssumptions DEF UserStep, Subscribe, Unsubscribe, DeleteAccount, ProviderStep,
         PublishRelease, Push, Rewrite, Advance, LeaseTick, Later, TypeOK, Times, vars
<1>2. \A s \in Scanners : runRow[s].startedAt <= clock /\ runRow[s].startedAt \in Int
  BY ScanAssumptions DEF Runs, TypeOK
<1>3. \A r \in Releases : released'[r] = released[r] \/ released'[r].time = clock
  <2>1. ASSUME NEW p \in Repos, NEW r \in Releases, PublishRelease(p, r)
        PROVE  \A q \in Releases : released'[q] = released[q] \/ released'[q].time = clock
    BY <2>1 DEF PublishRelease, TypeOK
  <2>2. QED
    BY <2>1 DEF UserStep, Subscribe, Unsubscribe, DeleteAccount, ProviderStep, Push, Rewrite,
                Advance, LeaseTick, vars, provider
<1>4. ASSUME NEW w \in Watches
      PROVE  \/ ~Live(w)'
             \/ watch'[w].since = clock
             \/ /\ watch'[w] = watch[w]
                /\ \A r \in Releases : <<w, r>> \in events => <<w, r>> \in events'
  <2>1. ASSUME NEW u \in Users, NEW p \in Repos, NEW v \in Watches, Subscribe(u, p, v)
        PROVE  watch'[w].since = clock \/ (watch'[w] = watch[w] /\ events' = events)
    BY <2>1 DEF Subscribe, TypeOK, feed
  <2>2. ASSUME NEW v \in Watches, Unsubscribe(v)
        PROVE  ~Live(w)' \/ (watch'[w] = watch[w] /\ events' = events)
    BY <2>2 DEF Unsubscribe, Live, TypeOK, WatchRows, feed
  <2>3. ASSUME NEW u \in Users, DeleteAccount(u)
        PROVE  \/ ~Live(w)'
               \/ /\ watch'[w] = watch[w]
                  /\ \A r \in Releases : <<w, r>> \in events => <<w, r>> \in events'
    <3>1. w \in Owned(u) => ~Live(w)'
      BY <2>3 DEF DeleteAccount, Live, TypeOK, WatchRows
    <3>2. w \notin Owned(u) => watch'[w] = watch[w]
      BY <2>3 DEF DeleteAccount
    <3>3. events' = {e \in events : e[1] \notin Owned(u)}
      BY <2>3 DEF DeleteAccount
    <3>4. QED
      BY <3>1, <3>2, <3>3
  <2>4. CASE ProviderStep \/ Advance \/ LeaseTick \/ UNCHANGED vars
    <3>1. UNCHANGED <<watch, events>>
      BY <2>4 DEF ProviderStep, PublishRelease, Push, Rewrite, Advance, LeaseTick, vars, feed
    <3>2. QED
      BY <3>1
  <2>5. QED
    BY <2>1, <2>2, <2>3, <2>4 DEF UserStep
<1>5. ASSUME NEW s \in Scanners, NEW w \in Watches, There(s, w)'
      PROVE  There(s, w) /\ watch'[w] = watch[w] /\ (Swept(s, w) => Swept(s, w)')
  <2>1. watch'[w] = watch[w] /\ \A r \in Releases : <<w, r>> \in events => <<w, r>> \in events'
    BY <1>0, <1>1, <1>2, <1>4, <1>5 DEF There
  <2>2. There(s, w)
    BY <1>0, <1>5, <2>1 DEF There, Live
  <2>3. Swept(s, w) => Swept(s, w)'
    BY <1>0, <1>1, <1>2, <1>3, <2>1 DEF Swept
  <2>4. QED
    BY <2>1, <2>2, <2>3
<1>6. ASSUME NEW s \in Scanners
      PROVE  Prompt(s)'
  BY <1>0, <1>1, <1>2, <1>3 DEF Runs, Prompt
<1>7. ASSUME NEW s \in Scanners, NEW w \in Watches, There(s, w)'
      PROVE  Accounted(s, w)'
  <2>1. Accounted(s, w)
    BY <1>5, <1>7 DEF Runs
  <2>2. QED
    BY <1>0, <1>5, <1>7, <2>1 DEF Accounted
<1>8. \A s \in Scanners : runRow'[s].startedAt <= clock'
  BY <1>0, <1>1, <1>2
<1>9. QED
  BY <1>6, <1>7, <1>8 DEF Runs

LEMMA RunsStep ==
  ASSUME TypeOK, Working, Ordered, Complete, Runs, [Next]_vars
  PROVE  Runs'
  BY ProcessKeepsRuns, OthersKeepRuns DEF Next

LEMMA InitRuns == Init => Runs
<1> SUFFICES ASSUME Init
             PROVE  Runs
  OBVIOUS
<1>1. clock = 1 /\ \A w \in Watches : watch[w] = NoWatch
  BY DEF Init
<1>2. \A s \in Scanners : /\ scanner[s].pc = "idle" /\ runRow[s].startedAt = 0
                          /\ runRow[s].status = "none"
  BY DEF Init, Idle, NoRun
<1>3. QED
  BY <1>1, <1>2 DEF Runs, Prompt, There, Live, NoWatch

\* A run that is recorded as succeeded has left no release behind that was there
\* when it started, however other runs failed, read partly or were superseded: it
\* ticked every repository off with a complete read, and what that read did not
\* begin with, the checkpoints had passed with an event.
THEOREM SucceededRunsAreCaughtUp == Spec => []SucceededRunsCaughtUp
<1> DEFINE All == IndInv /\ Ordered /\ Complete /\ Runs
<1>1. Init => All
  BY InitIndInv, InitOrdered, InitComplete, InitRuns
<1>2. All /\ [Next]_vars => All'
  BY NextIndInv, OrderedStep, CompleteStep, RunsStep DEF IndInv
<1>3. All => SucceededRunsCaughtUp
  BY DEF SucceededRunsCaughtUp, Runs, There, Accounted, Swept
<1>4. QED
  <2> HIDE DEF All
  <2>1. QED
    BY <1>1, <1>2, <1>3, PTL DEF Spec
=============================================================================
