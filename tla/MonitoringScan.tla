--------------------------- MODULE MonitoringScan ---------------------------
(***************************************************************************)
(* Repository monitoring: scan processes that share one database lease,    *)
(* read provider activity after durable checkpoints and publish it to the  *)
(* Feeds of the watching users, while users subscribe, unsubscribe and     *)
(* delete their accounts and the provider's repositories move on.          *)
(*                                                                         *)
(*   backend/app/jobs/scan_subscriptions.py      process and heartbeat     *)
(*   backend/app/services/monitoring/scan.py     the scan                  *)
(*   backend/app/storage/monitoring/state.py     lease, checkpoints, runs  *)
(*   backend/app/storage/subscriptions/          watches                   *)
(*                                                                         *)
(* A transaction is one step.  An owned transaction keeps the lease row    *)
(* locked, so it is decided by its last check, the one before its commit.  *)
(* Timestamps are whole seconds, as the watches keep them.                 *)
(***************************************************************************)
EXTENDS FeedPublication, Integers, Sequences

CONSTANTS
  Scanners,    \* scan processes
  Users,       \* accounts
  Repos,       \* watched repositories of the provider
  Root,        \* HEAD of every repository before anything is pushed
  None,        \* a missing checkpoint, date or owner
  MaxTime,     \* bound: the clock stays at its last second
  LeaseTicks,  \* lease duration in ticks; a tick takes at least a second
  MaxFaults    \* bound: crashes, failures, partial reads, rewrites, late renewals

ASSUME ScanAssumptions ==
  /\ Root \notin Commits /\ None \notin Commits \cup Repos \cup Users \cup {Root}
  /\ IsFiniteSet(Scanners) /\ IsFiniteSet(Watches) /\ IsFiniteSet(Items)
  /\ MaxTime \in Nat \ {0} /\ LeaseTicks \in Nat \ {0} /\ MaxFaults \in Nat

VARIABLES
  clock,     \* now, in seconds
  released,  \* provider: repository and time of each published release
  branch,    \* provider: default branch of each repository
  date,      \* provider: committer date of each pushed commit
  account,   \* users
  watch,     \* repository_subscriptions
  cursor,    \* repository_monitoring_cursors
  lease,     \* monitoring_job_leases
  scanner,   \* what each scan process holds in memory
  runRow,    \* monitoring_runs and checks: the last run of each process
  events,    \* user_feed_events
  refs,      \* comparison references stored with each release event
  cards,     \* user_feed_update_groups and their members
  faults     \* faults that have happened

provider == <<released, branch, date>>
feed == <<events, refs, cards>>
vars == <<clock, provider, account, watch, cursor, lease, scanner, runRow, feed, faults>>

-----------------------------------------------------------------------------
Times == 1..MaxTime
Shas  == {Root} \cup Commits

WatchRows == [state : {"new", "live", "deleted"}, owner : Users \cup {None},
              repo : Repos \cup {None}, since : 0..MaxTime,
              base : Shas \cup {None}, raced : BOOLEAN]
NoWatch == [state |-> "new", owner |-> None, repo |-> None, since |-> 0,
            base |-> None, raced |-> FALSE]

\* Checkpoints; 0 and None mean that there is no row.
CursorRows == [release : 0..MaxTime, commit : 0..MaxTime, sha : Shas \cup {None}]
NoCursor == [release |-> 0, commit |-> 0, sha |-> None]

\* The lease row is absent when its key is 0.  One key stands for the holder
\* and its token: both are fresh identifiers of one invocation.
NoLease == [key |-> 0, left |-> 0]

Checks == {"none", "succeeded", "partial", "failed"}
Processes == [pc : {"idle", "acquired", "scanning", "read", "checked", "release"},
              key : Nat, lost : BOOLEAN, listed : SUBSET Watches, todo : SUBSET Repos,
              repo : Repos \cup {None}, from : CursorRows, signals : SUBSET Items,
              releasesDone : BOOLEAN, head : Shas \cup {None}, check : Checks,
              failed : BOOLEAN]
Idle == [pc |-> "idle", key |-> 0, lost |-> FALSE, listed |-> {}, todo |-> {},
         repo |-> None, from |-> NoCursor, signals |-> {}, releasesDone |-> FALSE,
         head |-> None, check |-> "none", failed |-> FALSE]

NoRun == [status |-> "none", startedAt |-> 0]

TypeOK ==
  /\ clock \in Times
  /\ released \in [Releases -> [repo : Repos \cup {None}, time : 0..MaxTime]]
  /\ branch \in [Repos -> Seq(Commits)]
  /\ date \in [Commits -> 0..MaxTime]
  /\ account \in [Users -> {"active", "deleted"}]
  /\ watch \in [Watches -> WatchRows]
  /\ cursor \in [Repos -> CursorRows]
  /\ lease \in [key : Nat, left : 0..LeaseTicks]
  /\ scanner \in [Scanners -> Processes]
  /\ runRow \in [Scanners -> [status : Checks \cup {"running"}, startedAt : 0..MaxTime]]
  /\ events \subseteq Events /\ cards \subseteq Cards
  /\ refs \in [Watches \X Releases -> SUBSET Events]
  /\ faults \in 0..MaxFaults

Init ==
  /\ clock = 1
  /\ released = [r \in Releases |-> [repo |-> None, time |-> 0]]
  /\ branch = [p \in Repos |-> <<>>]
  /\ date = [c \in Commits |-> 0]
  /\ account = [u \in Users |-> "active"]
  /\ watch = [w \in Watches |-> NoWatch]
  /\ cursor = [p \in Repos |-> NoCursor]
  /\ lease = NoLease
  /\ scanner = [s \in Scanners |-> Idle]
  /\ runRow = [s \in Scanners |-> NoRun]
  /\ events = {} /\ cards = {}
  /\ refs = [e \in Watches \X Releases |-> {}]
  /\ faults = 0

Fault == faults < MaxFaults /\ faults' = faults + 1

-----------------------------------------------------------------------------
(* The provider. *)

Tip(p) == IF branch[p] = <<>> THEN Root ELSE branch[p][Len(branch[p])]
Pushed(c) == date[c] > 0

PublishRelease(p, r) ==
  /\ released[r].repo = None
  /\ released' = [released EXCEPT ![r] = [repo |-> p, time |-> clock]]
  /\ UNCHANGED <<clock, branch, date, account, watch, cursor, lease, scanner, runRow, feed, faults>>

\* A commit may be older than its push.
Push(p, c) ==
  /\ ~Pushed(c)
  /\ branch' = [branch EXCEPT ![p] = Append(@, c)]
  /\ \E d \in {1, clock} : date' = [date EXCEPT ![c] = d]
  /\ UNCHANGED <<clock, released, account, watch, cursor, lease, scanner, runRow, feed, faults>>

\* A force push drops the newest commit.
Rewrite(p) ==
  /\ branch[p] # <<>> /\ Fault
  /\ branch' = [branch EXCEPT ![p] = SubSeq(@, 1, Len(@) - 1)]
  /\ UNCHANGED <<clock, released, date, account, watch, cursor, lease, scanner, runRow, feed>>

-----------------------------------------------------------------------------
(* Users. *)

Live(w) == watch[w].state = "live"

\* Repositories whose watches a scan has listed and which it has not yet published.
Unpublished(s) ==
  CASE scanner[s].pc \in {"scanning", "read"} -> scanner[s].todo
    [] scanner[s].pc = "checked" -> scanner[s].todo \ {scanner[s].repo}
    [] OTHER -> {}
Racing(p) == \E s \in Scanners : p \in Unpublished(s)

\* create_subscription; an existing watch of the same user is returned as it is.
\* base and raced are history: they record when the watch appeared.
Subscribe(u, p, w) ==
  /\ account[u] = "active" /\ watch[w].state = "new"
  /\ \A v \in Watches : ~(Live(v) /\ watch[v].owner = u /\ watch[v].repo = p)
  /\ watch' = [watch EXCEPT ![w] = [state |-> "live", owner |-> u, repo |-> p, since |-> clock,
                                    base |-> cursor[p].sha, raced |-> Racing(p)]]
  /\ UNCHANGED <<clock, provider, account, cursor, lease, scanner, runRow, feed, faults>>

\* delete_subscription_for_user; history and checkpoints stay.
Unsubscribe(w) ==
  /\ Live(w)
  /\ watch' = [watch EXCEPT ![w].state = "deleted"]
  /\ UNCHANGED <<clock, provider, account, cursor, lease, scanner, runRow, feed, faults>>

Owned(u) == {w \in Watches : watch[w].owner = u}

\* delete_user_account: cards, events, watches and the user, in one transaction.
DeleteAccount(u) ==
  /\ account[u] = "active"
  /\ account' = [account EXCEPT ![u] = "deleted"]
  /\ events' = {e \in events : e[1] \notin Owned(u)}
  /\ cards' = {g \in cards : g.id[1] \notin Owned(u)}
  /\ refs' = [e \in DOMAIN refs |-> IF e[1] \in Owned(u) THEN {} ELSE refs[e]]
  /\ watch' = [w \in Watches |-> IF w \in Owned(u) THEN [watch[w] EXCEPT !.state = "deleted"]
                                 ELSE watch[w]]
  /\ UNCHANGED <<clock, provider, cursor, lease, scanner, runRow, faults>>

-----------------------------------------------------------------------------
(* The lease. *)

\* An identifier that nothing refers to.
NewKey ==
  LET used == {lease.key} \cup {scanner[s].key : s \in Scanners} \cup {g.id[3] : g \in cards}
  IN  CHOOSE k \in 1..(Cardinality(used) + 1) : k \notin used

\* acquire_monitoring_job_lease by a new invocation; a live lease ends it at once.
Acquire(s) ==
  /\ scanner[s].pc = "idle"
  /\ lease.left = 0
  /\ lease' = [key |-> NewKey, left |-> LeaseTicks]
  /\ scanner' = [scanner EXCEPT ![s] = [Idle EXCEPT !.pc = "acquired", !.key = NewKey]]
  /\ UNCHANGED <<clock, provider, account, watch, cursor, runRow, feed, faults>>

\* Bug: the fencing token is not compared.
OwnsAnyLease(s) == lease.left > 0

\* An owned transaction commits: the claim is the process's own and live.
Owns(s) == lease.key = scanner[s].key /\ lease.left > 0

\* MonitoringLeaseLostError: the attempt is discarded.
Discarded(s) == scanner' = [scanner EXCEPT ![s] = [Idle EXCEPT !.pc = "release",
                                                       !.key = scanner[s].key]]

\* release_monitoring_job_lease deletes only the matching claim.
Release(s) ==
  /\ scanner[s].pc = "release"
  /\ lease' = IF lease.key = scanner[s].key THEN NoLease ELSE lease
  /\ scanner' = [scanner EXCEPT ![s] = Idle]
  /\ UNCHANGED <<clock, provider, account, watch, cursor, runRow, feed, faults>>

\* Bug: a renewal adds to the old expiry.
Extended(left) == left + LeaseTicks

\* A renewal counts from now.
Renewed(left) == LeaseTicks

\* The heartbeat after an interval: renew the claim, or report its loss and end.
Renew(s) ==
  /\ scanner[s].pc \notin {"idle", "release"} /\ ~scanner[s].lost
  /\ IF Owns(s)
     THEN /\ lease.left < LeaseTicks
          /\ lease' = [lease EXCEPT !.left = Renewed(@)]
          /\ scanner' = scanner
     ELSE /\ scanner' = [scanner EXCEPT ![s].lost = TRUE]
          /\ lease' = lease
  /\ UNCHANGED <<clock, provider, account, watch, cursor, runRow, feed, faults>>

-----------------------------------------------------------------------------
(* One scan. *)

\* ensure_lease finds the heartbeat's flag.
Discard(s) ==
  /\ scanner[s].lost
  /\ \/ scanner[s].pc \in {"acquired", "read"}
     \/ scanner[s].pc = "scanning" /\ scanner[s].todo # {}
  /\ Discarded(s)
  /\ UNCHANGED <<clock, provider, account, watch, cursor, lease, runRow, feed, faults>>

\* create_monitoring_run, then the list of watches, which one commit precedes.
Start(s) ==
  LET listed == {w \in Watches : Live(w)} IN
  /\ scanner[s].pc = "acquired" /\ ~scanner[s].lost
  /\ IF Owns(s)
     THEN /\ runRow' = [runRow EXCEPT ![s] = [status |-> "running", startedAt |-> clock]]
          /\ scanner' = [scanner EXCEPT ![s] =
               [@ EXCEPT !.pc = "scanning", !.listed = listed,
                         !.todo = {watch[w].repo : w \in listed}]]
     ELSE Discarded(s) /\ runRow' = runRow
  /\ UNCHANGED <<clock, provider, account, watch, cursor, lease, feed, faults>>

\* The listed watches of a repository, and the start of the oldest of them.
Group(s, p) == {w \in scanner[s].listed : watch[w].repo = p}

\* Bug: the read begins where the youngest watch does.
Youngest(s, p) == CHOOSE t \in {watch[w].since : w \in Group(s, p)} :
                    \A w \in Group(s, p) : watch[w].since <= t

Oldest(s, p) == CHOOSE t \in {watch[w].since : w \in Group(s, p)} :
                  \A w \in Group(s, p) : t <= watch[w].since

\* The boundaries of a read: each checkpoint, or the oldest listed watch.
Boundary(s, p) ==
  [cursor[p] EXCEPT !.release = IF @ = 0 THEN Oldest(s, p) ELSE @,
                    !.commit = IF @ = 0 THEN Oldest(s, p) ELSE @]

\* Bug: releases exactly on the checkpoint are not read again.
ReleasesAfter(p, from) == {r \in Releases : released[r].repo = p /\ released[r].time > from.release}

\* Releases on the checkpoint are read again.
ReleasesFrom(p, from) == {r \in Releases : released[r].repo = p /\ released[r].time >= from.release}

Position(p, sha) ==
  IF sha = Root THEN 0 ELSE CHOOSE i \in DOMAIN branch[p] : branch[p][i] = sha
OnBranch(p, sha) == sha = Root \/ \E i \in DOMAIN branch[p] : branch[p][i] = sha

\* A first read goes by committer dates, a later one by what HEAD newly reaches.
CommitsFrom(p, from) ==
  LET start == IF from.sha = None THEN 0 ELSE Position(p, from.sha)
      found == {branch[p][i] : i \in (start + 1)..Len(branch[p])}
  IN  IF from.sha = None THEN {c \in found : date[c] >= from.commit} ELSE found

\* What a stream yields: all of it, or a part when the read is incomplete.
Yield(stream, complete) == IF complete THEN {stream} ELSE SUBSET stream

\* load_repository_activity: two streams, each complete or partial, the commits up
\* to a pinned HEAD unless the history behind the stored SHA was rewritten.
Read(s) ==
  \E p \in scanner[s].todo, releasesDone, commitsDone \in BOOLEAN :
    LET from == Boundary(s, p)
        linear == from.sha = None \/ OnBranch(p, from.sha)
    IN  /\ scanner[s].pc = "scanning" /\ ~scanner[s].lost
        /\ IF releasesDone /\ commitsDone THEN faults' = faults ELSE Fault
        /\ \E rs \in Yield(ReleasesFrom(p, from), releasesDone),
              cs \in Yield(IF linear THEN CommitsFrom(p, from) ELSE {}, commitsDone) :
             scanner' = [scanner EXCEPT ![s] =
               [@ EXCEPT !.pc = "read", !.repo = p, !.from = from, !.signals = rs \cup cs,
                         !.releasesDone = releasesDone,
                         !.head = IF commitsDone /\ linear THEN Tip(p) ELSE None]]
        /\ UNCHANGED <<clock, provider, account, watch, cursor, lease, runRow, feed>>

TimeOf(i) == IF i \in Releases THEN released[i].time ELSE date[i]

\* Commits that HEAD newly reaches are events whatever their date; everything
\* else only if it was published after the watch began.
EventsOf(s) ==
  LET a == scanner[s] IN
  {<<w, i>> : w \in Group(s, a.repo), i \in a.signals}
    \ {e \in Events : /\ ~(e[2] \in Commits /\ a.from.sha # None)
                      /\ TimeOf(e[2]) <= watch[e[1]].since}

\* _latest: the newest signal of a kind, never before the boundary.
Latest(signals, bound) ==
  CHOOSE t \in {bound} \cup {TimeOf(i) : i \in signals} :
    t >= bound /\ \A i \in signals : TimeOf(i) <= t

\* The checkpoints of complete streams.
Advanced(s) ==
  LET a == scanner[s]
      c == cursor[a.repo]
  IN  [release |-> IF a.releasesDone THEN Latest(a.signals \cap Releases, a.from.release)
                   ELSE c.release,
       commit |-> IF a.head # None THEN Latest(a.signals \cap Commits, a.from.commit)
                  ELSE c.commit,
       sha |-> IF a.head # None THEN a.head ELSE c.sha]

\* One repository is done; what was read for it is forgotten.
Checked(s, p, check) ==
  scanner' = [scanner EXCEPT ![s] =
    [@ EXCEPT !.pc = "checked", !.repo = p, !.check = check, !.from = NoCursor, !.signals = {},
              !.releasesDone = FALSE, !.head = None]]

\* Bug: known releases are compared and written again.
AllReleases(found) == {e \in found : IsRelease(e)}

\* The releases that are not in the Feed yet, the only ones that are compared.
FreshReleases(found) == {e \in found \ events : IsRelease(e)}

\* enrich_release_events and persist_repository_monitoring_result.  A comparison
\* may confirm any pushed commits of a release that is new for some watch; nobody
\* else inserts events under a live claim, so it may as well happen here.
Persist(s) ==
  LET a == scanner[s]
      found == EventsOf(s)
      fresh == FreshReleases(found)
  IN  /\ a.pc = "read" /\ ~a.lost
      /\ IF Owns(s)
         THEN \E details \in [{e[2] : e \in fresh} -> SUBSET {c \in Commits : Pushed(c)}] :
                LET all == found \cup Supplemental(found, fresh, details)
                    new == all \ events
                IN  /\ events' = events \cup all
                    /\ refs' = [e \in DOMAIN refs |-> IF e \in fresh THEN References(e, details)
                                                      ELSE refs[e]]
                    /\ cards' = cards \cup NewCards(new, details, a.key)
                    /\ cursor' = [cursor EXCEPT ![a.repo] = Advanced(s)]
                    /\ Checked(s, a.repo, IF a.releasesDone /\ a.head # None THEN "succeeded" ELSE "partial")
         ELSE Discarded(s) /\ UNCHANGED <<feed, cursor>>
      /\ UNCHANGED <<clock, provider, account, watch, lease, runRow, faults>>

\* The provider or the database fails while one repository is scanned.
RepositoryFails(s) ==
  /\ \/ scanner[s].pc = "read" /\ Checked(s, scanner[s].repo, "failed")
     \/ /\ scanner[s].pc = "scanning" /\ ~scanner[s].lost
        /\ \E p \in scanner[s].todo : Checked(s, p, "failed")
  /\ Fault
  /\ UNCHANGED <<clock, provider, account, watch, cursor, lease, runRow, feed>>

\* Bug: a partial read does not count.
CountsFailedOnly(check) == check = "failed"

\* What makes a run partial.
CountsAsFailed(check) == check # "succeeded"

\* record_repository_monitoring_check, then the next repository.
RecordCheck(s) ==
  LET a == scanner[s] IN
  /\ a.pc = "checked"
  /\ IF Owns(s)
     THEN scanner' = [scanner EXCEPT ![s] =
            [a EXCEPT !.pc = "scanning", !.todo = a.todo \ {a.repo}, !.repo = None,
                      !.check = "none", !.failed = a.failed \/ CountsAsFailed(a.check)]]
     ELSE Discarded(s)
  /\ UNCHANGED <<clock, provider, account, watch, cursor, lease, runRow, feed, faults>>

\* finish_monitoring_run after the last repository.
Finish(s) ==
  /\ scanner[s].pc = "scanning" /\ scanner[s].todo = {}
  /\ runRow' = IF Owns(s)
               THEN [runRow EXCEPT ![s].status = IF scanner[s].failed THEN "partial" ELSE "succeeded"]
               ELSE runRow
  /\ Discarded(s)
  /\ UNCHANGED <<clock, provider, account, watch, cursor, lease, feed, faults>>

-----------------------------------------------------------------------------
(* Faults and time. *)

\* A statement outside of the repository loop fails: creating the run, listing the
\* watches, recording a check or finishing.  The run may be recorded as failed.
RunFails(s) ==
  LET a == scanner[s]
      startedAt == IF a.pc = "acquired" THEN clock ELSE runRow[s].startedAt
  IN  /\ a.pc \in {"acquired", "checked"} \/ (a.pc = "scanning" /\ a.todo = {})
      /\ Fault
      /\ \/ runRow' = runRow
         \/ /\ Owns(s)
            /\ \E status \in {"running", "failed"} :
                 runRow' = [runRow EXCEPT ![s] = [status |-> status, startedAt |-> startedAt]]
      /\ Discarded(s)
      /\ UNCHANGED <<clock, provider, account, watch, cursor, lease, feed>>

\* The renewal raises: the heartbeat sets the flag and ends.
RenewFails(s) ==
  /\ scanner[s].pc \notin {"idle", "release"} /\ ~scanner[s].lost /\ Fault
  /\ scanner' = [scanner EXCEPT ![s].lost = TRUE]
  /\ UNCHANGED <<clock, provider, account, watch, cursor, lease, runRow, feed>>

\* The process is killed; its lease and its run row stay as they are.
Crash(s) ==
  /\ scanner[s].pc # "idle" /\ Fault
  /\ scanner' = [scanner EXCEPT ![s] = Idle]
  /\ UNCHANGED <<clock, provider, account, watch, cursor, lease, runRow, feed>>

Later == IF clock < MaxTime THEN clock + 1 ELSE clock

\* A second passes.
Advance ==
  /\ clock < MaxTime /\ clock' = Later
  /\ UNCHANGED <<provider, account, watch, cursor, lease, scanner, runRow, feed, faults>>

Attended == \E s \in Scanners : /\ scanner[s].key = lease.key /\ ~scanner[s].lost
                                /\ scanner[s].pc \notin {"idle", "release"}

\* A tick of the lease passes.  That an attended lease runs out is a fault.
LeaseTick ==
  /\ lease.left > 0
  /\ IF lease.left = 1 /\ Attended THEN Fault ELSE faults' = faults
  /\ lease' = [lease EXCEPT !.left = @ - 1]
  /\ clock' = Later
  /\ UNCHANGED <<provider, account, watch, cursor, scanner, runRow, feed>>

-----------------------------------------------------------------------------
ProviderStep == \/ \E p \in Repos, r \in Releases : PublishRelease(p, r)
                \/ \E p \in Repos, c \in Commits : Push(p, c)
                \/ \E p \in Repos : Rewrite(p)

UserStep == \/ \E u \in Users, p \in Repos, w \in Watches : Subscribe(u, p, w)
            \/ \E w \in Watches : Unsubscribe(w)
            \/ \E u \in Users : DeleteAccount(u)

Scan(s) == \/ Acquire(s) \/ Start(s) \/ Read(s) \/ Persist(s) \/ RecordCheck(s)
           \/ Finish(s) \/ Discard(s) \/ Release(s)

ScanFails(s) == RepositoryFails(s) \/ RunFails(s) \/ RenewFails(s) \/ Crash(s)

Next == \/ ProviderStep \/ UserStep \/ Advance \/ LeaseTick
        \/ \E s \in Scanners : Scan(s) \/ Renew(s) \/ ScanFails(s)

Spec == Init /\ [][Next]_vars

\* The schedule keeps starting scans, provider calls time out and statements end;
\* time passes.  Users, the provider and faults are not fair.
Fairness == WF_vars(LeaseTick) /\ \A s \in Scanners : WF_vars(Scan(s)) /\ WF_vars(Renew(s))

FairSpec == Spec /\ Fairness

-----------------------------------------------------------------------------
(* Properties. *)

\* Every event is on exactly one card of its watch; a release card holds its one
\* release and a commit card none; no identifier names two cards, so the conflict
\* branch of write_feed_update_groups is out of reach of any scan.
CardsPartitionEvents ==
  /\ \A e \in events : \E g \in cards : e \in g.members
  /\ \A g, h \in cards : g.id = h.id \/ g.members \cap h.members # {} => g = h
  /\ \A g \in cards :
       /\ g.members # {} /\ g.members \subseteq events
       /\ \A e \in g.members : e[1] = g.id[1]
       /\ {e[2] : e \in {x \in g.members : IsRelease(x)}} =
            (IF g.id[2] = "release" THEN {g.id[3]} ELSE {})

\* "All referenced facts are written or verified in the same publication
\* transaction" (docs/contracts/feed-update-groups.md): the references of a
\* published release exist, and its card claims nothing that they do not confirm.
ReferencesResolve ==
  /\ \A e \in events : IsRelease(e) => refs[e] \subseteq events
  /\ \A g \in cards : g.id[2] = "release" =>
       {e \in g.members : ~IsRelease(e)} \subseteq refs[<<g.id[1], g.id[3]>>]

\* A published card is neither changed nor withdrawn by any retry or later scan
\* while its owner has an account, and neither are the references of a release.
PublishedIsFinal ==
  [][\A g \in cards : account'[watch[g.id[1]].owner] = "active" =>
       /\ g \in cards'
       /\ g.id[2] = "release" =>
            refs'[<<g.id[1], g.id[3]>>] = refs[<<g.id[1], g.id[3]>>]]_vars

\* Releases and commits that a watch is owed once the checkpoints have passed them.
PassedReleases(w) ==
  LET p == watch[w].repo IN
  {r \in Releases : /\ released[r].repo = p /\ released[r].time > watch[w].since
                    /\ released[r].time < cursor[p].release}
PassedCommits(w) ==
  LET p == watch[w].repo
      b == watch[w].base
  IN  IF cursor[p].sha = None \/ ~OnBranch(p, cursor[p].sha) THEN {}
      ELSE {branch[p][i] : i \in {j \in 1..Position(p, cursor[p].sha) :
              \/ date[branch[p][j]] > watch[w].since
              \/ b # None /\ OnBranch(p, b) /\ j > Position(p, b)}}

\* A checkpoint never passes activity that a watch has not received: partial
\* reads, crashes, superseded scans and other watches of the repository lose
\* nothing, for every watch that did not appear in the middle of a scan.
CheckpointsSkipNothing ==
  \A w \in Watches : Live(w) /\ ~watch[w].raced =>
    \A i \in PassedReleases(w) \cup PassedCommits(w) : <<w, i>> \in events

\* No scan, however late, takes a checkpoint back to an earlier time or commit.
CheckpointsOnlyAdvance ==
  [][\A p \in Repos :
       /\ cursor'[p].release >= cursor[p].release
       /\ cursor'[p].commit >= cursor[p].commit
       /\ cursor[p].sha # None =>
            /\ cursor'[p].sha # None
            /\ OnBranch(p, cursor[p].sha) /\ OnBranch(p, cursor'[p].sha) =>
                 Position(p, cursor[p].sha) <= Position(p, cursor'[p].sha)]_vars

\* A run recorded as succeeded left nothing behind that was released before it
\* started, for the watches that were there.
SucceededRunsCaughtUp ==
  \A s \in Scanners, w \in Watches, r \in Releases :
    /\ runRow[s].status = "succeeded"
    /\ Live(w) /\ ~watch[w].raced /\ watch[w].since < runRow[s].startedAt
    /\ released[r].repo = watch[w].repo
    /\ released[r].time > watch[w].since /\ released[r].time < runRow[s].startedAt
    => <<w, r>> \in events

\* Whatever crashes, a release reaches the Feed of every watch that was there
\* before it, unless the watch is given up first.
EveryReleaseArrives ==
  \A w \in Watches, r \in Releases :
    /\ Live(w) /\ ~watch[w].raced
    /\ released[r].repo = watch[w].repo /\ released[r].time > watch[w].since
    ~> <<w, r>> \in events \/ ~Live(w)

\* "Each new release appears as a feed card" (README.md): the same for every
\* watch, the ones that appeared during a scan included.
EveryWatchIsServed ==
  \A w \in Watches : Live(w) => \A r \in PassedReleases(w) : <<w, r>> \in events

\* "Account deletion removes the owner's groups and events"
\* (docs/contracts/feed-update-groups.md).
DeletedAccountsAreEmpty ==
  \A u \in Users : account[u] = "deleted" =>
    /\ \A e \in events : e[1] \notin Owned(u)
    /\ \A g \in cards : g.id[1] \notin Owned(u)
=============================================================================
