-------------------------------- MODULE FeedReading --------------------------------
(****************************************************************************)
(* What a member does with its Feed: watching, paging through events, cards *)
(* and the commits of a card, marking them read, deleting the account.      *)
(*                                                                          *)
(*   backend/app/api/routes/{feed,feed_groups,subscriptions}.py             *)
(*   backend/app/services/feed/{service,groups}.py   keyset pagination      *)
(*   backend/app/storage/feed/{events,group_queries}.py                     *)
(*   backend/app/storage/subscriptions, storage/auth/users.py               *)
(*                                                                          *)
(* A request is authenticated in a transaction of its own (Accounts), and   *)
(* what it then does is another step.  One repository is watched.  Facts    *)
(* and cards have numbers, whose order breaks the ties of a listing.        *)
(****************************************************************************)
EXTENDS Accounts, Sequences, FiniteSetsExt

CONSTANTS
  Facts, Cards,  \* positive numbers: items of the provider, publications
  Released,      \* the facts that are releases; the others are commits
  Members,       \* card |-> its facts
  Referenced,    \* release |-> the commits that its comparison confirmed
  Scans,         \* the publications of each scan that finds something
  Dates,         \* dates the provider gives, 0 for none
  FirstDate,     \* fact |-> the date at its publication
  Listings,      \* what is paged through
  Limit,         \* the size of a page
  Readers,       \* the browsers that page; the others only disturb them
  MaxWatches, MaxEdits   \* bounds of the model

ASSUME FeedReadingAssumption ==
  /\ Facts \subseteq Nat \ {0} /\ Cards \subseteq Nat \ {0} /\ Limit \in Nat \ {0}
  /\ IsFiniteSet(Facts) /\ IsFiniteSet(Cards)
  /\ Listings \subseteq [of : {"events", "cards"}, card : {0}] \cup [of : {"commits"}, card : Cards]
  /\ Members \in [Cards -> SUBSET Facts] /\ Referenced \in [Released -> SUBSET Facts]
  /\ FirstDate \in [Facts -> Dates] /\ Dates \subseteq Nat /\ 0 \in Dates
  /\ Scans \in Seq(SUBSET Cards)

VARIABLES
  watches,  \* user |-> has it a watch
  scanned,  \* user |-> how many of the scans have published for its watch
  events,   \* user, fact |-> the event
  cards,    \* user, card |-> the second after its publication, 0 when there is none
  walks,    \* browser |-> the listing it pages through
  husks,    \* user, card: a row of a card whose events were deleted without it
  deletions,  \* browser |-> what the deletion it asked for has done by now
  late,     \* user, table: stored there after the deletion of the account had passed
  watchesLeft, editsLeft

feed == <<watches, scanned, events, cards, husks>>
bounds == <<watchesLeft, editsLeft>>
vars == <<accounts, feed, walks, deletions, late, bounds>>

NoEvent == [published |-> 0, created |-> 0, read |-> 0]
NoCursor == [published |-> 0, created |-> 0, id |-> 0]
NoWalk == [phase |-> "none", user |-> 0, listing |-> [of |-> "none", card |-> 0], unread |-> FALSE,
           cursor |-> NoCursor, due |-> {}, seen |-> {}, twice |-> {}, moved |-> {}]

\* The tables that a deletion empties, one statement for each, in this order.
Tables == {"card", "event", "watch"}
NoDeletion == [done |-> {}, cards |-> {}, events |-> {}, watch |-> FALSE, missed |-> {}]

InitFeed ==
  /\ watches = [u \in Users |-> "never"] /\ scanned = [u \in Users |-> 0]
  /\ events = [k \in Users \X Facts |-> NoEvent]
  /\ cards = [k \in Users \X Cards |-> 0]
  /\ husks = {} /\ walks = [b \in Browsers |-> NoWalk]
  /\ deletions = [b \in Browsers |-> NoDeletion] /\ late = {}

-----------------------------------------------------------------------------
(* Listings.  ev and cd stand for events and cards. *)

Stored(ev, u) == {e \in Facts : ev[<<u, e>>].created # 0}
Retained(ev, u, c) == Members[c] \cap Stored(ev, u)
CardKind(c) == IF Members[c] \cap Released # {} THEN "release" ELSE "commits"

\* The commits of a card: those a release refers to, or the members.
Commits(ev, u, c) ==
  Stored(ev, u) \cap (IF CardKind(c) = "release"
                      THEN UNION {Referenced[r] : r \in Members[c] \cap Released}
                      ELSE Members[c])

Unread(ev, u, S) == \E e \in S : ev[<<u, e>>].read = 0

Listed(ev, cd, w) ==
  CASE w.listing.of = "events" ->
         {e \in Stored(ev, w.user) : w.unread => ev[<<w.user, e>>].read = 0}
    [] w.listing.of = "cards" ->
         {c \in Cards : /\ cd[<<w.user, c>>] # 0
                        /\ w.unread => Unread(ev, w.user, Retained(ev, w.user, c))}
    [] w.listing.of = "commits" ->
         IF cd[<<w.user, w.listing.card>>] = 0 THEN {} ELSE Commits(ev, w.user, w.listing.card)

\* A release card has the date of its release, a batch that of its latest commit.
CardDate(ev, u, c) ==
  LET dated == IF CardKind(c) = "release" THEN Retained(ev, u, c) \cap Released
               ELSE Retained(ev, u, c)
  IN  Max({0} \cup {ev[<<u, e>>].published : e \in dated})

Position(ev, cd, w, i) ==
  IF w.listing.of = "cards"
  THEN [published |-> CardDate(ev, w.user, i), created |-> cd[<<w.user, i>>], id |-> i]
  ELSE [published |-> ev[<<w.user, i>>].published, created |-> ev[<<w.user, i>>].created, id |-> i]

Older(p, q) == p.created < q.created \/ (p.created = q.created /\ p.id < q.id)

\* ORDER BY published_at DESC NULLS LAST, created_at DESC, id DESC
Before(p, q) == p.published > q.published \/ (p.published = q.published /\ Older(q, p))

\* Bug: a comparison with no date is never true.
AfterDated(p, cursor) ==
  \/ p.published # 0 /\ p.published < cursor.published
  \/ p.published = cursor.published /\ Older(p, cursor)

\* _events_after_cursor, _after
After(p, cursor) ==
  IF cursor.published = 0 THEN p.published = 0 /\ Older(p, cursor)
  ELSE \/ p.published = 0
       \/ p.published < cursor.published
       \/ p.published = cursor.published /\ Older(p, cursor)

-----------------------------------------------------------------------------
(* Paging: each page is a request *)

\* A page, and the cursor of the next one when there is more.
ReadPage(w) ==
  LET At(i) == Position(events, cards, w, i)
      rest == {i \in Listed(events, cards, w) : w.cursor = NoCursor \/ After(At(i), w.cursor)}
      ahead(i) == {j \in rest : Before(At(j), At(i))}
      visible == {i \in rest : Cardinality(ahead(i)) < Limit}
      last == CHOOSE i \in visible : Cardinality(ahead(i)) = Limit - 1
      more == Cardinality(rest) > Limit
  IN  [w EXCEPT !.phase = IF more THEN "more" ELSE "ended",
                !.cursor = IF more THEN At(last) ELSE NoCursor,
                !.seen = @ \cup visible, !.twice = @ \cup (w.seen \cap visible)]

\* The detail of a card reads the card in one transaction and its commits in
\* another.  Of the first only the kind, the references and that there is the card
\* bear on the commits, and the first two never change: a page is one step, at the
\* second reading, and a card that was deleted between the two has an empty page.
ListingsOf(u) == {l \in Listings : l.of = "commits" => cards[<<u, l.card>>] # 0}

StartWalk(b) ==
  /\ request[b].user # 0 /\ request[b].mark = 0 /\ walks[b] = NoWalk
  /\ \E l \in ListingsOf(request[b].user), unread \in BOOLEAN :
       LET w == [NoWalk EXCEPT !.user = request[b].user, !.listing = l, !.unread = unread] IN
       /\ unread => l.of # "commits"
       /\ walks' = [walks EXCEPT ![b] = ReadPage([w EXCEPT !.due = Listed(events, cards, w)])]
  /\ Answer(b)
  /\ UNCHANGED <<mailbox, users, issued, links, flows, sessions, jar, now, failures,
                 feed, deletions, late, bounds>>

\* A cursor belongs to the one that was given it.
NextPage(b) ==
  /\ walks[b].phase = "more" /\ request[b].user = walks[b].user /\ request[b].mark = 0
  /\ walks' = [walks EXCEPT ![b] = ReadPage(walks[b])]
  /\ Answer(b)
  /\ UNCHANGED <<mailbox, users, issued, links, flows, sessions, jar, now, failures,
                 feed, deletions, late, bounds>>

CloseWalk(b) ==
  /\ walks[b] # NoWalk /\ walks' = [walks EXCEPT ![b] = NoWalk]
  /\ UNCHANGED <<accounts, feed, deletions, late, bounds>>

\* What is no longer where it was, or no longer listed, since a walk began.
Track ==
  walks' = [b \in Browsers |->
    LET w == walks[b]
        Row(ev, cd, i) == IF i \in Listed(ev, cd, w) THEN Position(ev, cd, w, i) ELSE NoCursor
    IN IF w.phase # "more" THEN w
       ELSE [w EXCEPT !.moved = @ \cup {i \in w.due \cup w.seen :
                                          Row(events, cards, i) # Row(events', cards', i)}]]

-----------------------------------------------------------------------------
(* What a deletion that has not committed does to the others *)

\* The rows that it has deleted are there for everyone else, who waits with a
\* change of one of them until it ends.
OfUser(u) == {b \in Browsers : request[b].user = u}
LockedCards(u) == UNION {deletions[b].cards : b \in OfUser(u)}
LockedEvents(u) == UNION {deletions[b].events : b \in OfUser(u)}
LockedWatch(u) == \E b \in OfUser(u) : deletions[b].watch

\* A statement misses what is stored after it ran; a deletion that has committed
\* misses everything.
Stores(u, tables) ==
  /\ late' = IF u \in Existing THEN late ELSE late \cup ({u} \X tables)
  /\ deletions' = [b \in Browsers |->
       IF request[b].user # u THEN deletions[b]
       ELSE [deletions[b] EXCEPT !.missed = @ \cup (tables \cap deletions[b].done)]]

-----------------------------------------------------------------------------
(* The scans, as far as they change the Feed of a user (MonitoringScan) *)

\* The next publication of a watch that is, or was when it was listed, there.
Publish(u) ==
  LET next == Scans[scanned[u] + 1]
      facts == UNION {Members[c] \cup UNION {Referenced[r] : r \in Members[c] \cap Released}
                        : c \in next}
      new == facts \ Stored(events, u)
  IN
  /\ watches[u] # "never" /\ scanned[u] < Len(Scans) /\ facts \cap LockedEvents(u) = {}
  /\ scanned' = [scanned EXCEPT ![u] = @ + 1]
  /\ events' = [k \in Users \X Facts |->
                  IF k[1] = u /\ k[2] \in new
                  THEN [published |-> FirstDate[k[2]], created |-> now + 1, read |-> 0]
                  ELSE events[k]]
  /\ cards' = [k \in Users \X Cards |->
                 IF k[1] = u /\ k[2] \in next THEN now + 1 ELSE cards[k]]
  /\ Stores(u, {t \in {"card", "event"} : /\ t = "card" => next # {}
                                          /\ t = "event" => new # {}})
  /\ UNCHANGED <<accounts, watches, husks, bounds>> /\ Track

\* Bug: a publication is new to its reader whenever it is scanned.
RefreshedAnew(row, date) == [row EXCEPT !.published = date, !.read = 0]

\* write_feed_events, of an event that is there.
Refreshed(row, date) == [row EXCEPT !.published = date]

\* A scan finds a publication again that was edited at the provider.
Refresh(u, e, date) ==
  /\ watches[u] # "never" /\ events[<<u, e>>].created # 0 /\ events[<<u, e>>].published # date
  /\ e \notin LockedEvents(u) /\ editsLeft > 0 /\ editsLeft' = editsLeft - 1
  /\ events' = [events EXCEPT ![<<u, e>>] = Refreshed(@, date)]
  /\ UNCHANGED <<accounts, watches, scanned, cards, husks, deletions, late, watchesLeft>>
  /\ Track

-----------------------------------------------------------------------------
(* Watching *)

\* Nothing asks whether the account is still there.
Watch(b) ==
  LET u == request[b].user IN
  /\ u # 0 /\ request[b].mark = 0 /\ ~LockedWatch(u)
  /\ IF watches[u] = "never"
     THEN /\ watchesLeft > 0 /\ watchesLeft' = watchesLeft - 1
          /\ watches' = [watches EXCEPT ![u] = "on"] /\ Stores(u, {"watch"})
     ELSE watches[u] = "on" /\ UNCHANGED <<watches, watchesLeft, deletions, late>>
  /\ Answer(b)
  /\ UNCHANGED <<mailbox, users, issued, links, flows, sessions, jar, now, failures,
                 scanned, events, cards, husks, walks, editsLeft>>

\* What was published for a watch stays.
Unwatch(b) ==
  LET u == request[b].user IN
  /\ u # 0 /\ request[b].mark = 0 /\ watches[u] = "on" /\ ~LockedWatch(u)
  /\ watches' = [watches EXCEPT ![u] = "off"]
  /\ Answer(b)
  /\ UNCHANGED <<mailbox, users, issued, links, flows, sessions, jar, now, failures,
                 scanned, events, cards, husks, walks, deletions, late, bounds>>

-----------------------------------------------------------------------------
(* Reading *)

\* None of the events to be marked is being deleted.
MayMark(u, S) == \A e \in S \cap LockedEvents(u) : events[<<u, e>>].read # 0

MarkedRead(u, S) ==
  [k \in Users \X Facts |->
     IF k[1] = u /\ k[2] \in S /\ events[k].created # 0 /\ events[k].read = 0
     THEN [events[k] EXCEPT !.read = now + 1] ELSE events[k]]

\* mark_feed_event_read_for_user reads the row, unlocked, ...
LoadMark(b, e) ==
  LET u == request[b].user IN
  /\ u # 0 /\ request[b].mark = 0 /\ events[<<u, e>>].created # 0
  /\ IF events[<<u, e>>].read = 0 THEN request' = [request EXCEPT ![b].mark = e] ELSE Answer(b)
  /\ UNCHANGED <<mailbox, users, issued, links, flows, sessions, jar, now, failures,
                 feed, walks, deletions, late, bounds>>

\* ... and writes it; when it is gone nothing is written.
StoreMark(b) ==
  LET u == request[b].user  e == request[b].mark IN
  /\ e # 0 /\ e \notin LockedEvents(u)
  /\ events' = IF events[<<u, e>>].created = 0 THEN events
               ELSE [events EXCEPT ![<<u, e>>].read = now + 1]
  /\ Answer(b)
  /\ UNCHANGED <<mailbox, users, issued, links, flows, sessions, jar, now, failures,
                 watches, scanned, cards, husks, deletions, late, bounds>> /\ Track

MarkAll(b) ==
  /\ request[b].user # 0 /\ request[b].mark = 0 /\ MayMark(request[b].user, Facts)
  /\ events' = MarkedRead(request[b].user, Facts)
  /\ Answer(b)
  /\ UNCHANGED <<mailbox, users, issued, links, flows, sessions, jar, now, failures,
                 watches, scanned, cards, husks, deletions, late, bounds>> /\ Track

MarkCard(b, c) ==
  LET u == request[b].user IN
  /\ u # 0 /\ request[b].mark = 0 /\ cards[<<u, c>>] # 0 /\ MayMark(u, Members[c])
  /\ events' = MarkedRead(u, Members[c])
  /\ Answer(b)
  /\ UNCHANGED <<mailbox, users, issued, links, flows, sessions, jar, now, failures,
                 watches, scanned, cards, husks, deletions, late, bounds>> /\ Track

-----------------------------------------------------------------------------
(* Deleting the account: delete_user_account, one transaction of five statements,
   each of which sees what is stored when it runs.  The searches of the user are
   deleted before the user itself (ExploreAdmission). *)

StartDeletion(b) ==
  LET u == request[b].user IN
  /\ u # 0 /\ request[b].mark = 0
  /\ IF u \in Existing
     THEN deletions' = [deletions EXCEPT ![b].done = {"user"}] /\ UNCHANGED request
     ELSE Answer(b) /\ UNCHANGED deletions
  /\ UNCHANGED <<mailbox, users, issued, links, flows, sessions, jar, now, failures,
                 feed, walks, late, bounds>>

CardRows(u) == {c \in Cards : cards[<<u, c>>] # 0 \/ <<u, c>> \in husks}

DeleteCards(b) ==
  LET u == request[b].user IN
  /\ deletions[b].done = {"user"} /\ CardRows(u) \cap LockedCards(u) = {}
  /\ deletions' = [deletions EXCEPT ![b].done = {"user", "card"}, ![b].cards = CardRows(u)]
  /\ UNCHANGED <<accounts, feed, walks, late, bounds>>

DeleteEvents(b) ==
  LET u == request[b].user IN
  /\ deletions[b].done = {"user", "card"} /\ Stored(events, u) \cap LockedEvents(u) = {}
  /\ deletions' = [deletions EXCEPT ![b].done = {"user", "card", "event"},
                                   ![b].events = Stored(events, u)]
  /\ UNCHANGED <<accounts, feed, walks, late, bounds>>

\* Bug: the watches are forgotten.
KeepWatches(b) ==
  /\ deletions[b].done = {"user", "card", "event"}
  /\ deletions' = [deletions EXCEPT ![b].done = {"user"} \cup Tables]
  /\ UNCHANGED <<accounts, feed, walks, late, bounds>>

DeleteWatches(b) ==
  LET u == request[b].user IN
  /\ deletions[b].done = {"user", "card", "event"} /\ ~LockedWatch(u)
  /\ deletions' = [deletions EXCEPT ![b].done = {"user"} \cup Tables,
                                   ![b].watch = watches[u] = "on"]
  /\ UNCHANGED <<accounts, feed, walks, late, bounds>>

\* A card that was published after the cards were deleted and before the events
\* were has lost all its members and is shown to nobody.
CommitDeletion(b) ==
  LET d == deletions[b]  u == request[b].user
      lost == {c \in Cards \ d.cards : cards[<<u, c>>] # 0 /\ Members[c] \cap d.events # {}}
  IN
  /\ d.done = {"user"} \cup Tables /\ DeleteUser(b)
  /\ events' = [k \in Users \X Facts |-> IF k[1] = u /\ k[2] \in d.events THEN NoEvent
                                         ELSE events[k]]
  /\ cards' = [k \in Users \X Cards |-> IF k[1] = u /\ k[2] \in d.cards \cup lost THEN 0
                                        ELSE cards[k]]
  /\ husks' = (husks \ ({u} \X d.cards)) \cup ({u} \X lost)
  /\ watches' = [watches EXCEPT ![u] = IF d.watch THEN "off" ELSE @]
  /\ late' = late \cup ({u} \X d.missed)
  /\ deletions' = [deletions EXCEPT ![b] = NoDeletion]
  /\ UNCHANGED <<scanned, bounds>> /\ Track

\* The process stops, or the database fails or breaks a deadlock: nothing is deleted.
AbortDeletion(b) ==
  /\ deletions[b] # NoDeletion
  /\ deletions' = [deletions EXCEPT ![b] = NoDeletion] /\ Answer(b)
  /\ UNCHANGED <<mailbox, users, issued, links, flows, sessions, jar, now, failures,
                 feed, walks, late, bounds>>

Deleting(b) ==
  \/ DeleteCards(b) \/ DeleteEvents(b) \/ DeleteWatches(b) \/ CommitDeletion(b)
  \/ AbortDeletion(b)

-----------------------------------------------------------------------------

MemberStep(b) ==
  \/ Deleting(b) \/ CloseWalk(b)
  \/ /\ deletions[b] = NoDeletion
     /\ \/ b \in Readers /\ (StartWalk(b) \/ NextPage(b))
        \/ Watch(b) \/ Unwatch(b)
        \/ (\E e \in Facts : LoadMark(b, e)) \/ StoreMark(b) \/ MarkAll(b)
        \/ (\E c \in Cards : MarkCard(b, c)) \/ StartDeletion(b)

ScanStep(u) == Publish(u) \/ \E e \in Facts, d \in Dates : Refresh(u, e, d)

Next ==
  \/ AccountStep /\ UNCHANGED <<feed, walks, deletions, late, bounds>>
  \/ \E b \in Browsers : MemberStep(b)
  \/ \E u \in Users : ScanStep(u)

Init ==
  /\ InitAccounts /\ InitFeed
  /\ watchesLeft \in 0 .. MaxWatches /\ editsLeft \in 0 .. MaxEdits

Spec == Init /\ [][Next]_vars

-----------------------------------------------------------------------------

TypeOK ==
  /\ AccountsOK
  /\ watches \in [Users -> {"never", "on", "off"}] /\ scanned \in [Users -> 0 .. Len(Scans)]
  /\ events \in [Users \X Facts -> [published : Dates, created : 0 .. MaxTime + 1,
                                    read : 0 .. MaxTime + 1]]
  /\ cards \in [Users \X Cards -> 0 .. MaxTime + 1]
  /\ \A b \in Browsers : walks[b].phase \in {"none", "more", "ended"}
  /\ husks \subseteq Users \X Cards /\ late \subseteq Users \X Tables
  /\ deletions \in [Browsers -> [done : SUBSET ({"user"} \cup Tables), cards : SUBSET Cards,
                                 events : SUBSET Facts, watch : BOOLEAN,
                                 missed : SUBSET Tables]]

\* Someone who pages through a listing to its end while scans publish, providers
\* edit and other devices mark things read has seen everything that was listed
\* at the start and stayed where it was, and saw nothing of it twice.
PagesCoverOnce ==
  \A b \in Browsers :
    /\ walks[b].twice \subseteq walks[b].moved
    /\ walks[b].phase = "ended" => walks[b].due \subseteq walks[b].seen \cup walks[b].moved

\* What was read is never unread again while its account exists, and the time is
\* only replaced by a request that had loaded the event as unread
\* (mark_feed_event_read_for_user), whatever scans do with the event.
ReadIsForever ==
  [][\A u \in Users, e \in Facts :
       events[<<u, e>>].read # 0 /\ events'[<<u, e>>].read # events[<<u, e>>].read =>
         \/ users'[u] = NoEmail /\ events'[<<u, e>>] = NoEvent
         \/ /\ events'[<<u, e>>].read # 0
            /\ \E b \in Browsers : request[b].user = u /\ request[b].mark = e
                                   /\ request'[b] = NoRequest]_vars

\* What a deleted account still has in a table was stored there after the deletion
\* had passed that table, by a request or a scan beside it (delete_user_account).
ErasureIsWhole ==
  \A u \in 1 .. issued : users[u] = NoEmail =>
    /\ watches[u] = "on" => <<u, "watch">> \in late
    /\ Stored(events, u) # {} => <<u, "event">> \in late
    /\ CardRows(u) # {} => <<u, "card">> \in late
=============================================================================
