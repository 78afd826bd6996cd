---------------------------- MODULE FeedReadingProofs ----------------------------
(****************************************************************************)
(* Theorems about Accounts and FeedReading for every number of browsers,    *)
(* subjects, flows, users, facts and cards: what the types are, whose       *)
(* session a sign-in ends in, why one fails, what a deleted account leaves, *)
(* that what was read stays read, and that paging through a Feed shows what *)
(* stays in its place once.                                                 *)
(****************************************************************************)
EXTENDS FeedReading, FiniteSetTheorems, WellFoundedInduction, TLAPS

-----------------------------------------------------------------------------
(* The inductive invariant *)

FlowPhases ==
  {"unused", "away", "denied", "expired", "mismatch", "failed", "identified", "linked",
   "not linked", "known", "unknown", "nameless", "refreshed", "resolved", "done"}

\* The phases in which a flow knows its user.
Named == {"linked", "known", "nameless", "refreshed", "resolved", "done"}

FlowRecord ==
  [phase : FlowPhases, subject : Subjects \cup {"none"}, email : Emails \cup {NoEmail},
   browser : Browsers \cup {"none"}, user : 0 .. MaxUsers, disturbed : BOOLEAN]

SessionRecord == [user : 0 .. MaxUsers, expires : Int, revoked : BOOLEAN]

CookieRecord == [flow : 0 .. MaxFlows, until : Int, session : 0 .. MaxFlows]

RequestRecord == [user : 0 .. MaxUsers, mark : Facts \cup {0}]

EventRecord == [published : Dates, created : 0 .. MaxTime + 1, read : 0 .. MaxTime + 1]

DeletionRecord ==
  [done : SUBSET ({"user"} \cup Tables), cards : SUBSET Cards, events : SUBSET Facts,
   watch : BOOLEAN, missed : SUBSET Tables]

AccountTypes ==
  /\ mailbox \in [Subjects -> Emails]
  /\ users \in [Users -> Emails \cup {NoEmail}]
  /\ issued \in 0 .. MaxUsers
  /\ links \in [Subjects -> 0 .. MaxUsers]
  /\ flows \in [Flows -> FlowRecord]
  /\ sessions \in [Flows -> SessionRecord]
  /\ jar \in [Browsers -> CookieRecord]
  /\ request \in [Browsers -> RequestRecord]
  /\ now \in 0 .. MaxTime

FeedTypes ==
  /\ watches \in [Users -> {"never", "on", "off"}]
  /\ scanned \in [Users -> 0 .. Len(Scans)]
  /\ events \in [Users \X Facts -> EventRecord]
  /\ cards \in [Users \X Cards -> 0 .. MaxTime + 1]
  /\ husks \subseteq Users \X Cards /\ late \subseteq Users \X Tables
  /\ deletions \in [Browsers -> DeletionRecord]

WalkTypes ==
  /\ DOMAIN walks = Browsers
  /\ \A b \in Browsers : /\ "phase" \in DOMAIN walks[b]
                         /\ walks[b].phase \in {"none", "more", "ended"}

\* What a flow is about, once it has begun.
FlowsKnow ==
  \A f \in Flows :
    /\ flows[f].phase = "unused" => flows[f] = NoFlow
    /\ flows[f].phase # "unused" => flows[f].subject \in Subjects /\ flows[f].browser \in Browsers
    /\ Under(f) => flows[f].email \in Emails
    /\ flows[f].phase \in Named => flows[f].user # 0
    /\ flows[f].user <= issued

\* Flows begin in their order, and a browser has the cookies of its latest one.
FlowsInOrder ==
  /\ \A f, g \in Flows : g < f /\ flows[f].phase # "unused" => flows[g].phase # "unused"
  /\ \A b \in Browsers : jar[b].flow # 0 =>
       flows[jar[b].flow].phase # "unused" /\ flows[jar[b].flow].browser = b
  /\ \A f \in Flows : flows[f].phase = "away" =>
       jar[flows[f].browser].flow = 0 \/ jar[flows[f].browser].flow >= f

\* A link that a sign-in has found or made stays while its user exists.
LinksLast ==
  \A f \in Flows : flows[f].phase = "resolved" /\ flows[f].user \in Existing =>
                     links[flows[f].subject] = flows[f].user

\* What an undisturbed flow has read is still so.
ReadsHold ==
  \A f \in Flows : ~flows[f].disturbed =>
    LET flow == flows[f]  link == links[flow.subject] IN
    /\ flow.phase \in {"not linked", "known", "unknown", "nameless"} => link = 0
    /\ flow.phase \in {"linked", "refreshed", "resolved"} => link = flow.user
    /\ flow.phase \in Named \ {"done"} => flow.user \in Existing
    /\ flow.phase = "known" => users[flow.user] = flow.email
    /\ flow.phase = "unknown" => Holders(flow.email) = {}

\* Requests are those of users that had an account; only they mark.
RequestsKnow ==
  \A b \in Browsers : /\ request[b].user <= issued
                      /\ request[b].user = 0 => request[b].mark = 0

AccountInv ==
  /\ AccountTypes /\ AccountsOK /\ FlowsKnow /\ FlowsInOrder /\ LinksLast /\ ReadsHold
  /\ RequestsKnow

\* Nobody has a Feed before an account, and what is not stored is not read.
FeedsKnow ==
  /\ \A u \in Users : u > issued =>
       /\ watches[u] = "never"
       /\ \A e \in Facts : events[<<u, e>>].created = 0
       /\ \A c \in Cards : cards[<<u, c>>] = 0
  /\ \A u \in Users, e \in Facts : events[<<u, e>>].created = 0 => events[<<u, e>>].read = 0

\* A deletion that is under way has seen what is stored in the tables it has passed,
\* or it has missed something there.
DeletionSees(b) ==
  LET d == deletions[b]  u == request[b].user IN
  d.done # {} =>
    /\ u # 0
    /\ "card" \in d.done => CardRows(u) \subseteq d.cards \/ "card" \in d.missed
    /\ "event" \in d.done => Stored(events, u) \subseteq d.events \/ "event" \in d.missed
    /\ "watch" \in d.done /\ watches[u] = "on" => d.watch \/ "watch" \in d.missed

DeletionsSee == \A b \in Browsers : DeletionSees(b)

IndInv ==
  AccountInv /\ FeedTypes /\ WalkTypes /\ FeedsKnow /\ DeletionsSee /\ ErasureIsWhole

-----------------------------------------------------------------------------
(* What the steps of a flow do to the flows *)

\* A flow that reads changes itself alone, and one that writes disturbs the others.
LEMMA ReadEffect ==
  ASSUME AccountTypes, NEW f \in Flows, NEW flow \in FlowRecord, Read(f, flow)
  PROVE  /\ flows' \in [Flows -> FlowRecord]
         /\ flows'[f] = flow
         /\ \A g \in Flows \ {f} : flows'[g] = flows[g]
BY DEF AccountTypes, Read

LEMMA WriteEffect ==
  ASSUME AccountTypes, NEW f \in Flows, NEW flow \in FlowRecord, Write(f, flow)
  PROVE  /\ flows' \in [Flows -> FlowRecord]
         /\ flows'[f] = flow
         /\ \A g \in Flows \ {f} :
              flows'[g] = IF Under(g) THEN [flows[g] EXCEPT !.disturbed = TRUE]
                          ELSE flows[g]
<1> DEFINE all == [flows EXCEPT ![f] = flow]
<1>1. all \in [Flows -> FlowRecord] /\ all[f] = flow
      /\ \A g \in Flows \ {f} : all[g] = flows[g]
  BY DEF AccountTypes
<1>2. flows' = Disturbed(all, f)
  BY DEF Write
<1>3. \A g \in Flows : [all[g] EXCEPT !.disturbed = TRUE] \in FlowRecord
  BY <1>1 DEF FlowRecord
<1> HIDE DEF all
<1>4. QED
  BY <1>1, <1>2, <1>3 DEF Disturbed

\* The end of a flow that does not end in a session.
LEMMA EndBadlyEffect ==
  ASSUME AccountTypes, FlowsKnow, NEW f \in Flows, Under(f) \/ flows[f].phase = "away",
         NEW phase \in {"denied", "expired", "mismatch", "failed"}, EndBadly(f, phase)
  PROVE  /\ flows' \in [Flows -> FlowRecord]
         /\ flows'[f] = [flows[f] EXCEPT !.phase = phase]
         /\ \A g \in Flows \ {f} : flows'[g] = flows[g]
         /\ jar' \in [Browsers -> CookieRecord]
         /\ \A b \in Browsers : \/ jar'[b] = jar[b]
                                \/ jar'[b].flow = 0 /\ jar'[b].session = jar[b].session
<1>1. [flows[f] EXCEPT !.phase = phase] \in FlowRecord
  BY DEF AccountTypes, FlowRecord, FlowPhases
<1>2. Read(f, [flows[f] EXCEPT !.phase = phase])
  BY DEF EndBadly
<1>3. flows[f].browser \in Browsers
  BY DEF FlowsKnow, Under
<1>4. jar' = [jar EXCEPT ![flows[f].browser].flow = 0, ![flows[f].browser].until = 0,
                         ![flows[f].browser].session = jar[flows[f].browser].session]
  BY DEF EndBadly, Answered
<1>5. jar \in [Browsers -> CookieRecord]
  BY DEF AccountTypes
<1>6. jar' \in [Browsers -> CookieRecord]
      /\ \A b \in Browsers : \/ jar'[b] = jar[b]
                             \/ jar'[b].flow = 0 /\ jar'[b].session = jar[b].session
  <2> DEFINE x == flows[f].browser
             cookies == [jar[x] EXCEPT !.flow = 0, !.until = 0, !.session = jar[x].session]
  <2>1. cookies \in CookieRecord /\ cookies.flow = 0 /\ cookies.session = jar[x].session
    <3>1. 0 \in 0 .. MaxFlows /\ 0 \in Int
      BY AccountsAssumption
    <3>2. ASSUME NEW c \in CookieRecord, NEW s \in 0 .. MaxFlows
          PROVE  LET left == [c EXCEPT !.flow = 0, !.until = 0, !.session = s]
                 IN left \in CookieRecord /\ left.flow = 0 /\ left.session = s
      BY <3>1, Zenon DEF CookieRecord
    <3>3. jar[x] \in CookieRecord /\ jar[x].session \in 0 .. MaxFlows
      BY <1>3, <1>5 DEF CookieRecord
    <3>4. QED
      BY <3>2, <3>3
  <2>2. jar' = [jar EXCEPT ![x] = cookies]
    BY <1>3, <1>4, <1>5, Zenon
  <2> HIDE DEF cookies, x
  <2>3. QED
    BY <1>5, <2>1, <2>2
<1>7. QED
  BY <1>1, <1>2, <1>6, ReadEffect

-----------------------------------------------------------------------------
(* Every step of an account keeps the invariant *)

LEMMA BeginKeeps ==
  ASSUME AccountInv, NEW b \in Browsers, NEW s \in Subjects, Begin(b, s)
  PROVE  AccountInv'
<1> USE DEF AccountInv
<1>1. PICK f \in Flows :
        /\ flows[f] = NoFlow /\ \A g \in Flows : g < f => flows[g] # NoFlow
        /\ Read(f, [NoFlow EXCEPT !.phase = "away", !.subject = s, !.browser = b])
        /\ jar' = [jar EXCEPT ![b].flow = f, ![b].until = now + FlowTicks]
        /\ UNCHANGED <<mailbox, users, issued, links, sessions, request, now, failures>>
  BY DEF Begin
<1> DEFINE flow == [NoFlow EXCEPT !.phase = "away", !.subject = s, !.browser = b]
<1>2. flow \in FlowRecord
  <2>1. NoFlow \in FlowRecord
    BY AccountsAssumption DEF NoFlow, FlowRecord, FlowPhases
  <2>2. "away" \in FlowPhases
    BY DEF FlowPhases
  <2>3. QED
    BY <2>1, <2>2 DEF FlowRecord
<1>3. /\ flows' \in [Flows -> FlowRecord]
      /\ flows'[f] = flow
      /\ \A g \in Flows \ {f} : flows'[g] = flows[g]
  BY <1>1, <1>2, ReadEffect
<1>4. /\ flow.phase = "away" /\ flow.subject = s /\ flow.browser = b /\ flow.user = 0
      /\ flow.disturbed = FALSE
  BY DEF NoFlow
<1>5. /\ jar' \in [Browsers -> CookieRecord]
      /\ jar'[b].flow = f /\ jar'[b].session = jar[b].session
      /\ \A c \in Browsers \ {b} : jar'[c] = jar[c]
  <2> DEFINE cookies == [flow |-> f, until |-> now + FlowTicks, session |-> jar[b].session]
  <2>1. jar \in [Browsers -> CookieRecord] /\ now + FlowTicks \in Int /\ f \in 0 .. MaxFlows
    BY AccountsAssumption DEF AccountTypes, Flows
  <2>2. cookies \in CookieRecord /\ cookies.flow = f /\ cookies.session = jar[b].session
    BY <2>1 DEF CookieRecord
  <2>3. jar'[b] = cookies /\ DOMAIN jar' = Browsers /\ \A c \in Browsers \ {b} : jar'[c] = jar[c]
    BY <1>1, <2>1 DEF CookieRecord
  <2> HIDE DEF cookies
  <2>4. jar' = [c \in Browsers |-> jar'[c]]
    BY <1>1, <2>1
  <2>5. QED
    BY <2>1, <2>2, <2>3, <2>4
<1> HIDE DEF flow
<1>6. AccountTypes'
  BY <1>1, <1>3, <1>5 DEF AccountTypes, SessionRecord
<1>7. AccountsOK'
  <2>1. flows[f].phase # "done"
    BY <1>1 DEF NoFlow
  <2>2. \A g \in Flows : flows[g].phase = "done" => flows'[g].phase = "done"
    BY <1>3, <2>1
  <2>3. \A c \in Browsers : jar'[c].flow \in 0 .. MaxFlows
    BY <1>5 DEF CookieRecord
  <2>4. QED
    BY <1>1, <2>2, <2>3 DEF AccountsOK, Existing
<1>8. FlowsKnow'
  BY <1>1, <1>3, <1>4 DEF FlowsKnow, Under, Named, AccountTypes
<1>9. FlowsInOrder'
  <2>1. \A g \in Flows : g < f => flows[g].phase # "unused"
    BY <1>1 DEF FlowsKnow
  <2>2. flows[f].phase = "unused"
    BY <1>1 DEF NoFlow
  <2>3. \A g \in Flows : flows[g].phase # "unused" => g < f
    BY <2>2 DEF FlowsInOrder, Flows
  <2>4. QED
    <3>1. \A g, h \in Flows : h < g /\ flows'[g].phase # "unused" => flows'[h].phase # "unused"
      BY <1>3, <1>4, <2>1 DEF FlowsInOrder
    <3>2. \A c \in Browsers : jar'[c].flow # 0 =>
            flows'[jar'[c].flow].phase # "unused" /\ flows'[jar'[c].flow].browser = c
      <4> SUFFICES ASSUME NEW c \in Browsers, jar'[c].flow # 0
                   PROVE  flows'[jar'[c].flow].phase # "unused" /\ flows'[jar'[c].flow].browser = c
        OBVIOUS
      <4>1. CASE c = b
        BY <1>3, <1>4, <1>5, <4>1
      <4>2. CASE c # b
        <5>1. jar[c].flow \in Flows /\ flows[jar[c].flow].phase # "unused"
              /\ flows[jar[c].flow].browser = c /\ jar'[c] = jar[c]
          BY <1>5, <4>2 DEF FlowsInOrder, AccountsOK, Flows
        <5>2. QED
          BY <1>3, <2>2, <5>1
      <4>3. QED
        BY <4>1, <4>2
    <3>3. \A g \in Flows : flows'[g].phase = "away" =>
            jar'[flows'[g].browser].flow = 0 \/ jar'[flows'[g].browser].flow >= g
      <4> SUFFICES ASSUME NEW g \in Flows, flows'[g].phase = "away"
                   PROVE  jar'[flows'[g].browser].flow = 0 \/ jar'[flows'[g].browser].flow >= g
        OBVIOUS
      <4>1. CASE g = f
        BY <1>3, <1>4, <1>5, <4>1 DEF Flows
      <4>2. CASE g # f
        <5>1. flows'[g] = flows[g] /\ flows[g].browser \in Browsers /\ g < f
          BY <1>3, <2>3, <4>2 DEF FlowsKnow
        <5>2. QED
          BY <1>5, <5>1 DEF FlowsInOrder, Flows
      <4>3. QED
        BY <4>1, <4>2
    <3>4. QED
      BY <3>1, <3>2, <3>3 DEF FlowsInOrder
<1>10. LinksLast'
  BY <1>1, <1>3, <1>4 DEF LinksLast, Existing
<1>11. ReadsHold'
  BY <1>1, <1>3, <1>4, ZenonT(40) DEF ReadsHold, Existing, Holders, Named
<1>12. RequestsKnow'
  BY <1>1 DEF RequestsKnow
<1>13. QED
  BY <1>6, <1>7, <1>8, <1>9, <1>10, <1>11, <1>12

\* The end of a flow without a session leaves the tables alone.
LEMMA StopKeeps ==
  ASSUME AccountInv, NEW f \in Flows, Under(f) \/ flows[f].phase = "away",
         NEW phase \in {"denied", "expired", "mismatch", "failed"},
         flows' \in [Flows -> FlowRecord],
         flows'[f].phase = phase, flows'[f].subject = flows[f].subject,
         flows'[f].browser = flows[f].browser, flows'[f].user = flows[f].user,
         \A g \in Flows \ {f} : flows'[g] = flows[g],
         jar' \in [Browsers -> CookieRecord],
         \A b \in Browsers : \/ jar'[b] = jar[b]
                             \/ jar'[b].flow = 0 /\ jar'[b].session = jar[b].session,
         UNCHANGED <<mailbox, users, issued, links, sessions, request, now>>
  PROVE  AccountInv'
<1> USE DEF AccountInv
<1>3. flows[f].phase \notin {"unused", "done"}
  BY DEF Under
<1>4. AccountTypes'
  BY DEF AccountTypes, SessionRecord
<1>5. AccountsOK'
  BY <1>3 DEF AccountsOK, Existing, AccountTypes, CookieRecord
<1>6. FlowsKnow'
  BY <1>3 DEF FlowsKnow, Under, Named
<1>7. FlowsInOrder'
  <2>1. \A g \in Flows : /\ flows'[g].phase = "unused" <=> flows[g].phase = "unused"
                         /\ flows'[g].phase = "away" => flows[g].phase = "away"
                         /\ flows'[g].browser = flows[g].browser
    BY <1>3
  <2>2. \A b \in Browsers : jar'[b].flow \in {0, jar[b].flow} /\ jar[b].flow \in 0 .. MaxFlows
    BY DEF AccountsOK
  <2>3. \A b \in Browsers : jar'[b].flow # 0 =>
          flows'[jar'[b].flow].phase # "unused" /\ flows'[jar'[b].flow].browser = b
    <3> SUFFICES ASSUME NEW b \in Browsers, jar'[b].flow # 0
                 PROVE  flows'[jar'[b].flow].phase # "unused" /\ flows'[jar'[b].flow].browser = b
      OBVIOUS
    <3>1. jar'[b].flow = jar[b].flow /\ jar[b].flow \in Flows
      BY <2>2 DEF Flows
    <3>2. QED
      BY <2>1, <3>1 DEF FlowsInOrder
  <2>4. \A g \in Flows : flows'[g].phase = "away" => flows'[g].browser \in Browsers
    BY <2>1 DEF FlowsKnow
  <2>5. QED
    BY <2>1, <2>2, <2>3, <2>4 DEF FlowsInOrder
<1>8. LinksLast'
  BY DEF LinksLast, Existing
<1>9. ReadsHold'
  <2>1. \A g \in Flows : flows'[g].phase \notin {"denied", "expired", "mismatch", "failed"}
          => flows'[g] = flows[g]
    OBVIOUS
  <2>2. UNCHANGED <<Existing, links, users>> /\ \A e : Holders(e)' = Holders(e)
    BY DEF Existing, Holders
  <2>3. QED
    BY <2>1, <2>2, ZenonT(40) DEF ReadsHold, Named
<1>10. RequestsKnow'
  BY DEF RequestsKnow
<1>11. QED
  BY <1>4, <1>5, <1>6, <1>7, <1>8, <1>9, <1>10

LEMMA EndBadlyKeeps ==
  ASSUME AccountInv, NEW f \in Flows, Under(f) \/ flows[f].phase = "away",
         NEW phase \in {"denied", "expired", "mismatch", "failed"}, EndBadly(f, phase),
         UNCHANGED <<mailbox, users, issued, links, sessions, request, now>>
  PROVE  AccountInv'
<1>1. /\ flows' \in [Flows -> FlowRecord]
      /\ flows'[f] = [flows[f] EXCEPT !.phase = phase]
      /\ \A g \in Flows \ {f} : flows'[g] = flows[g]
      /\ jar' \in [Browsers -> CookieRecord]
      /\ \A b \in Browsers : \/ jar'[b] = jar[b]
                             \/ jar'[b].flow = 0 /\ jar'[b].session = jar[b].session
  BY EndBadlyEffect DEF AccountInv
<1>2. /\ flows'[f].phase = phase /\ flows'[f].subject = flows[f].subject
      /\ flows'[f].browser = flows[f].browser /\ flows'[f].user = flows[f].user
  BY <1>1 DEF AccountInv, AccountTypes, FlowRecord
<1>3. QED
  BY <1>1, <1>2, StopKeeps

\* flow is the next state of f, and the others are as they were or disturbed.
Moves(f, flow) ==
  /\ flows' \in [Flows -> FlowRecord]
  /\ flows'[f] = flow
  /\ \A g \in Flows \ {f} :
       \/ flows'[g] = flows[g]
       \/ Under(g) /\ flows'[g] = [flows[g] EXCEPT !.disturbed = TRUE]

\* What disturbs a flow leaves the rest of it alone.
LEMMA OthersKeep ==
  ASSUME AccountTypes, NEW f \in Flows, NEW flow, Moves(f, flow), NEW g \in Flows \ {f}
  PROVE  /\ flows'[g].phase = flows[g].phase /\ flows'[g].subject = flows[g].subject
         /\ flows'[g].email = flows[g].email /\ flows'[g].browser = flows[g].browser
         /\ flows'[g].user = flows[g].user
         /\ ~flows'[g].disturbed => ~flows[g].disturbed /\ flows'[g] = flows[g]
<1>1. flows[g] \in FlowRecord
  BY DEF AccountTypes
<1>2. CASE flows'[g] = flows[g]
  BY <1>2
<1>3. CASE flows'[g] = [flows[g] EXCEPT !.disturbed = TRUE]
  BY <1>1, <1>3 DEF FlowRecord
<1>4. QED
  BY <1>2, <1>3 DEF Moves

\* A flow under way knows what it should and keeps its place.
LEMMA MovesKeep ==
  ASSUME AccountTypes, AccountsOK, FlowsKnow, FlowsInOrder,
         NEW f \in Flows, NEW flow \in FlowRecord, Moves(f, flow),
         flows[f].phase # "unused",
         flow.subject = flows[f].subject, flow.browser = flows[f].browser,
         flow.phase \notin {"unused", "away"}, flow.email \in Emails,
         flow.phase \in Named => flow.user # 0,
         flow.user <= issued', issued' \in {issued, issued + 1}, jar' = jar
  PROVE  FlowsKnow' /\ FlowsInOrder'
<1>1. \A g \in Flows \ {f} :
        /\ flows'[g].phase = flows[g].phase /\ flows'[g].subject = flows[g].subject
        /\ flows'[g].email = flows[g].email /\ flows'[g].browser = flows[g].browser
        /\ flows'[g].user = flows[g].user
  BY OthersKeep
<1>2. flows'[f] = flow
  BY DEF Moves
<1>3. FlowsKnow'
  <2> SUFFICES ASSUME NEW g \in Flows
               PROVE  /\ flows'[g].phase = "unused" => flows'[g] = NoFlow
                      /\ flows'[g].phase # "unused" => flows'[g].subject \in Subjects
                                                       /\ flows'[g].browser \in Browsers
                      /\ Under(g)' => flows'[g].email \in Emails
                      /\ flows'[g].phase \in Named => flows'[g].user # 0
                      /\ flows'[g].user <= issued'
    BY DEF FlowsKnow
  <2>1. CASE g = f
    BY <1>2, <2>1 DEF FlowsKnow
  <2>2. CASE g # f
    <3>1. flows[g].phase = "unused" => flows'[g] = flows[g]
      BY <2>2 DEF Moves, Under
    <3>2. flows[g].user \in Int /\ issued \in Int
      BY DEF AccountTypes, FlowRecord
    <3>3. Under(g)' => Under(g)
      BY <1>1, <2>2 DEF Under
    <3>4. QED
      BY <1>1, <2>2, <3>1, <3>2, <3>3 DEF FlowsKnow
  <2>3. QED
    BY <2>1, <2>2
<1>4. FlowsInOrder'
  <2>1. \A g \in Flows : /\ flows'[g].phase = "unused" <=> flows[g].phase = "unused"
                         /\ flows'[g].phase = "away" => flows[g].phase = "away"
                         /\ flows'[g].browser = flows[g].browser
    BY <1>1, <1>2
  <2>2. \A b \in Browsers : jar[b].flow # 0 => jar[b].flow \in Flows
    BY DEF AccountsOK, Flows
  <2>3. QED
    BY <2>1, <2>2 DEF FlowsInOrder, FlowsKnow
<1>5. QED
  BY <1>3, <1>4

\* A flow that only looks something up.
LEMMA LookingKeeps ==
  ASSUME AccountInv, NEW f \in Flows, NEW flow \in FlowRecord, Read(f, flow),
         flows[f].phase \notin {"unused", "done"},
         flow.subject = flows[f].subject, flow.browser = flows[f].browser,
         flow.disturbed = flows[f].disturbed,
         flow.phase \in {"identified", "linked", "not linked", "known", "unknown"},
         flow.email \in Emails,
         flow.phase \in Named => flow.user # 0, flow.user <= issued,
         flow.phase \in {"not linked", "known", "unknown"} /\ ~flow.disturbed
           => links[flow.subject] = 0,
         flow.phase = "linked" => links[flow.subject] = flow.user /\ flow.user \in Existing,
         flow.phase = "known" => users[flow.user] = flow.email /\ flow.user \in Existing,
         flow.phase = "unknown" => Holders(flow.email) = {},
         UNCHANGED <<mailbox, users, issued, links, sessions, jar, request, now>>
  PROVE  AccountInv'
<1> USE DEF AccountInv
<1>1. /\ flows' \in [Flows -> FlowRecord] /\ flows'[f] = flow
      /\ \A g \in Flows \ {f} : flows'[g] = flows[g]
  BY ReadEffect
<1>2. Moves(f, flow)
  BY <1>1 DEF Moves
<1>3. FlowsKnow' /\ FlowsInOrder'
  BY <1>2, MovesKeep
<1>4. AccountTypes'
  BY <1>1 DEF AccountTypes, SessionRecord
<1>5. AccountsOK'
  BY <1>1, ZenonT(40) DEF AccountsOK, Existing
<1>6. LinksLast'
  BY <1>1 DEF LinksLast, Existing
<1>7. ReadsHold'
  <2>1. UNCHANGED <<Existing, links, users>> /\ \A e : Holders(e)' = Holders(e)
    BY DEF Existing, Holders
  <2> DEFINE Holds(w) ==
        ~w.disturbed =>
          /\ w.phase \in {"not linked", "known", "unknown", "nameless"} => links[w.subject] = 0
          /\ w.phase \in {"linked", "refreshed", "resolved"} => links[w.subject] = w.user
          /\ w.phase \in Named \ {"done"} => w.user \in Existing
          /\ w.phase = "known" => users[w.user] = w.email
          /\ w.phase = "unknown" => Holders(w.email) = {}
  <2>2. Holds(flow)
    BY DEF Named
  <2>3. \A g \in Flows : Holds(flows[g])
    BY DEF ReadsHold
  <2>4. \A g \in Flows : Holds(flows'[g])
    <3> HIDE DEF Holds
    <3>1. QED
      BY <1>1, <2>2, <2>3
  <2>5. QED
    BY <2>1, <2>4 DEF ReadsHold
<1>8. RequestsKnow'
  BY DEF RequestsKnow
<1>9. QED
  BY <1>3, <1>4, <1>5, <1>6, <1>7, <1>8

LEMMA CallbackKeeps ==
  ASSUME AccountInv, NEW f \in Flows, Callback(f)
  PROVE  AccountInv'
<1> USE DEF AccountInv
<1>1. flows[f].phase = "away"
      /\ UNCHANGED <<mailbox, users, issued, links, sessions, request, now>>
  BY DEF Callback
<1>2. ASSUME NEW phase \in {"denied", "expired", "mismatch", "failed"}, EndBadly(f, phase)
      PROVE  AccountInv'
  BY <1>1, <1>2, EndBadlyKeeps
<1>3. ASSUME Read(f, [flows[f] EXCEPT !.phase = "identified", !.email = Vouched(f)]),
             UNCHANGED jar
      PROVE  AccountInv'
  <2> DEFINE flow == [flows[f] EXCEPT !.phase = "identified", !.email = Vouched(f)]
  <2>1. Vouched(f) \in Emails
    BY <1>1 DEF Vouched, AccountTypes, FlowsKnow
  <2>2. flow \in FlowRecord /\ flow.phase = "identified" /\ flow.email = Vouched(f)
        /\ flow.subject = flows[f].subject /\ flow.browser = flows[f].browser
        /\ flow.user = flows[f].user /\ flow.disturbed = flows[f].disturbed
    BY <2>1 DEF AccountTypes, FlowRecord, FlowPhases
  <2>3. flow.user <= issued
    BY <2>2 DEF FlowsKnow
  <2> HIDE DEF flow
  <2>4. QED
    BY <1>1, <1>3, <2>1, <2>2, <2>3, LookingKeeps DEF Named, flow
<1>4. QED
  BY <1>2, <1>3 DEF Callback

LEMMA LookUpLinkKeeps ==
  ASSUME AccountInv, NEW f \in Flows, LookUpLink(f)
  PROVE  AccountInv'
<1> USE DEF AccountInv
<1> DEFINE u == links[flows[f].subject]
           phase == IF u # 0 THEN "linked" ELSE "not linked"
           flow == [flows[f] EXCEPT !.phase = phase, !.user = u]
<1>1. flows[f].phase = "identified" /\ Read(f, flow)
      /\ UNCHANGED <<mailbox, users, issued, links, sessions, jar, request, now>>
  BY DEF LookUpLink
<1>2. u \in 0 .. MaxUsers /\ (u # 0 => u \in Existing) /\ u <= issued
  <2>1. u \in 0 .. MaxUsers /\ (u # 0 => u \in Existing)
    BY <1>1 DEF FlowsKnow, AccountTypes, AccountsOK
  <2>2. issued \in Nat
    BY DEF AccountTypes
  <2>3. QED
    BY <2>1, <2>2 DEF AccountsOK
<1>3. flow \in FlowRecord /\ flow.phase = phase /\ flow.email = flows[f].email
      /\ flow.subject = flows[f].subject /\ flow.browser = flows[f].browser
      /\ flow.user = u /\ flow.disturbed = flows[f].disturbed
  BY <1>2 DEF AccountTypes, FlowRecord, FlowPhases
<1>4. flow.email \in Emails
  BY <1>1, <1>3 DEF FlowsKnow, Under
<1> HIDE DEF flow
<1>5. QED
  BY <1>1, <1>2, <1>3, <1>4, LookingKeeps DEF Named

LEMMA LookUpEmailKeeps ==
  ASSUME AccountInv, NEW f \in Flows, LookUpEmail(f)
  PROVE  AccountInv'
<1> USE DEF AccountInv
<1> DEFINE same == Holders(flows[f].email)
           u == IF same # {} THEN CHOOSE v \in same : TRUE ELSE 0
           phase == IF same # {} THEN "known" ELSE "unknown"
           flow == [flows[f] EXCEPT !.phase = phase, !.user = u]
<1>1. flows[f].phase = "not linked" /\ Read(f, flow)
      /\ UNCHANGED <<mailbox, users, issued, links, sessions, jar, request, now>>
  BY DEF LookUpEmail
<1>2. flows[f].email \in Emails /\ flows[f].email # NoEmail
  BY <1>1, AccountsAssumption DEF FlowsKnow, Under, NoEmail
<1>3. same # {} => u \in Existing /\ users[u] = flows[f].email
  BY <1>2 DEF Holders, Existing
<1>4. u \in 0 .. MaxUsers /\ u <= issued
  BY <1>3, AccountsAssumption DEF Existing, Users, AccountsOK, AccountTypes
<1>5. flow \in FlowRecord /\ flow.phase = phase /\ flow.email = flows[f].email
      /\ flow.subject = flows[f].subject /\ flow.browser = flows[f].browser
      /\ flow.user = u /\ flow.disturbed = flows[f].disturbed
  BY <1>4, ZenonT(40) DEF AccountTypes, FlowRecord, FlowPhases
<1>6. ~flows[f].disturbed => links[flows[f].subject] = 0
  BY <1>1 DEF ReadsHold
<1> HIDE DEF u
<1>7. same # {} => u # 0
  BY <1>3, AccountsAssumption DEF Existing, Users
<1>8. IF same # {} THEN flow.phase = "known" ELSE flow.phase = "unknown"
  BY <1>5
<1>9. Holders(flow.email) = same
  BY <1>5
<1> HIDE DEF flow
<1>10. flow.phase \in Named => flow.user # 0
  BY <1>5, <1>7, <1>8 DEF Named
<1>11. /\ flow.phase = "known" => users[flow.user] = flow.email /\ flow.user \in Existing
       /\ flow.phase = "unknown" => Holders(flow.email) = {}
       /\ flow.phase # "linked" /\ flow.phase \in {"known", "unknown"}
  BY <1>3, <1>5, <1>8, <1>9
<1>12. QED
  BY <1>1, <1>2, <1>4, <1>5, <1>6, <1>10, <1>11, LookingKeeps

\* A flow that writes: what the others had read no longer counts.
LEMMA WritingKeeps ==
  ASSUME AccountInv, NEW f \in Flows, NEW flow \in FlowRecord, Write(f, flow),
         flows[f].phase \notin {"unused", "done"},
         flow.subject = flows[f].subject, flow.browser = flows[f].browser,
         flow.phase \in {"nameless", "refreshed", "resolved"}, flow.email \in Emails,
         flow.user # 0, flow.user <= issued', issued' \in {issued, issued + 1}, jar' = jar,
         ~flow.disturbed =>
           /\ flow.user \in Existing'
           /\ links'[flow.subject] = IF flow.phase = "nameless" THEN 0 ELSE flow.user
  PROVE  Moves(f, flow) /\ FlowsKnow' /\ FlowsInOrder' /\ ReadsHold'
<1> USE DEF AccountInv
<1>1. /\ flows' \in [Flows -> FlowRecord] /\ flows'[f] = flow
      /\ \A g \in Flows \ {f} :
           flows'[g] = IF Under(g) THEN [flows[g] EXCEPT !.disturbed = TRUE] ELSE flows[g]
  BY WriteEffect
<1>2. Moves(f, flow)
  BY <1>1 DEF Moves
<1>3. FlowsKnow' /\ FlowsInOrder'
  BY <1>2, MovesKeep
<1>4. \A g \in Flows \ {f} : ~flows'[g].disturbed =>
        flows'[g].phase \notin (Named \ {"done"}) \cup {"not linked", "unknown"}
  <2> SUFFICES ASSUME NEW g \in Flows \ {f}, ~flows'[g].disturbed
               PROVE  flows'[g].phase \notin (Named \ {"done"}) \cup {"not linked", "unknown"}
    OBVIOUS
  <2>1. ~Under(g)
    BY <1>1 DEF AccountTypes, FlowRecord
  <2>2. QED
    BY <1>1, <2>1 DEF Under, Named
<1>5. ReadsHold'
  BY <1>1, <1>4 DEF ReadsHold, Named
<1>6. QED
  BY <1>2, <1>3, <1>5

LEMMA RefreshUserKeeps ==
  ASSUME AccountInv, NEW f \in Flows, RefreshUser(f)
  PROVE  AccountInv'
<1> USE DEF AccountInv
<1> DEFINE u == flows[f].user
           email == flows[f].email
           phase == IF flows[f].phase = "linked" THEN "refreshed" ELSE "nameless"
           flow == [flows[f] EXCEPT !.phase = phase]
<1>1. flows[f].phase \in {"linked", "known"} /\ Under(f)
      /\ UNCHANGED <<mailbox, issued, links, sessions, request, now>>
  BY DEF RefreshUser, Under
<1>2. CASE EndBadly(f, "failed") /\ UNCHANGED users
  BY <1>1, <1>2, EndBadlyKeeps
<1>3. CASE /\ u \in Existing /\ ~Clash(u, email)
           /\ users' = [users EXCEPT ![u] = email]
           /\ Write(f, flow) /\ UNCHANGED jar
  <2>1. email \in Emails /\ email # NoEmail /\ u \in Users /\ u # 0 /\ u <= issued
    BY <1>1, <1>3, AccountsAssumption DEF FlowsKnow, Existing, NoEmail, Named
  <2>2. flow \in FlowRecord /\ flow.phase = phase /\ flow.email = email
        /\ flow.subject = flows[f].subject /\ flow.browser = flows[f].browser
        /\ flow.user = u /\ flow.disturbed = flows[f].disturbed
    BY DEF AccountTypes, FlowRecord, FlowPhases
  <2>3. /\ users' \in [Users -> Emails \cup {NoEmail}] /\ users'[u] = email
        /\ \A v \in Users \ {u} : users'[v] = users[v] /\ users[v] # email
    BY <1>3, <2>1 DEF AccountTypes, Clash
  <2>4. Existing' = Existing
    BY <1>3, <2>1, <2>3 DEF Existing
  <2>5. ~flow.disturbed => links[flow.subject] = IF phase = "nameless" THEN 0 ELSE u
    BY <1>1, <2>2 DEF ReadsHold
  <2> HIDE DEF flow
  <2>6. Moves(f, flow) /\ FlowsKnow' /\ FlowsInOrder' /\ ReadsHold'
    BY <1>1, <1>3, <2>1, <2>2, <2>4, <2>5, WritingKeeps
  <2>7. AccountTypes'
    BY <1>1, <1>3, <2>3, <2>6 DEF AccountTypes, SessionRecord, Moves
  <2>8. \A g \in Flows : flows[g].phase = "done" => flows'[g].phase = "done"
    BY <1>1, <2>6, OthersKeep
  <2>9. AccountsOK'
    BY <1>1, <1>3, <2>3, <2>4, <2>8 DEF AccountsOK, Existing
  <2>10. LinksLast'
    <3>1. \A g \in Flows \ {f} : flows'[g].phase = flows[g].phase
            /\ flows'[g].user = flows[g].user /\ flows'[g].subject = flows[g].subject
      BY <2>6, OthersKeep
    <3>2. flows'[f].phase # "resolved"
      BY <2>2, <2>6 DEF Moves
    <3>3. QED
      BY <1>1, <2>4, <3>1, <3>2 DEF LinksLast
  <2>11. RequestsKnow'
    BY <1>1 DEF RequestsKnow
  <2>12. QED
    BY <2>6, <2>7, <2>9, <2>10, <2>11
<1>4. QED
  BY <1>2, <1>3 DEF RefreshUser

LEMMA CreateUserKeeps ==
  ASSUME AccountInv, NEW f \in Flows, CreateUser(f)
  PROVE  AccountInv'
<1> USE DEF AccountInv
<1> DEFINE email == flows[f].email
           u == issued + 1
           flow == [flows[f] EXCEPT !.phase = "nameless", !.user = u]
<1>1. flows[f].phase = "unknown" /\ Under(f) /\ issued < MaxUsers
      /\ UNCHANGED <<mailbox, links, sessions, request, now>>
  BY DEF CreateUser, Under
<1>2. CASE EndBadly(f, "failed") /\ UNCHANGED <<users, issued>>
  BY <1>1, <1>2, EndBadlyKeeps
<1>3. CASE /\ ~Clash(0, email) /\ issued' = u
           /\ users' = [users EXCEPT ![u] = email]
           /\ Write(f, flow) /\ UNCHANGED jar
  <2>1. /\ email \in Emails /\ email # NoEmail /\ issued \in Nat
        /\ u \in Users /\ u # 0 /\ u \in 0 .. MaxUsers
    BY <1>1, AccountsAssumption DEF FlowsKnow, NoEmail, AccountTypes, Users
  <2>2. flow \in FlowRecord /\ flow.phase = "nameless" /\ flow.email = email
        /\ flow.subject = flows[f].subject /\ flow.browser = flows[f].browser
        /\ flow.user = u /\ flow.disturbed = flows[f].disturbed
    BY <2>1 DEF AccountTypes, FlowRecord, FlowPhases
  <2>3. /\ users' \in [Users -> Emails \cup {NoEmail}] /\ users'[u] = email
        /\ \A v \in Users \ {u} : users'[v] = users[v] /\ users[v] # email
    BY <1>3, <2>1 DEF AccountTypes, Clash, Users
  <2>4. Existing' = Existing \cup {u} /\ u \notin Existing
    BY <1>3, <2>1, <2>3 DEF Existing, AccountsOK
  <2>5. ~flow.disturbed => links[flow.subject] = 0
    BY <1>1, <2>2 DEF ReadsHold
  <2> HIDE DEF flow
  <2>6. Moves(f, flow) /\ FlowsKnow' /\ FlowsInOrder' /\ ReadsHold'
    BY <1>1, <1>3, <2>1, <2>2, <2>4, <2>5, WritingKeeps
  <2>7. AccountTypes'
    BY <1>1, <1>3, <2>1, <2>3, <2>6 DEF AccountTypes, SessionRecord, Moves
  <2>8. \A g \in Flows : flows[g].phase = "done" => flows'[g].phase = "done"
    BY <1>1, <2>6, OthersKeep
  <2>9. AccountsOK'
    BY <1>1, <1>3, <2>1, <2>3, <2>4, <2>8 DEF AccountsOK, Existing, Users
  <2>10. LinksLast'
    <3>1. \A g \in Flows \ {f} : flows'[g].phase = flows[g].phase
            /\ flows'[g].user = flows[g].user /\ flows'[g].subject = flows[g].subject
      BY <2>6, OthersKeep
    <3>2. flows'[f].phase # "resolved"
      BY <2>2, <2>6 DEF Moves
    <3>3. \A g \in Flows : flows[g].user # u
      BY <2>1 DEF FlowsKnow
    <3>4. QED
      BY <1>1, <2>4, <3>1, <3>2, <3>3 DEF LinksLast
  <2>11. RequestsKnow'
    BY <1>1, <1>3, <2>1 DEF RequestsKnow, AccountTypes, RequestRecord
  <2>12. QED
    BY <2>6, <2>7, <2>9, <2>10, <2>11
<1>4. QED
  BY <1>2, <1>3 DEF CreateUser

LEMMA RefreshLinkKeeps ==
  ASSUME AccountInv, NEW f \in Flows, RefreshLink(f)
  PROVE  AccountInv'
<1> USE DEF AccountInv
<1> DEFINE flow == [flows[f] EXCEPT !.phase = "resolved"]
<1>1. flows[f].phase = "refreshed" /\ Under(f)
      /\ UNCHANGED <<mailbox, users, issued, links, sessions, request, now>>
  BY DEF RefreshLink, Under
<1>2. CASE EndBadly(f, "failed")
  BY <1>1, <1>2, EndBadlyKeeps
<1>3. CASE links[flows[f].subject] = flows[f].user /\ Write(f, flow) /\ UNCHANGED jar
  <2>1. flow \in FlowRecord /\ flow.phase = "resolved" /\ flow.email = flows[f].email
        /\ flow.subject = flows[f].subject /\ flow.browser = flows[f].browser
        /\ flow.user = flows[f].user /\ flow.disturbed = flows[f].disturbed
    BY DEF AccountTypes, FlowRecord, FlowPhases
  <2>2. flow.email \in Emails /\ flow.user # 0 /\ flow.user <= issued
    BY <1>1, <2>1 DEF FlowsKnow, Named
  <2>3. Existing' = Existing
    BY <1>1 DEF Existing
  <2>4. ~flow.disturbed => flow.user \in Existing
    BY <1>1, <2>1 DEF ReadsHold, Named
  <2> HIDE DEF flow
  <2>5. Moves(f, flow) /\ FlowsKnow' /\ FlowsInOrder' /\ ReadsHold'
    BY <1>1, <1>3, <2>1, <2>2, <2>3, <2>4, WritingKeeps
  <2>6. AccountTypes'
    BY <1>1, <1>3, <2>5 DEF AccountTypes, SessionRecord, Moves
  <2>7. \A g \in Flows : flows[g].phase = "done" => flows'[g].phase = "done"
    BY <1>1, <2>5, OthersKeep
  <2>8. AccountsOK'
    BY <1>1, <1>3, <2>3, <2>7 DEF AccountsOK, Existing
  <2>9. LinksLast'
    <3>1. \A g \in Flows \ {f} : flows'[g].phase = flows[g].phase
            /\ flows'[g].user = flows[g].user /\ flows'[g].subject = flows[g].subject
      BY <2>5, OthersKeep
    <3>2. flows'[f] = flow
      BY <2>5 DEF Moves
    <3>3. QED
      BY <1>1, <1>3, <2>1, <2>3, <3>1, <3>2 DEF LinksLast
  <2>10. RequestsKnow'
    BY <1>1 DEF RequestsKnow
  <2>11. QED
    BY <2>5, <2>6, <2>8, <2>9, <2>10
<1>4. QED
  BY <1>2, <1>3 DEF RefreshLink

LEMMA CreateLinkKeeps ==
  ASSUME AccountInv, NEW f \in Flows, CreateLink(f)
  PROVE  AccountInv'
<1> USE DEF AccountInv
<1> DEFINE u == flows[f].user
           s == flows[f].subject
           flow == [flows[f] EXCEPT !.phase = "resolved"]
<1>1. flows[f].phase = "nameless" /\ Under(f)
      /\ UNCHANGED <<mailbox, users, issued, sessions, request, now>>
  BY DEF CreateLink, Under
<1>2. CASE EndBadly(f, "failed") /\ UNCHANGED links
  BY <1>1, <1>2, EndBadlyKeeps
<1>3. CASE /\ u \in Existing /\ links[s] = 0
           /\ links' = [links EXCEPT ![s] = u]
           /\ Write(f, flow) /\ UNCHANGED jar
  <2>1. flow \in FlowRecord /\ flow.phase = "resolved" /\ flow.email = flows[f].email
        /\ flow.subject = s /\ flow.browser = flows[f].browser
        /\ flow.user = u /\ flow.disturbed = flows[f].disturbed
    BY DEF AccountTypes, FlowRecord, FlowPhases
  <2>2. flow.email \in Emails /\ flow.user # 0 /\ flow.user <= issued
        /\ s \in Subjects /\ u \in 1 .. MaxUsers /\ u \in 0 .. MaxUsers
    BY <1>1, <1>3, <2>1, AccountsAssumption DEF FlowsKnow, Existing, Users, Named
  <2>3. Existing' = Existing
    BY <1>1 DEF Existing
  <2>4. /\ links' \in [Subjects -> 0 .. MaxUsers] /\ links'[s] = u
        /\ \A t \in Subjects \ {s} : links'[t] = links[t]
    BY <1>3, <2>2 DEF AccountTypes
  <2> HIDE DEF flow
  <2>5. Moves(f, flow) /\ FlowsKnow' /\ FlowsInOrder' /\ ReadsHold'
    BY <1>1, <1>3, <2>1, <2>2, <2>3, <2>4, WritingKeeps
  <2>6. AccountTypes'
    BY <1>1, <1>3, <2>4, <2>5 DEF AccountTypes, SessionRecord, Moves
  <2>7. \A g \in Flows : flows[g].phase = "done" => flows'[g].phase = "done"
    BY <1>1, <2>5, OthersKeep
  <2>8. AccountsOK'
    BY <1>1, <1>3, <2>3, <2>4, <2>7 DEF AccountsOK, Existing
  <2>9. LinksLast'
    <3>1. \A g \in Flows \ {f} : flows'[g].phase = flows[g].phase
            /\ flows'[g].user = flows[g].user /\ flows'[g].subject = flows[g].subject
      BY <2>5, OthersKeep
    <3>2. flows'[f] = flow
      BY <2>5 DEF Moves
    <3>3. \A g \in Flows \ {f} : flows[g].phase = "resolved" /\ flows[g].user \in Existing
            => flows[g].subject # s /\ flows[g].subject \in Subjects
      BY <1>3 DEF LinksLast, FlowsKnow, Existing, Users
    <3>4. QED
      BY <1>1, <2>1, <2>3, <2>4, <3>1, <3>2, <3>3 DEF LinksLast
  <2>10. RequestsKnow'
    BY <1>1 DEF RequestsKnow
  <2>11. QED
    BY <2>5, <2>6, <2>8, <2>9, <2>10
<1>4. QED
  BY <1>2, <1>3 DEF CreateLink, CanLink

LEMMA CreateSessionKeeps ==
  ASSUME AccountInv, NEW f \in Flows, CreateSession(f)
  PROVE  AccountInv'
<1> USE DEF AccountInv
<1> DEFINE flow == [flows[f] EXCEPT !.phase = "done"]
           b == flows[f].browser
<1>1. flows[f].phase = "resolved" /\ Under(f)
      /\ UNCHANGED <<mailbox, users, issued, links, request, now>>
  BY DEF CreateSession, Under
<1>2. CASE EndBadly(f, "failed") /\ UNCHANGED sessions
  BY <1>1, <1>2, EndBadlyKeeps
<1>3. CASE /\ flows[f].user \in Existing
           /\ sessions' = [sessions EXCEPT ![f] = NewSession(f)]
           /\ Read(f, flow) /\ Answered(b, f)
  <2>1. flow \in FlowRecord /\ flow.phase = "done"
        /\ flow.subject = flows[f].subject /\ flow.browser = b /\ flow.user = flows[f].user
    BY DEF AccountTypes, FlowRecord, FlowPhases
  <2> HIDE DEF flow
  <2>2. /\ flows' \in [Flows -> FlowRecord] /\ flows'[f] = flow
        /\ \A g \in Flows \ {f} : flows'[g] = flows[g]
    BY <1>3, <2>1, ReadEffect
  <2>3. Existing' = Existing
    BY <1>1 DEF Existing
  <2>4. /\ NewSession(f) \in SessionRecord /\ NewSession(f).user = flows[f].user
    BY <1>3, AccountsAssumption DEF NewSession, SessionRecord, Existing, Users, AccountTypes
  <2>5. /\ sessions' \in [Flows -> SessionRecord] /\ sessions'[f] = NewSession(f)
        /\ \A g \in Flows \ {f} : sessions'[g] = sessions[g]
    BY <1>3, <2>4 DEF AccountTypes
  <2>6. b \in Browsers /\ jar \in [Browsers -> CookieRecord] /\ f \in 0 .. MaxFlows
    BY <1>1 DEF FlowsKnow, AccountTypes, Flows
  <2>7. jar' \in [Browsers -> CookieRecord]
        /\ \A c \in Browsers : jar'[c].flow \in {0, jar[c].flow}
    BY <1>3, <2>6, AccountsAssumption DEF Answered, CookieRecord
  <2>8. AccountTypes'
    BY <1>1, <2>2, <2>5, <2>7 DEF AccountTypes
  <2>9. AccountsOK'
    <3>1. \A c \in Browsers : jar'[c].flow \in 0 .. MaxFlows
      BY <2>7 DEF CookieRecord
    <3>2. \A g \in Flows : sessions'[g] # NoSession =>
            sessions'[g].user \in Existing /\ flows'[g].phase = "done"
      BY <1>3, <2>1, <2>2, <2>4, <2>5 DEF AccountsOK
    <3>3. QED
      BY <1>1, <2>3, <3>1, <3>2 DEF AccountsOK, Existing
  <2>10. FlowsKnow'
    BY <1>1, <2>1, <2>2 DEF FlowsKnow, Under, Named
  <2>11. FlowsInOrder'
    <3>1. \A g \in Flows : /\ flows'[g].phase = "unused" <=> flows[g].phase = "unused"
                           /\ flows'[g].phase = "away" => flows[g].phase = "away"
                           /\ flows'[g].browser = flows[g].browser
      BY <1>1, <2>1, <2>2
    <3>2. \A c \in Browsers : jar'[c].flow # 0 => jar'[c].flow = jar[c].flow /\ jar[c].flow \in Flows
      BY <2>7 DEF AccountsOK, Flows
    <3>3. \A c \in Browsers : jar'[c].flow # 0 =>
            flows'[jar'[c].flow].phase # "unused" /\ flows'[jar'[c].flow].browser = c
      BY <3>1, <3>2 DEF FlowsInOrder
    <3>4. \A g \in Flows : flows'[g].phase = "away" => flows'[g].browser \in Browsers
      BY <3>1 DEF FlowsKnow
    <3>5. QED
      BY <2>7, <3>1, <3>3, <3>4 DEF FlowsInOrder
  <2>12. LinksLast'
    BY <1>1, <2>1, <2>2, <2>3 DEF LinksLast
  <2>13. ReadsHold'
    <3>1. UNCHANGED <<links, users>> /\ \A e : Holders(e)' = Holders(e)
      BY <1>1 DEF Holders
    <3>2. QED
      BY <2>1, <2>2, <2>3, <3>1 DEF ReadsHold, Named
  <2>14. RequestsKnow'
    BY <1>1 DEF RequestsKnow
  <2>15. QED
    BY <2>8, <2>9, <2>10, <2>11, <2>12, <2>13, <2>14
<1>4. QED
  BY <1>2, <1>3 DEF CreateSession, CanHoldSession

LEMMA BreakKeeps ==
  ASSUME AccountInv, NEW f \in Flows, Break(f)
  PROVE  AccountInv'
<1>1. /\ Under(f) /\ flows[f].browser \in Browsers
      /\ flows' = [flows EXCEPT ![f].phase = "failed", ![f].disturbed = TRUE]
      /\ UNCHANGED <<mailbox, users, issued, links, sessions, request, now>>
  BY DEF Break, AccountInv, FlowsKnow, Under
<1>2. flows \in [Flows -> FlowRecord] /\ jar \in [Browsers -> CookieRecord]
  BY DEF AccountInv, AccountTypes
<1>3. /\ flows' \in [Flows -> FlowRecord]
      /\ flows'[f].phase = "failed" /\ flows'[f].subject = flows[f].subject
      /\ flows'[f].browser = flows[f].browser /\ flows'[f].user = flows[f].user
      /\ \A g \in Flows \ {f} : flows'[g] = flows[g]
  <2> DEFINE flow == [flows[f] EXCEPT !.phase = "failed", !.disturbed = TRUE]
  <2>1. flow \in FlowRecord /\ flow.phase = "failed" /\ flow.subject = flows[f].subject
        /\ flow.browser = flows[f].browser /\ flow.user = flows[f].user
    BY <1>2 DEF FlowRecord, FlowPhases
  <2>2. flows' = [flows EXCEPT ![f] = flow]
    BY <1>1, <1>2
  <2> HIDE DEF flow
  <2>3. QED
    BY <1>2, <2>1, <2>2
<1>4. jar' \in [Browsers -> CookieRecord]
      /\ \A b \in Browsers : \/ jar'[b] = jar[b]
                             \/ jar'[b].flow = 0 /\ jar'[b].session = jar[b].session
  <2>1. CASE UNCHANGED jar
    BY <1>2, <2>1
  <2>2. CASE Answered(flows[f].browser, jar[flows[f].browser].session)
    BY <1>1, <1>2, <2>2, AccountsAssumption DEF Answered, CookieRecord
  <2>3. QED
    BY <2>1, <2>2 DEF Break
<1>5. QED
  BY <1>1, <1>3, <1>4, StopKeeps

LEMMA SignInKeeps ==
  ASSUME AccountInv, NEW f \in Flows, SignIn(f)
  PROVE  AccountInv'
BY CallbackKeeps, LookUpLinkKeeps, LookUpEmailKeeps, RefreshUserKeeps, CreateUserKeeps,
   RefreshLinkKeeps, CreateLinkKeeps, CreateSessionKeeps, BreakKeeps DEF SignIn

\* Requests come and go, and mark, for a user that has had an account.
LEMMA RequestKeeps ==
  ASSUME AccountInv, NEW b \in Browsers, NEW r \in RequestRecord,
         request' = [request EXCEPT ![b] = r], r.user <= issued, r.user = 0 => r.mark = 0,
         UNCHANGED <<mailbox, users, issued, links, flows, sessions, jar, now>>
  PROVE  AccountInv'
<1> USE DEF AccountInv
<1>1. /\ request' \in [Browsers -> RequestRecord] /\ request'[b] = r
      /\ \A c \in Browsers \ {b} : request'[c] = request[c]
  BY DEF AccountTypes
<1>2. AccountTypes'
  BY <1>1 DEF AccountTypes, FlowRecord, SessionRecord, CookieRecord
<1>3. AccountsOK'
  BY <1>1 DEF AccountsOK, Existing, RequestRecord
<1>4. FlowsKnow' /\ FlowsInOrder'
  BY DEF FlowsKnow, FlowsInOrder, Under
<1>5. LinksLast' /\ ReadsHold'
  BY DEF LinksLast, ReadsHold, Existing, Holders
<1>6. RequestsKnow'
  BY <1>1 DEF RequestsKnow
<1>7. QED
  BY <1>2, <1>3, <1>4, <1>5, <1>6

LEMMA AuthenticateKeeps ==
  ASSUME AccountInv, NEW b \in Browsers, Authenticate(b)
  PROVE  AccountInv'
<1> DEFINE u == sessions[jar[b].session].user
           r == [request[b] EXCEPT !.user = u]
<1>1. /\ request' = [request EXCEPT ![b] = r] /\ u \in Existing /\ request[b] = NoRequest
      /\ UNCHANGED <<mailbox, users, issued, links, flows, sessions, jar, now>>
  BY DEF Authenticate, Valid
<1>2. u \in 0 .. MaxUsers /\ u # 0 /\ u <= issued
  BY <1>1, AccountsAssumption DEF AccountInv, AccountsOK, Existing, Users
<1>3. r \in RequestRecord /\ r.user = u
  BY <1>1, <1>2 DEF AccountInv, AccountTypes, RequestRecord
<1> HIDE DEF r, u
<1>4. QED
  BY <1>1, <1>2, <1>3, RequestKeeps

\* A request that is answered, or that has loaded what it will mark.
LEMMA AnswerKeeps ==
  ASSUME AccountInv, NEW b \in Browsers, Answer(b),
         UNCHANGED <<mailbox, users, issued, links, flows, sessions, jar, now>>
  PROVE  AccountInv'
<1>1. NoRequest \in RequestRecord /\ NoRequest.user = 0 /\ NoRequest.mark = 0
  BY AccountsAssumption DEF NoRequest, RequestRecord
<1>2. NoRequest.user <= issued
  BY <1>1 DEF AccountInv, AccountTypes
<1>3. QED
  BY <1>1, <1>2, RequestKeeps DEF Answer

LEMMA MarkKeeps ==
  ASSUME AccountInv, NEW b \in Browsers, NEW e \in Facts, request[b].user # 0,
         request' = [request EXCEPT ![b].mark = e],
         UNCHANGED <<mailbox, users, issued, links, flows, sessions, jar, now>>
  PROVE  AccountInv'
<1> DEFINE r == [request[b] EXCEPT !.mark = e]
<1>1. r \in RequestRecord /\ r.user = request[b].user
  BY DEF AccountInv, AccountTypes, RequestRecord
<1>2. r.user <= issued
  BY <1>1 DEF AccountInv, RequestsKnow
<1>3. request' = [request EXCEPT ![b] = r]
  OBVIOUS
<1> HIDE DEF r
<1>4. QED
  BY <1>1, <1>2, <1>3, RequestKeeps

LEMMA LogOutKeeps ==
  ASSUME AccountInv, NEW b \in Browsers, LogOut(b)
  PROVE  AccountInv'
<1> USE DEF AccountInv
<1> DEFINE f == jar[b].session
<1>1. /\ f # 0
      /\ sessions' = IF sessions[f] = NoSession THEN sessions
                     ELSE [sessions EXCEPT ![f].revoked = TRUE]
      /\ jar' = [jar EXCEPT ![b].session = 0]
      /\ UNCHANGED <<mailbox, users, issued, links, flows, request, now>>
  BY DEF LogOut
<1>2. /\ jar \in [Browsers -> CookieRecord] /\ sessions \in [Flows -> SessionRecord]
      /\ f \in Flows
  BY <1>1, AccountsAssumption DEF AccountTypes, CookieRecord, Flows
<1>3. /\ sessions' \in [Flows -> SessionRecord]
      /\ \A g \in Flows : sessions'[g] # NoSession =>
           sessions[g] # NoSession /\ sessions'[g].user = sessions[g].user
  BY <1>1, <1>2 DEF SessionRecord
<1>4. /\ jar' \in [Browsers -> CookieRecord]
      /\ \A c \in Browsers : jar'[c].flow = jar[c].flow
  BY <1>1, <1>2, AccountsAssumption DEF CookieRecord
<1> HIDE DEF f
<1>5. AccountTypes'
  BY <1>1, <1>3, <1>4 DEF AccountTypes
<1>6. AccountsOK'
  BY <1>1, <1>3, <1>4 DEF AccountsOK, Existing
<1>7. FlowsKnow' /\ FlowsInOrder'
  BY <1>1, <1>4 DEF FlowsKnow, FlowsInOrder, Under
<1>8. LinksLast' /\ ReadsHold' /\ RequestsKnow'
  BY <1>1 DEF LinksLast, ReadsHold, RequestsKnow, Existing, Holders
<1>9. QED
  BY <1>5, <1>6, <1>7, <1>8

\* Every flow under way is disturbed, and none knows its user by a link.
LEMMA DeleteUserKeeps ==
  ASSUME AccountInv, NEW b \in Browsers, DeleteUser(b)
  PROVE  AccountInv' /\ Existing' = Existing \ {request[b].user}
<1> USE DEF AccountInv
<1> DEFINE u == request[b].user
<1>1. /\ u # 0
      /\ users' = [users EXCEPT ![u] = NoEmail]
      /\ links' = [s \in Subjects |-> IF links[s] = u THEN 0 ELSE links[s]]
      /\ sessions' = [f \in Flows |-> IF sessions[f].user = u THEN NoSession ELSE sessions[f]]
      /\ flows' = IF u \in Existing THEN Disturbed(flows, 0) ELSE flows
      /\ jar' = [jar EXCEPT ![b].session = 0]
      /\ request' = [request EXCEPT ![b] = NoRequest]
      /\ UNCHANGED <<mailbox, issued, now>>
  BY DEF DeleteUser, Answer
<1>2. u \in Users
  BY <1>1, AccountsAssumption DEF AccountTypes, RequestRecord, Users
<1> HIDE DEF u
<1>3. /\ users' \in [Users -> Emails \cup {NoEmail}] /\ users'[u] = NoEmail
      /\ \A v \in Users \ {u} : users'[v] = users[v]
      /\ Existing' = Existing \ {u}
  BY <1>1, <1>2 DEF AccountTypes, Existing
<1>4. /\ links' \in [Subjects -> 0 .. MaxUsers]
      /\ \A s \in Subjects : /\ links[s] = u => links'[s] = 0
                             /\ links[s] # u => links'[s] = links[s]
  BY <1>1, AccountsAssumption DEF AccountTypes
<1>5. /\ sessions' \in [Flows -> SessionRecord]
      /\ \A f \in Flows : sessions'[f] # NoSession =>
                            sessions[f].user # u /\ sessions'[f] = sessions[f]
  BY <1>1, AccountsAssumption DEF AccountTypes, SessionRecord, NoSession
<1>6. /\ flows' \in [Flows -> FlowRecord]
      /\ \A f \in Flows : /\ flows'[f].phase = flows[f].phase
                          /\ flows'[f].subject = flows[f].subject
                          /\ flows'[f].email = flows[f].email
                          /\ flows'[f].browser = flows[f].browser
                          /\ flows'[f].user = flows[f].user
                          /\ Under(f) /\ u \in Existing => flows'[f].disturbed
                          /\ ~Under(f) \/ u \notin Existing => flows'[f] = flows[f]
  <2>1. \A f \in Flows : [flows[f] EXCEPT !.disturbed = TRUE] \in FlowRecord
    BY DEF AccountTypes, FlowRecord
  <2>2. \A f \in Flows : f # 0
    BY DEF Flows
  <2>3. CASE u \in Existing
    BY <1>1, <2>1, <2>2, <2>3 DEF AccountTypes, Disturbed, FlowRecord
  <2>4. CASE u \notin Existing
    BY <1>1, <2>4 DEF AccountTypes
  <2>5. QED
    BY <2>3, <2>4
<1>7. /\ jar' \in [Browsers -> CookieRecord]
      /\ \A c \in Browsers : jar'[c].flow = jar[c].flow
  BY <1>1, AccountsAssumption DEF AccountTypes, CookieRecord
<1>8. /\ request' \in [Browsers -> RequestRecord] /\ request'[b] = NoRequest
      /\ \A c \in Browsers \ {b} : request'[c] = request[c]
  BY <1>1, AccountsAssumption DEF AccountTypes, RequestRecord, NoRequest
<1>9. AccountTypes'
  BY <1>1, <1>3, <1>4, <1>5, <1>6, <1>7, <1>8 DEF AccountTypes
<1>10. AccountsOK'
  <2>1. \A v \in Existing' : v \in Existing /\ v # u /\ v \in Users /\ users'[v] = users[v]
    BY <1>3 DEF Existing
  <2>2. \A s \in Subjects : links'[s] # 0 => links'[s] \in Existing'
    BY <1>3, <1>4 DEF AccountsOK
  <2>3. \A f \in Flows : sessions'[f] # NoSession =>
          sessions'[f].user \in Existing' /\ flows'[f].phase = "done"
    BY <1>3, <1>5, <1>6 DEF AccountsOK
  <2>4. \A c \in Browsers : jar'[c].flow \in 0 .. MaxFlows /\ request'[c].user \in 0 .. MaxUsers
    BY <1>7, <1>8 DEF CookieRecord, RequestRecord
  <2>5. QED
    BY <1>1, <2>1, <2>2, <2>3, <2>4 DEF AccountsOK
<1>11. FlowsKnow'
  BY <1>1, <1>6 DEF FlowsKnow, Under
<1>12. FlowsInOrder'
  <2>1. \A c \in Browsers : jar'[c].flow # 0 => jar[c].flow \in Flows
    BY <1>7 DEF AccountsOK, Flows
  <2>2. \A f \in Flows : flows[f].phase = "away" => flows[f].browser \in Browsers
    BY DEF FlowsKnow
  <2>3. QED
    BY <1>6, <1>7, <2>1, <2>2 DEF FlowsInOrder
<1>13. LinksLast'
  BY <1>3, <1>4, <1>6 DEF LinksLast, FlowsKnow
<1>14. ReadsHold'
  <2>1. CASE u \in Existing
    <3>1. \A f \in Flows : ~flows'[f].disturbed => ~Under(f) /\ flows'[f].phase = flows[f].phase
      BY <1>6, <2>1
    <3>2. QED
      BY <3>1 DEF ReadsHold, Under, Named
  <2>2. CASE u \notin Existing
    <3>1. users' = users /\ links' = links /\ flows' = flows
      BY <1>1, <1>2, <2>2 DEF AccountTypes, AccountsOK, Existing
    <3>2. QED
      BY <3>1 DEF ReadsHold, Existing, Holders
  <2>3. QED
    BY <2>1, <2>2
<1>15. RequestsKnow'
  BY <1>1, <1>8 DEF RequestsKnow, NoRequest, AccountTypes
<1>16. QED
  BY <1>3, <1>9, <1>10, <1>11, <1>12, <1>13, <1>14, <1>15 DEF u

\* What is kept of an account does not depend on the time or the addresses.
LEMMA AccountsAsTheyWere ==
  ASSUME AccountInv, AccountTypes',
         UNCHANGED <<users, issued, links, flows, sessions, jar, request>>
  PROVE  AccountInv'
<1> USE DEF AccountInv
<1>1. AccountsOK'
  BY DEF AccountsOK, Existing
<1>2. FlowsKnow' /\ FlowsInOrder' /\ RequestsKnow'
  BY DEF FlowsKnow, FlowsInOrder, RequestsKnow, Under
<1>3. LinksLast' /\ ReadsHold'
  BY DEF LinksLast, ReadsHold, Existing, Holders
<1>4. QED
  BY <1>1, <1>2, <1>3

LEMMA TickKeeps ==
  ASSUME AccountInv, Tick
  PROVE  AccountInv'
<1>1. /\ now' \in 0 .. MaxTime
      /\ UNCHANGED <<mailbox, users, issued, links, flows, sessions, jar, request>>
  BY AccountsAssumption DEF AccountInv, AccountTypes, Tick
<1>2. QED
  BY <1>1, AccountsAsTheyWere DEF AccountInv, AccountTypes

LEMMA MailboxMovesKeeps ==
  ASSUME AccountInv, NEW s \in Subjects, NEW e \in Emails, MailboxMoves(s, e)
  PROVE  AccountInv'
<1>1. /\ mailbox' \in [Subjects -> Emails]
      /\ UNCHANGED <<users, issued, links, flows, sessions, jar, request, now>>
  BY DEF AccountInv, AccountTypes, MailboxMoves
<1>2. QED
  BY <1>1, AccountsAsTheyWere DEF AccountInv, AccountTypes

LEMMA AccountStepKeeps ==
  ASSUME AccountInv, AccountStep
  PROVE  AccountInv'
BY BeginKeeps, AuthenticateKeeps, LogOutKeeps, SignInKeeps, MailboxMovesKeeps, TickKeeps
   DEF AccountStep

-----------------------------------------------------------------------------
(* Every step of a member or a scan keeps the invariant *)

\* No step of an account deletes one, and identifiers are given away for good.
LEMMA AccountStepCreates ==
  ASSUME AccountInv, AccountStep
  PROVE  /\ issued' \in Nat /\ issued \in Nat /\ issued' >= issued
         /\ \A u \in 1 .. issued' : users'[u] = NoEmail => u <= issued /\ users[u] = NoEmail
<1>1. /\ issued \in Nat /\ \A u \in 1 .. issued : u \in Users
      /\ users \in [Users -> Emails \cup {NoEmail}]
  BY AccountsAssumption DEF AccountInv, AccountTypes, Users
<1>2. CASE UNCHANGED <<users, issued>>
  BY <1>1, <1>2
<1>3. ASSUME NEW f \in Flows, RefreshUser(f)
      PROVE  issued' = issued /\ \A u \in 1 .. issued : users'[u] = NoEmail => users[u] = NoEmail
  <2>1. flows[f].email # NoEmail
    BY <1>3, AccountsAssumption DEF RefreshUser, AccountInv, FlowsKnow, Under, NoEmail
  <2>2. QED
    BY <1>1, <1>3, <2>1 DEF RefreshUser
<1>4. ASSUME NEW f \in Flows, CreateUser(f), ~UNCHANGED <<users, issued>>
      PROVE  /\ issued' = issued + 1
             /\ \A u \in 1 .. issued' : users'[u] = NoEmail => u <= issued /\ users[u] = NoEmail
  <2>1. flows[f].email # NoEmail
    BY <1>4, AccountsAssumption DEF CreateUser, AccountInv, FlowsKnow, Under, NoEmail
  <2>2. issued' = issued + 1 /\ users' = [users EXCEPT ![issued + 1] = flows[f].email]
        /\ issued + 1 \in Users
    BY <1>1, <1>4, AccountsAssumption DEF CreateUser, Users
  <2>3. QED
    BY <1>1, <2>1, <2>2
<1>5. \/ UNCHANGED <<users, issued>>
      \/ \E f \in Flows : RefreshUser(f) \/ CreateUser(f)
  BY DEF AccountStep, Begin, Authenticate, LogOut, SignIn, Callback, LookUpLink, LookUpEmail,
         RefreshLink, CreateLink, CreateSession, Break, MailboxMoves, Tick
<1>6. QED
  BY <1>1, <1>2, <1>3, <1>4, <1>5

\* The steps of members and scans, as the accounts see them.
LEMMA MembersKeepAccounts ==
  ASSUME AccountInv, (\E b \in Browsers : MemberStep(b)) \/ (\E u \in Users : ScanStep(u))
  PROVE  AccountInv'
<1>1. ASSUME UNCHANGED accounts PROVE AccountInv'
  BY <1>1, AccountsAsTheyWere DEF accounts, AccountInv, AccountTypes
<1>2. ASSUME NEW u \in Users, ScanStep(u) PROVE UNCHANGED accounts
  BY <1>2 DEF ScanStep, Publish, Refresh
<1>3. ASSUME NEW b \in Browsers, MemberStep(b) PROVE AccountInv'
  <2>1. CASE Answer(b) /\ UNCHANGED <<mailbox, users, issued, links, flows, sessions, jar, now>>
    BY <2>1, AnswerKeeps
  <2>2. CASE \E e \in Facts : LoadMark(b, e)
    BY <2>2, AnswerKeeps, MarkKeeps DEF LoadMark
  <2>3. CASE CommitDeletion(b)
    BY <2>3, DeleteUserKeeps DEF CommitDeletion
  <2>4. CASE CloseWalk(b) \/ DeleteCards(b) \/ DeleteEvents(b) \/ DeleteWatches(b)
    BY <2>4, <1>1 DEF CloseWalk, DeleteCards, DeleteEvents, DeleteWatches
  <2>5. CASE StartDeletion(b)
    <3>1. \/ UNCHANGED accounts
          \/ Answer(b) /\ UNCHANGED <<mailbox, users, issued, links, flows, sessions, jar, now>>
      BY <2>5 DEF StartDeletion, accounts
    <3>2. QED
      BY <3>1, <1>1, <2>1
  <2>6. CASE AbortDeletion(b)
    BY <2>1, <2>6 DEF AbortDeletion
  <2>7. QED
    BY <1>3, <2>1, <2>2, <2>3, <2>4, <2>5, <2>6
       DEF MemberStep, Deleting, StartWalk, NextPage, Watch, Unwatch, StoreMark, MarkAll, MarkCard
<1>4. QED
  BY <1>1, <1>2, <1>3

\* Following what moves does not end a walk.
LEMMA TrackKeeps ==
  ASSUME WalkTypes, Track
  PROVE  WalkTypes'
BY DEF WalkTypes, Track

\* A page is given to a walk, whose phase it sets.
LEMMA PageKeeps ==
  ASSUME NEW w, "phase" \in DOMAIN w
  PROVE  "phase" \in DOMAIN ReadPage(w) /\ ReadPage(w).phase \in {"more", "ended"}
BY DEF ReadPage

LEMMA WalksKeep ==
  ASSUME AccountInv, WalkTypes, NEW b \in Browsers, StartWalk(b) \/ NextPage(b) \/ CloseWalk(b)
  PROVE  WalkTypes'
<1> DEFINE Walk(w) == "phase" \in DOMAIN w /\ w.phase \in {"none", "more", "ended"}
<1>1. ASSUME NEW w, Walk(w), walks' = [walks EXCEPT ![b] = w] PROVE WalkTypes'
  BY <1>1 DEF WalkTypes
<1>2. CASE StartWalk(b)
  <2>1. PICK l \in ListingsOf(request[b].user), unread \in BOOLEAN :
          LET w == [NoWalk EXCEPT !.user = request[b].user, !.listing = l, !.unread = unread] IN
          walks' = [walks EXCEPT ![b] = ReadPage([w EXCEPT !.due = Listed(events, cards, w)])]
    BY <1>2 DEF StartWalk
  <2> DEFINE w == [NoWalk EXCEPT !.user = request[b].user, !.listing = l, !.unread = unread]
             v == [w EXCEPT !.due = Listed(events, cards, w)]
  <2>2. "phase" \in DOMAIN w
    BY DEF NoWalk
  <2>3. DOMAIN v = DOMAIN w
    OBVIOUS
  <2> HIDE DEF v, w
  <2>4. Walk(ReadPage(v))
    BY <2>2, <2>3, PageKeeps
  <2>5. walks' = [walks EXCEPT ![b] = ReadPage(v)]
    BY <2>1 DEF v, w
  <2>6. QED
    BY <1>1, <2>4, <2>5
<1>3. CASE NextPage(b)
  BY <1>1, <1>3, PageKeeps DEF NextPage, WalkTypes
<1>4. CASE CloseWalk(b)
  <2>1. Walk(NoWalk)
    BY DEF NoWalk
  <2>2. QED
    BY <1>1, <1>4, <2>1 DEF CloseWalk
<1>5. QED
  BY <1>2, <1>3, <1>4

FeedInv == FeedTypes /\ FeedsKnow /\ DeletionsSee /\ ErasureIsWhole

\* A deletion that is under way stays one of the same user.
Steady ==
  \A c \in Browsers : deletions[c].done # {} => request'[c].user = request[c].user

\* A request that is made or ends, of a browser that deletes nothing, is no matter.
LEMMA OthersAreSteady ==
  ASSUME AccountInv, NEW b \in Browsers, NEW r, request' = [request EXCEPT ![b] = r],
         deletions[b].done = {} \/ r.user = request[b].user
  PROVE  Steady
<1>1. \A c \in Browsers : request'[c] = IF c = b THEN r ELSE request[c]
  BY DEF AccountInv, AccountTypes
<1>2. QED
  BY <1>1 DEF Steady

LEMMA UnchangedIsSteady ==
  ASSUME UNCHANGED request
  PROVE  Steady
BY DEF Steady

\* No step of an account changes the request of a deletion.
LEMMA AccountStepIsSteady ==
  ASSUME AccountInv, DeletionsSee, AccountStep
  PROVE  Steady
<1>1. ASSUME NEW b \in Browsers, Authenticate(b) PROVE Steady
  <2>1. request[b].user = 0
    BY <1>1 DEF Authenticate, NoRequest
  <2>2. deletions[b].done = {}
    BY <2>1 DEF DeletionsSee, DeletionSees
  <2>3. PICK r : request' = [request EXCEPT ![b] = r]
    BY <1>1 DEF Authenticate
  <2>4. QED
    BY <2>2, <2>3, OthersAreSteady
<1>2. UNCHANGED request \/ \E b \in Browsers : Authenticate(b)
  BY DEF AccountStep, Begin, LogOut, SignIn, Callback, LookUpLink, LookUpEmail, RefreshUser,
         CreateUser, RefreshLink, CreateLink, CreateSession, Break, MailboxMoves, Tick
<1>3. QED
  BY <1>1, <1>2, UnchangedIsSteady

\* Nothing that a deletion has not seen is new to it.
LEMMA SeesNoMore ==
  ASSUME NEW c \in Browsers, NEW u, DeletionSees(c), deletions'[c] = deletions[c],
         deletions[c].done # {} =>
           /\ request[c].user = u /\ request'[c].user = u
           /\ CardRows(u)' \subseteq CardRows(u)
           /\ Stored(events', u) \subseteq Stored(events, u)
           /\ watches'[u] = "on" => watches[u] = "on"
  PROVE  DeletionSees(c)'
<1>1. CASE deletions[c].done = {}
  BY <1>1 DEF DeletionSees
<1>2. CASE deletions[c].done # {}
  BY <1>2 DEF DeletionSees, CardRows
<1>3. QED
  BY <1>1, <1>2

\* The rows of the cards depend on the cards and the husks alone.
LEMMA RowsAsTheyWere ==
  ASSUME UNCHANGED <<cards, husks>>, NEW u
  PROVE  CardRows(u)' = CardRows(u)
BY DEF CardRows

\* The Feed while accounts are made and used.
LEMMA FeedAsItWas ==
  ASSUME AccountInv, FeedInv, UNCHANGED <<feed, deletions, late>>, Steady,
         issued \in Nat, issued' \in Nat, issued' >= issued,
         \A u \in 1 .. issued' : users'[u] = NoEmail => u <= issued /\ users[u] = NoEmail
  PROVE  FeedInv'
<1> USE DEF FeedInv
<1>1. FeedTypes'
  BY DEF FeedTypes, EventRecord, DeletionRecord, feed
<1>2. FeedsKnow'
  BY AccountsAssumption DEF FeedsKnow, feed, Users
<1>3. \A u : CardRows(u)' = CardRows(u)
  BY DEF CardRows, feed
<1>4. ErasureIsWhole'
  BY <1>3 DEF ErasureIsWhole, Stored, feed
<1>5. DeletionsSee'
  BY DEF DeletionsSee, DeletionSees, Steady, Stored, CardRows, feed
<1>6. QED
  BY <1>1, <1>2, <1>4, <1>5

\* The times of events that are kept change.
LEMMA TimesKeep ==
  ASSUME AccountInv, FeedInv, Steady,
         UNCHANGED <<watches, scanned, cards, husks, deletions, late, users, issued>>,
         events' \in [Users \X Facts -> EventRecord],
         \A u \in Users, e \in Facts : events'[<<u, e>>].created = events[<<u, e>>].created,
         \A u \in Users, e \in Facts : events[<<u, e>>].created = 0 =>
                                         events'[<<u, e>>].read = events[<<u, e>>].read
  PROVE  FeedInv'
<1> USE DEF FeedInv
<1>1. FeedTypes'
  BY DEF FeedTypes
<1>2. FeedsKnow'
  BY DEF FeedsKnow
<1>3. \A u \in Users : Stored(events', u) = Stored(events, u)
  BY DEF Stored
<1>4. ErasureIsWhole'
  <2>1. \A u \in 1 .. issued : u \in Users
    BY AccountsAssumption DEF AccountInv, AccountTypes, Users
  <2>2. \A u : CardRows(u)' = CardRows(u)
    BY DEF CardRows
  <2>3. QED
    BY <1>3, <2>1, <2>2 DEF ErasureIsWhole
<1>5. ASSUME NEW c \in Browsers PROVE DeletionSees(c)'
  <2>1. PICK u : u = request[c].user
    OBVIOUS
  <2>2. deletions[c].done # {} => u \in Users /\ request'[c].user = u
    BY <2>1, AccountsAssumption
       DEF DeletionsSee, DeletionSees, AccountInv, AccountTypes, RequestRecord, Users, Steady
  <2>3. DeletionSees(c) /\ CardRows(u)' = CardRows(u)
    BY RowsAsTheyWere DEF DeletionsSee
  <2>4. QED
    BY <1>3, <2>1, <2>2, <2>3, SeesNoMore
<1>6. QED
  BY <1>1, <1>2, <1>4, <1>5 DEF DeletionsSee

\* Marking everything of a set, as a step of a request.
LEMMA MarkedReadEffect ==
  ASSUME AccountInv, FeedInv, NEW u, NEW S, events' = MarkedRead(u, S)
  PROVE  /\ events' \in [Users \X Facts -> EventRecord]
         /\ \A v \in Users, e \in Facts :
              /\ events'[<<v, e>>].created = events[<<v, e>>].created
              /\ events[<<v, e>>].created = 0 \/ events[<<v, e>>].read # 0 =>
                   events'[<<v, e>>].read = events[<<v, e>>].read
<1>1. /\ events \in [Users \X Facts -> EventRecord] /\ now + 1 \in 0 .. MaxTime + 1
  BY AccountsAssumption DEF AccountInv, AccountTypes, FeedInv, FeedTypes
<1>2. \A k \in Users \X Facts : events'[k] =
        IF k[1] = u /\ k[2] \in S /\ events[k].created # 0 /\ events[k].read = 0
        THEN [events[k] EXCEPT !.read = now + 1] ELSE events[k]
  BY DEF MarkedRead
<1>3. \A k \in Users \X Facts : LET row == [events[k] EXCEPT !.read = now + 1] IN
        row \in EventRecord /\ row.created = events[k].created
  BY <1>1 DEF EventRecord
<1>4. \A k \in Users \X Facts :
        /\ events'[k] \in EventRecord /\ events'[k].created = events[k].created
        /\ events[k].created = 0 \/ events[k].read # 0 => events'[k].read = events[k].read
  BY <1>1, <1>2, <1>3
<1>5. DOMAIN events' = Users \X Facts /\ events' = [k \in Users \X Facts |-> events'[k]]
  BY DEF MarkedRead
<1>6. QED
  BY <1>4, <1>5

\* The mark that was loaded before.
LEMMA StoreMarkEffect ==
  ASSUME AccountInv, FeedInv, NEW b \in Browsers, StoreMark(b)
  PROVE  /\ events' \in [Users \X Facts -> EventRecord]
         /\ \A v \in Users, e \in Facts :
              /\ events'[<<v, e>>].created = events[<<v, e>>].created
              /\ events[<<v, e>>].created = 0 => events'[<<v, e>>] = events[<<v, e>>]
              /\ events'[<<v, e>>].read # events[<<v, e>>].read =>
                   /\ events'[<<v, e>>].read # 0
                   /\ request[b].user = v /\ request[b].mark = e
<1> DEFINE u == request[b].user
           m == request[b].mark
           row == [events[<<u, m>>] EXCEPT !.read = now + 1]
<1>1. /\ events \in [Users \X Facts -> EventRecord]
      /\ now + 1 \in 0 .. MaxTime + 1 /\ now + 1 # 0
  BY AccountsAssumption DEF AccountInv, AccountTypes, FeedInv, FeedTypes
<1>2. u \in Users /\ m \in Facts
  BY AccountsAssumption DEF StoreMark, AccountInv, AccountTypes, RequestsKnow, RequestRecord, Users
<1>3. <<u, m>> \in Users \X Facts
  BY <1>2
<1>4. row \in EventRecord /\ row.created = events[<<u, m>>].created /\ row.read = now + 1
  BY <1>1, <1>3 DEF EventRecord
<1>5. events' = IF events[<<u, m>>].created = 0 THEN events
                ELSE [events EXCEPT ![<<u, m>>] = row]
  BY DEF StoreMark
<1> HIDE DEF row
<1>6. QED
  BY <1>1, <1>3, <1>4, <1>5

\* An answer to a browser that deletes nothing.
LEMMA AnswerIsSteady ==
  ASSUME AccountInv, NEW b \in Browsers, deletions[b].done = {} \/ deletions[b] = NoDeletion, Answer(b)
  PROVE  Steady
<1>1. deletions[b].done = {}
  BY DEF NoDeletion
<1>2. QED
  BY <1>1, OthersAreSteady DEF Answer

\* A page leaves the Feed alone.
LEMMA PagesKeepFeed ==
  ASSUME AccountInv, FeedInv, NEW b \in Browsers,
         \/ CloseWalk(b)
         \/ /\ deletions[b] = NoDeletion
            /\ StartWalk(b) \/ NextPage(b) \/ \E e \in Facts : LoadMark(b, e)
  PROVE  FeedInv'
<1>1. UNCHANGED <<users, issued, feed, deletions, late>>
  BY DEF StartWalk, NextPage, CloseWalk, LoadMark, accounts
<1>2. issued \in Nat
  BY AccountsAssumption DEF AccountInv, AccountTypes
<1>3. Steady
  <2>1. CASE CloseWalk(b)
    BY <2>1, UnchangedIsSteady DEF CloseWalk, accounts
  <2>2. CASE deletions[b] = NoDeletion
    <3>1. deletions[b].done = {}
      BY <2>2 DEF NoDeletion
    <3>2. ASSUME NEW e \in Facts, request' = [request EXCEPT ![b].mark = e] PROVE Steady
      BY <3>1, <3>2, OthersAreSteady
    <3>3. \/ UNCHANGED request \/ Answer(b)
          \/ \E e \in Facts : request' = [request EXCEPT ![b].mark = e]
      BY DEF StartWalk, NextPage, CloseWalk, LoadMark, accounts
    <3>4. QED
      BY <2>2, <3>2, <3>3, AnswerIsSteady, UnchangedIsSteady
  <2>3. QED
    BY <2>1, <2>2
<1>4. QED
  BY <1>1, <1>2, <1>3, FeedAsItWas

LEMMA MarksKeepFeed ==
  ASSUME AccountInv, FeedInv, NEW b \in Browsers, deletions[b] = NoDeletion,
         StoreMark(b) \/ MarkAll(b) \/ \E c \in Cards : MarkCard(b, c)
  PROVE  FeedInv'
<1>1. UNCHANGED <<watches, scanned, cards, husks, deletions, late, users, issued>>
  BY DEF StoreMark, MarkAll, MarkCard
<1>2. Steady
  BY AnswerIsSteady DEF StoreMark, MarkAll, MarkCard
<1>3. CASE StoreMark(b)
  BY <1>1, <1>2, <1>3, StoreMarkEffect, TimesKeep
<1>4. CASE MarkAll(b)
  BY <1>1, <1>2, <1>4, MarkedReadEffect, TimesKeep DEF MarkAll
<1>5. CASE \E c \in Cards : MarkCard(b, c)
  BY <1>1, <1>2, <1>5, MarkedReadEffect, TimesKeep DEF MarkCard
<1>6. QED
  BY <1>3, <1>4, <1>5

\* The event keeps its creation and its mark.
LEMMA RefreshEffect ==
  ASSUME FeedInv, NEW u \in Users, NEW e \in Facts, NEW d \in Dates, Refresh(u, e, d)
  PROVE  /\ events' \in [Users \X Facts -> EventRecord]
         /\ \A v \in Users, g \in Facts :
              /\ events'[<<v, g>>].created = events[<<v, g>>].created
              /\ events'[<<v, g>>].read = events[<<v, g>>].read
<1> DEFINE row == [events[<<u, e>>] EXCEPT !.published = d]
<1>1. events \in [Users \X Facts -> EventRecord] /\ <<u, e>> \in Users \X Facts
  BY DEF FeedInv, FeedTypes
<1>2. /\ row \in EventRecord /\ row.created = events[<<u, e>>].created
      /\ row.read = events[<<u, e>>].read
  BY <1>1 DEF EventRecord
<1>3. events' = [events EXCEPT ![<<u, e>>] = row]
  BY <1>1 DEF Refresh, Refreshed
<1> HIDE DEF row
<1>4. QED
  BY <1>1, <1>2, <1>3

LEMMA RefreshKeepsFeed ==
  ASSUME AccountInv, FeedInv, NEW u \in Users, NEW e \in Facts, NEW d \in Dates, Refresh(u, e, d)
  PROVE  FeedInv'
<1>1. UNCHANGED <<watches, scanned, cards, husks, deletions, late, users, issued, request>>
  BY DEF Refresh, accounts
<1>2. QED
  BY <1>1, RefreshEffect, TimesKeep, UnchangedIsSteady

\* What a deletion under way misses, and what is late.
LEMMA StoresEffect ==
  ASSUME FeedInv, NEW u \in Users, NEW T \in SUBSET Tables, Stores(u, T)
  PROVE  /\ late \subseteq late' /\ late' \subseteq Users \X Tables
         /\ u \notin Existing => \A t \in T : <<u, t>> \in late'
         /\ deletions' \in [Browsers -> DeletionRecord]
         /\ \A c \in Browsers :
              LET d == deletions[c]  e == deletions'[c] IN
              /\ e.done = d.done /\ e.cards = d.cards /\ e.events = d.events /\ e.watch = d.watch
              /\ request[c].user # u => e = d
              /\ d.missed \subseteq e.missed
              /\ request[c].user = u => T \cap d.done \subseteq e.missed
<1>1. late \subseteq late' /\ late' \subseteq Users \X Tables
      /\ (u \notin Existing => \A t \in T : <<u, t>> \in late')
  BY DEF Stores, FeedInv, FeedTypes
<1>2. \A c \in Browsers : deletions[c] \in DeletionRecord
  BY DEF FeedInv, FeedTypes
<1>3. deletions' = [c \in Browsers |->
        IF request[c].user # u THEN deletions[c]
        ELSE [deletions[c] EXCEPT !.missed = deletions[c].missed \cup (T \cap deletions[c].done)]]
  BY DEF Stores
<1>4. ASSUME NEW c \in Browsers
      PROVE  LET d == deletions[c]  e == deletions'[c] IN
             /\ e \in DeletionRecord
             /\ e.done = d.done /\ e.cards = d.cards /\ e.events = d.events /\ e.watch = d.watch
             /\ request[c].user # u => e = d
             /\ d.missed \subseteq e.missed
             /\ request[c].user = u => T \cap d.done \subseteq e.missed
  <2> DEFINE more == deletions[c].missed \cup (T \cap deletions[c].done)
  <2>1. more \in SUBSET Tables /\ deletions[c].missed \subseteq more /\ T \cap deletions[c].done \subseteq more
    BY <1>2 DEF DeletionRecord
  <2>2. deletions'[c] = IF request[c].user # u THEN deletions[c]
                        ELSE [deletions[c] EXCEPT !.missed = more]
    BY <1>3
  <2> HIDE DEF more
  <2>3. QED
    BY <1>2, <2>1, <2>2 DEF DeletionRecord
<1>5. deletions' \in [Browsers -> DeletionRecord]
  BY <1>3, <1>4
<1>6. QED
  BY <1>1, <1>4, <1>5

\* What is published is new, or there already.
LEMMA PublishEffect ==
  ASSUME AccountInv, FeedInv, NEW u \in Users, Publish(u)
  PROVE  /\ events' \in [Users \X Facts -> EventRecord]
         /\ cards' \in [Users \X Cards -> 0 .. MaxTime + 1]
         /\ \A v \in Users, e \in Facts :
              /\ events[<<v, e>>].created # 0 \/ v # u => events'[<<v, e>>] = events[<<v, e>>]
              /\ events'[<<v, e>>].created = 0 => events'[<<v, e>>] = events[<<v, e>>]
         /\ \A v \in Users \ {u}, c \in Cards : cards'[<<v, c>>] = cards[<<v, c>>]
         /\ \E T \in SUBSET Tables :
              /\ Stores(u, T)
              /\ \A c \in Cards : cards'[<<u, c>>] # 0 => cards[<<u, c>>] # 0 \/ "card" \in T
              /\ \A e \in Facts : events'[<<u, e>>].created # 0 =>
                                    events[<<u, e>>].created # 0 \/ "event" \in T
<1>1. /\ events \in [Users \X Facts -> EventRecord]
      /\ cards \in [Users \X Cards -> 0 .. MaxTime + 1]
      /\ now + 1 \in 0 .. MaxTime + 1 /\ now + 1 # 0
  BY AccountsAssumption DEF AccountInv, AccountTypes, FeedInv, FeedTypes
<1> DEFINE row(e) == [published |-> FirstDate[e], created |-> now + 1, read |-> 0]
           next == Scans[scanned[u] + 1]
           facts == UNION {Members[c] \cup UNION {Referenced[r] : r \in Members[c] \cap Released}
                             : c \in next}
           new == facts \ Stored(events, u)
           T == {t \in {"card", "event"} : /\ t = "card" => next # {}
                                           /\ t = "event" => new # {}}
<1>2. /\ events' = [k \in Users \X Facts |->
                      IF k[1] = u /\ k[2] \in new THEN row(k[2]) ELSE events[k]]
      /\ cards' = [k \in Users \X Cards |->
                     IF k[1] = u /\ k[2] \in next THEN now + 1 ELSE cards[k]]
      /\ Stores(u, T)
  BY Zenon DEF Publish
<1>3. T \in SUBSET Tables /\ (next # {} => "card" \in T) /\ (new # {} => "event" \in T)
  BY DEF Tables
<1>4. \A e \in Facts : e \in new => events[<<u, e>>].created = 0
  BY DEF Stored
<1> HIDE DEF next, facts, new, T
<1>5. \A e \in Facts : row(e) \in EventRecord /\ row(e).created # 0
  <2>1. \A e \in Facts : FirstDate[e] \in Dates
    BY FeedReadingAssumption
  <2>2. 0 \in 0 .. MaxTime + 1
    BY AccountsAssumption
  <2>3. QED
    BY <1>1, <2>1, <2>2 DEF EventRecord
<1> HIDE DEF row
<1>6. ASSUME NEW v \in Users, NEW e \in Facts
      PROVE  /\ events'[<<v, e>>] = IF v = u /\ e \in new THEN row(e) ELSE events[<<v, e>>]
             /\ events'[<<v, e>>] \in EventRecord
  <2>1. <<v, e>> \in Users \X Facts /\ <<v, e>>[1] = v /\ <<v, e>>[2] = e
    OBVIOUS
  <2>2. events'[<<v, e>>] = IF v = u /\ e \in new THEN row(e) ELSE events[<<v, e>>]
    BY <1>2, <2>1
  <2>3. QED
    BY <1>1, <1>5, <2>1, <2>2
<1>7. events' \in [Users \X Facts -> EventRecord]
  BY <1>1, <1>2, <1>5
<1>8. \A v \in Users, e \in Facts :
        /\ events[<<v, e>>].created # 0 \/ v # u => events'[<<v, e>>] = events[<<v, e>>]
        /\ events'[<<v, e>>].created = 0 => events'[<<v, e>>] = events[<<v, e>>]
  BY <1>4, <1>5, <1>6
<1>9. /\ cards' \in [Users \X Cards -> 0 .. MaxTime + 1]
      /\ \A v \in Users \ {u}, c \in Cards : cards'[<<v, c>>] = cards[<<v, c>>]
  BY <1>1, <1>2
<1>10. \A c \in Cards : cards'[<<u, c>>] # 0 => cards[<<u, c>>] # 0 \/ "card" \in T
  BY <1>1, <1>2, <1>3
<1>11. \A e \in Facts : events'[<<u, e>>].created # 0 =>
                          events[<<u, e>>].created # 0 \/ "event" \in T
  BY <1>3, <1>6
<1>12. \E t \in SUBSET Tables :
         /\ Stores(u, t)
         /\ \A c \in Cards : cards'[<<u, c>>] # 0 => cards[<<u, c>>] # 0 \/ "card" \in t
         /\ \A e \in Facts : events'[<<u, e>>].created # 0 =>
                               events[<<u, e>>].created # 0 \/ "event" \in t
  BY <1>2, <1>3, <1>10, <1>11
<1>13. QED
  BY <1>7, <1>8, <1>9, <1>12

\* What is added to a table is added to what is late and missed there.
LEMMA StoredIsMissed ==
  ASSUME AccountInv, FeedInv, NEW u \in Users, NEW T \in SUBSET Tables, Stores(u, T), Steady,
         NEW c \in Browsers,
         \A v \in Users : v # u =>
           /\ CardRows(v)' = CardRows(v) /\ Stored(events', v) = Stored(events, v)
           /\ watches'[v] = watches[v],
         CardRows(u)' \subseteq CardRows(u) \/ "card" \in T,
         Stored(events', u) \subseteq Stored(events, u) \/ "event" \in T,
         watches'[u] = "on" => watches[u] = "on" \/ "watch" \in T
  PROVE  DeletionSees(c)'
<1>1. CASE deletions[c].done = {}
  BY <1>1, StoresEffect DEF DeletionSees
<1>2. CASE deletions[c].done # {}
  <2>1. PICK v : v = request[c].user
    OBVIOUS
  <2>2. v \in Users /\ v # 0 /\ request'[c].user = v
    BY <1>2, <2>1, AccountsAssumption
       DEF FeedInv, DeletionsSee, DeletionSees, AccountInv, AccountTypes, RequestRecord, Users,
           Steady
  <2>3. DeletionSees(c)
    BY DEF FeedInv, DeletionsSee
  <2>4. /\ "card" \in deletions[c].done =>
             CardRows(v) \subseteq deletions[c].cards \/ "card" \in deletions[c].missed
        /\ "event" \in deletions[c].done =>
             Stored(events, v) \subseteq deletions[c].events \/ "event" \in deletions[c].missed
        /\ "watch" \in deletions[c].done /\ watches[v] = "on" =>
             deletions[c].watch \/ "watch" \in deletions[c].missed
    BY <1>2, <2>1, <2>3 DEF DeletionSees
  <2>5. LET d == deletions[c]  e == deletions'[c] IN
        /\ e.done = d.done /\ e.cards = d.cards /\ e.events = d.events /\ e.watch = d.watch
        /\ v # u => e = d
        /\ d.missed \subseteq e.missed
        /\ v = u => T \cap d.done \subseteq e.missed
    BY <2>1, StoresEffect
  <2>6. /\ "card" \in deletions[c].done =>
             CardRows(v)' \subseteq deletions[c].cards \/ "card" \in deletions'[c].missed
        /\ "event" \in deletions[c].done =>
             Stored(events', v) \subseteq deletions[c].events \/ "event" \in deletions'[c].missed
        /\ "watch" \in deletions[c].done /\ watches'[v] = "on" =>
             deletions[c].watch \/ "watch" \in deletions'[c].missed
    <3>1. CASE v = u
      BY <2>4, <2>5, <3>1
    <3>2. CASE v # u
      <4>1. /\ CardRows(v)' = CardRows(v) /\ Stored(events', v) = Stored(events, v)
            /\ watches'[v] = watches[v]
        BY <2>2, <3>2
      <4>2. QED
        BY <2>4, <2>5, <3>2, <4>1
    <3>3. QED
      BY <3>1, <3>2
  <2>7. QED
    BY <2>2, <2>5, <2>6 DEF DeletionSees, CardRows
<1>3. QED
  BY <1>1, <1>2

LEMMA PublishKeepsFeed ==
  ASSUME AccountInv, FeedInv, NEW u \in Users, Publish(u)
  PROVE  FeedInv'
<1> USE DEF FeedInv
<1>1. /\ u <= issued /\ scanned[u] < Len(Scans) /\ scanned' = [scanned EXCEPT ![u] = @ + 1]
      /\ UNCHANGED <<users, issued, watches, husks, request>>
  BY AccountsAssumption DEF Publish, FeedsKnow, accounts, AccountInv, AccountTypes, Users
<1>2. Len(Scans) \in Nat
  BY FeedReadingAssumption
<1>3. PICK T \in SUBSET Tables :
        /\ Stores(u, T)
        /\ \A c \in Cards : cards'[<<u, c>>] # 0 => cards[<<u, c>>] # 0 \/ "card" \in T
        /\ \A e \in Facts : events'[<<u, e>>].created # 0 =>
                              events[<<u, e>>].created # 0 \/ "event" \in T
  BY PublishEffect
<1>4. /\ late \subseteq late' /\ late' \subseteq Users \X Tables
      /\ u \notin Existing => \A t \in T : <<u, t>> \in late'
      /\ deletions' \in [Browsers -> DeletionRecord]
  BY <1>3, StoresEffect
<1>5. FeedTypes'
  <2>1. scanned' \in [Users -> 0 .. Len(Scans)]
    BY <1>1, <1>2 DEF FeedTypes
  <2>2. QED
    BY <1>1, <1>4, <2>1, PublishEffect DEF FeedTypes
<1>6. FeedsKnow'
  <2>1. ASSUME NEW w \in Users, w > issued
        PROVE  /\ watches'[w] = "never"
               /\ \A e \in Facts : events'[<<w, e>>].created = 0
               /\ \A c \in Cards : cards'[<<w, c>>] = 0
    <3>1. w # u
      BY <1>1, <2>1 DEF AccountInv, AccountTypes, Users
    <3>2. /\ watches[w] = "never"
          /\ \A e \in Facts : events[<<w, e>>].created = 0
          /\ \A c \in Cards : cards[<<w, c>>] = 0
      BY <2>1 DEF FeedsKnow
    <3>3. \A e \in Facts : events'[<<w, e>>].created = 0
      BY <3>1, <3>2, PublishEffect
    <3>4. \A c \in Cards : cards'[<<w, c>>] = 0
      BY <3>1, <3>2, PublishEffect
    <3>5. watches' = watches
      BY <1>1
    <3>6. QED
      BY <3>2, <3>3, <3>4, <3>5
  <2>2. \A w \in Users, e \in Facts : events'[<<w, e>>].created = 0 => events'[<<w, e>>].read = 0
    BY PublishEffect DEF FeedsKnow
  <2>3. issued' = issued
    BY <1>1
  <2>4. QED
    BY <2>1, <2>2, <2>3 DEF FeedsKnow
<1>7. /\ \A v \in Users : v # u =>
           CardRows(v)' = CardRows(v) /\ Stored(events', v) = Stored(events, v)
      /\ CardRows(u)' \subseteq CardRows(u) \/ "card" \in T
      /\ Stored(events', u) \subseteq Stored(events, u) \/ "event" \in T
  <2>1. ASSUME NEW v \in Users, v # u
        PROVE CardRows(v)' = CardRows(v) /\ Stored(events', v) = Stored(events, v)
    <3>1. /\ \A c \in Cards : cards'[<<v, c>>] = cards[<<v, c>>]
          /\ \A e \in Facts : events'[<<v, e>>] = events[<<v, e>>]
      BY <2>1, PublishEffect
    <3>2. QED
      BY <1>1, <3>1 DEF CardRows, Stored
  <2>2. CardRows(u)' \subseteq CardRows(u) \/ "card" \in T
    BY <1>1, <1>3 DEF CardRows
  <2>3. Stored(events', u) \subseteq Stored(events, u) \/ "event" \in T
    BY <1>3 DEF Stored
  <2>4. QED
    BY <2>1, <2>2, <2>3
<1>8. ErasureIsWhole'
  <2>1. ASSUME NEW v \in 1 .. issued, users[v] = NoEmail
        PROVE  /\ watches[v] = "on" => <<v, "watch">> \in late'
               /\ Stored(events', v) # {} => <<v, "event">> \in late'
               /\ CardRows(v)' # {} => <<v, "card">> \in late'
    <3>1. v \in Users /\ v \notin Existing
      BY <2>1, AccountsAssumption DEF AccountInv, AccountTypes, Users, Existing
    <3>2. /\ watches[v] = "on" => <<v, "watch">> \in late
          /\ Stored(events, v) # {} => <<v, "event">> \in late
          /\ CardRows(v) # {} => <<v, "card">> \in late
      BY <2>1 DEF ErasureIsWhole
    <3>3. CASE v = u
      BY <1>4, <1>7, <3>1, <3>2, <3>3
    <3>4. CASE v # u
      BY <1>4, <1>7, <3>1, <3>2, <3>4
    <3>5. QED
      BY <3>3, <3>4
  <2>2. QED
    BY <1>1, <2>1 DEF ErasureIsWhole, CardRows
<1>9. DeletionsSee'
  <2>1. Steady
    BY <1>1, UnchangedIsSteady
  <2>2. ASSUME NEW c \in Browsers PROVE DeletionSees(c)'
    BY <1>1, <1>3, <1>7, <2>1, StoredIsMissed
  <2>3. QED
    BY <2>2 DEF DeletionsSee
<1>10. QED
  BY <1>5, <1>6, <1>8, <1>9

\* A watch begins or ends, and the Feed is left alone.
LEMMA WatchingKeepsFeed ==
  ASSUME AccountInv, FeedInv, NEW b \in Browsers, deletions[b] = NoDeletion, Watch(b) \/ Unwatch(b)
  PROVE  FeedInv'
<1> USE DEF FeedInv
<1> DEFINE u == request[b].user
<1>1. /\ UNCHANGED <<users, issued, scanned, events, cards, husks>>
      /\ u # 0
  BY DEF Watch, Unwatch, bounds
<1>2. u \in Users /\ u <= issued
  BY <1>1, AccountsAssumption DEF AccountInv, AccountTypes, RequestRecord, RequestsKnow, Users
<1>3. /\ watches' \in [Users -> {"never", "on", "off"}]
      /\ \A v \in Users \ {u} : watches'[v] = watches[v]
      /\ \/ UNCHANGED <<deletions, late>> /\ (watches'[u] = "on" => watches[u] = "on")
         \/ Stores(u, {"watch"})
  BY <1>2 DEF Watch, Unwatch, FeedTypes
<1>4. Steady
  BY AnswerIsSteady DEF Watch, Unwatch
<1>5. /\ \A v : CardRows(v)' = CardRows(v)
      /\ \A v : Stored(events', v) = Stored(events, v)
  BY <1>1 DEF CardRows
<1> HIDE DEF u
<1>6. {"watch"} \in SUBSET Tables
  BY DEF Tables
<1>7. /\ late \subseteq late' /\ late' \subseteq Users \X Tables
      /\ deletions' \in [Browsers -> DeletionRecord]
      /\ watches'[u] = "on" => watches[u] = "on" \/ u \in Existing \/ <<u, "watch">> \in late'
  <2>1. CASE UNCHANGED <<deletions, late>> /\ (watches'[u] = "on" => watches[u] = "on")
    BY <2>1 DEF FeedTypes
  <2>2. CASE Stores(u, {"watch"})
    BY <1>2, <1>6, <2>2, StoresEffect
  <2>3. QED
    BY <1>3, <2>1, <2>2
<1>8. FeedTypes'
  BY <1>1, <1>3, <1>7 DEF FeedTypes
<1>9. FeedsKnow'
  <2>1. \A w \in Users : w > issued => w # u
    BY <1>2 DEF AccountInv, AccountTypes, Users
  <2>2. QED
    BY <1>1, <1>3, <2>1 DEF FeedsKnow
<1>10. ErasureIsWhole'
  <2>1. ASSUME NEW w \in 1 .. issued, users[w] = NoEmail
        PROVE  /\ watches'[w] = "on" => <<w, "watch">> \in late'
               /\ Stored(events, w) # {} => <<w, "event">> \in late'
               /\ CardRows(w) # {} => <<w, "card">> \in late'
    <3>1. w \in Users /\ w \notin Existing
      BY <2>1, AccountsAssumption DEF AccountInv, AccountTypes, Users, Existing
    <3>2. watches'[w] = "on" => <<w, "watch">> \in late'
      BY <1>3, <1>7, <2>1, <3>1 DEF ErasureIsWhole
    <3>3. QED
      BY <1>7, <2>1, <3>2 DEF ErasureIsWhole
  <2>2. QED
    BY <1>1, <1>5, <2>1 DEF ErasureIsWhole
<1>11. ASSUME NEW c \in Browsers PROVE DeletionSees(c)'
  <2>1. CASE UNCHANGED <<deletions, late>> /\ (watches'[u] = "on" => watches[u] = "on")
    <3>1. PICK v : v = request[c].user
      OBVIOUS
    <3>2. DeletionSees(c) /\ (deletions[c].done # {} => v \in Users /\ request'[c].user = v)
      BY <1>4, <3>1, AccountsAssumption
         DEF DeletionsSee, DeletionSees, AccountInv, AccountTypes, RequestRecord, Users, Steady
    <3>3. v \in Users => (watches'[v] = "on" => watches[v] = "on")
      BY <1>3, <2>1
    <3>4. CardRows(v)' = CardRows(v) /\ Stored(events', v) = Stored(events, v)
      BY <1>5
    <3>5. QED
      BY <2>1, <3>1, <3>2, <3>3, <3>4, SeesNoMore
  <2>2. CASE Stores(u, {"watch"})
    <3>1. \A v \in Users : v # u => watches'[v] = watches[v]
      BY <1>3
    <3>2. "watch" \in {"watch"}
      OBVIOUS
    <3>3. QED
      BY <1>2, <1>4, <1>5, <1>6, <2>2, <3>1, <3>2, StoredIsMissed
  <2>3. QED
    BY <1>3, <2>1, <2>2
<1>12. QED
  BY <1>8, <1>9, <1>10, <1>11 DEF DeletionsSee

\* A statement of a deletion that changes nothing for the others yet.
Preparing(b) ==
  \/ deletions[b] = NoDeletion /\ StartDeletion(b)
  \/ DeleteCards(b) \/ DeleteEvents(b) \/ DeleteWatches(b) \/ AbortDeletion(b)

\* It sees all there is in its table, or the deletion is over.
LEMMA PreparingSees ==
  ASSUME AccountInv, FeedInv, NEW b \in Browsers, Preparing(b)
  PROVE  /\ UNCHANGED <<users, issued, feed, late, walks>>
         /\ \A c \in Browsers \ {b} : deletions'[c] = deletions[c] /\ request'[c] = request[c]
         /\ deletions' \in [Browsers -> DeletionRecord]
         /\ DeletionSees(b)'
<1> USE DEF FeedInv
<1>1. UNCHANGED <<users, issued, feed, late, walks>>
  BY DEF Preparing, StartDeletion, DeleteCards, DeleteEvents, DeleteWatches, AbortDeletion, accounts
<1>2. /\ deletions \in [Browsers -> DeletionRecord] /\ deletions[b] \in DeletionRecord
      /\ request \in [Browsers -> RequestRecord] /\ DeletionSees(b)
  BY DEF FeedTypes, AccountInv, AccountTypes, DeletionsSee
<1> DEFINE d == deletions[b]
           u == request[b].user
<1>3. \A v : CardRows(v)' = CardRows(v) /\ Stored(events', v) = Stored(events, v)
  BY <1>1 DEF CardRows, feed
<1>4. ASSUME NEW r \in DeletionRecord, deletions' = [deletions EXCEPT ![b] = r],
             UNCHANGED request \/ Answer(b),
             r.done # {} =>
               /\ UNCHANGED request /\ u # 0
               /\ "card" \in r.done => CardRows(u) \subseteq r.cards \/ "card" \in r.missed
               /\ "event" \in r.done => Stored(events, u) \subseteq r.events \/ "event" \in r.missed
               /\ "watch" \in r.done /\ watches[u] = "on" => r.watch \/ "watch" \in r.missed
      PROVE  /\ \A c \in Browsers \ {b} : deletions'[c] = deletions[c] /\ request'[c] = request[c]
             /\ deletions' \in [Browsers -> DeletionRecord]
             /\ DeletionSees(b)'
  <2>1. deletions'[b] = r /\ deletions' \in [Browsers -> DeletionRecord]
        /\ \A c \in Browsers \ {b} : deletions'[c] = deletions[c]
    BY <1>2, <1>4
  <2>2. \A c \in Browsers \ {b} : request'[c] = request[c]
    BY <1>2, <1>4 DEF Answer
  <2>3. CASE r.done = {}
    BY <2>1, <2>2, <2>3 DEF DeletionSees
  <2>4. CASE r.done # {}
    <3>1. PICK v : v = u /\ request'[b].user = v
      BY <1>4, <2>4
    <3>2. CardRows(v)' = CardRows(v) /\ Stored(events', v) = Stored(events, v) /\ watches' = watches
      BY <1>1, <1>3 DEF feed
    <3>3. /\ v # 0
          /\ "card" \in r.done => CardRows(v)' \subseteq r.cards \/ "card" \in r.missed
          /\ "event" \in r.done => Stored(events', v) \subseteq r.events \/ "event" \in r.missed
          /\ "watch" \in r.done /\ watches'[v] = "on" => r.watch \/ "watch" \in r.missed
      BY <1>4, <2>4, <3>1, <3>2
    <3>4. deletions'[b] = r /\ request'[b].user = v
      BY <2>1, <3>1
    <3>5. DeletionSees(b)'
      BY <3>3, <3>4 DEF DeletionSees, CardRows
    <3>6. QED
      BY <2>1, <2>2, <3>5
  <2>5. QED
    BY <2>1, <2>2, <2>3, <2>4
<1>5. NoDeletion \in DeletionRecord /\ NoDeletion.done = {}
  BY DEF NoDeletion, DeletionRecord
<1>6. CASE deletions[b] = NoDeletion /\ StartDeletion(b)
  <2>1. CASE UNCHANGED deletions /\ Answer(b)
    <3>1. deletions' = [deletions EXCEPT ![b] = NoDeletion]
      BY <1>2, <1>6, <2>1
    <3>2. QED
      BY <1>1, <1>4, <1>5, <2>1, <3>1
  <2>2. CASE deletions' = [deletions EXCEPT ![b].done = {"user"}] /\ UNCHANGED request
    <3> DEFINE r == [d EXCEPT !.done = {"user"}]
    <3>1. r \in DeletionRecord /\ r.done = {"user"} /\ u # 0
      BY <1>2, <1>6 DEF DeletionRecord, StartDeletion
    <3>2. deletions' = [deletions EXCEPT ![b] = r]
      BY <2>2
    <3> HIDE DEF r
    <3>3. QED
      BY <1>1, <1>4, <2>2, <3>1, <3>2
  <2>3. QED
    BY <1>6, <2>1, <2>2 DEF StartDeletion
<1>7. CASE DeleteCards(b)
  <2> DEFINE r == [d EXCEPT !.done = {"user", "card"}, !.cards = CardRows(u)]
  <2>1. CardRows(u) \subseteq Cards
    BY DEF CardRows
  <2>2. /\ r \in DeletionRecord /\ r.done = {"user", "card"} /\ r.cards = CardRows(u)
    BY <1>2, <2>1 DEF DeletionRecord, Tables
  <2>3. u # 0
    BY <1>2, <1>7 DEF DeleteCards, DeletionSees
  <2>4. deletions' = [deletions EXCEPT ![b] = r] /\ UNCHANGED request
    BY <1>7 DEF DeleteCards, accounts
  <2> HIDE DEF r
  <2>5. QED
    BY <1>1, <1>4, <2>2, <2>3, <2>4
<1>8. CASE DeleteEvents(b)
  <2> DEFINE r == [d EXCEPT !.done = {"user", "card", "event"}, !.events = Stored(events, u)]
  <2>1. Stored(events, u) \subseteq Facts
    BY DEF Stored
  <2>2. /\ r \in DeletionRecord /\ r.done = {"user", "card", "event"}
        /\ r.events = Stored(events, u) /\ r.cards = d.cards /\ r.missed = d.missed
    BY <1>2, <2>1 DEF DeletionRecord, Tables
  <2>3. u # 0 /\ (CardRows(u) \subseteq d.cards \/ "card" \in d.missed)
    BY <1>2, <1>8 DEF DeleteEvents, DeletionSees
  <2>4. deletions' = [deletions EXCEPT ![b] = r] /\ UNCHANGED request
    BY <1>8 DEF DeleteEvents, accounts
  <2> HIDE DEF r
  <2>5. QED
    BY <1>1, <1>4, <2>2, <2>3, <2>4
<1>9. CASE DeleteWatches(b)
  <2> DEFINE there == watches[u] = "on"
             r == [d EXCEPT !.done = {"user"} \cup Tables, !.watch = there]
  <2>1. there \in BOOLEAN
    OBVIOUS
  <2>2. deletions' = [deletions EXCEPT ![b] = r] /\ UNCHANGED request
    BY <1>9 DEF DeleteWatches, accounts
  <2>3. watches[u] = "on" => there
    OBVIOUS
  <2> HIDE DEF there
  <2>4. /\ r \in DeletionRecord /\ r.done = {"user"} \cup Tables /\ r.watch = there
        /\ r.cards = d.cards /\ r.events = d.events /\ r.missed = d.missed
    BY <1>2, <2>1 DEF DeletionRecord
  <2>5. /\ u # 0 /\ (CardRows(u) \subseteq d.cards \/ "card" \in d.missed)
        /\ Stored(events, u) \subseteq d.events \/ "event" \in d.missed
    BY <1>2, <1>9 DEF DeleteWatches, DeletionSees
  <2> HIDE DEF r
  <2>6. QED
    BY <1>1, <1>4, <2>2, <2>3, <2>4, <2>5
<1>10. CASE AbortDeletion(b)
  BY <1>1, <1>4, <1>5, <1>10 DEF AbortDeletion
<1>11. QED
  BY <1>6, <1>7, <1>8, <1>9, <1>10 DEF Preparing

LEMMA PreparingKeepsFeed ==
  ASSUME AccountInv, FeedInv, NEW b \in Browsers, Preparing(b)
  PROVE  FeedInv'
<1> USE DEF FeedInv
<1>1. /\ UNCHANGED <<users, issued, feed, late>>
      /\ \A c \in Browsers \ {b} : deletions'[c] = deletions[c] /\ request'[c] = request[c]
      /\ deletions' \in [Browsers -> DeletionRecord] /\ DeletionSees(b)'
  BY PreparingSees
<1>2. FeedTypes'
  BY <1>1 DEF FeedTypes, feed
<1>3. FeedsKnow'
  BY <1>1 DEF FeedsKnow, feed
<1>4. \A v : CardRows(v)' = CardRows(v) /\ Stored(events', v) = Stored(events, v)
  BY <1>1 DEF CardRows, feed
<1>5. ErasureIsWhole'
  BY <1>1, <1>4 DEF ErasureIsWhole, feed
<1>6. ASSUME NEW c \in Browsers PROVE DeletionSees(c)'
  <2>1. PICK v : v = request[c].user
    OBVIOUS
  <2>2. CASE c # b
    <3>1. DeletionSees(c) /\ deletions'[c] = deletions[c] /\ request'[c].user = v
          /\ CardRows(v)' = CardRows(v) /\ Stored(events', v) = Stored(events, v)
          /\ watches' = watches
      BY <1>1, <1>4, <2>1, <2>2 DEF DeletionsSee, feed
    <3>2. QED
      BY <2>1, <3>1, SeesNoMore
  <2>3. QED
    BY <1>1, <2>2
<1>7. QED
  BY <1>2, <1>3, <1>5, <1>6 DEF DeletionsSee

\* What the statements of a deletion d have seen of the user u goes, and nothing of
\* another.
Committed(u, d) ==
  /\ u \in Users /\ u <= issued /\ users' = [users EXCEPT ![u] = NoEmail]
  /\ UNCHANGED <<issued, scanned>>
  /\ watches' \in [Users -> {"never", "on", "off"}]
  /\ events' \in [Users \X Facts -> EventRecord]
  /\ cards' \in [Users \X Cards -> 0 .. MaxTime + 1]
  /\ husks' \subseteq Users \X Cards
  /\ \A v \in Users \ {u} :
       /\ watches'[v] = watches[v]
       /\ \A e \in Facts : events'[<<v, e>>] = events[<<v, e>>]
       /\ \A c \in Cards : cards'[<<v, c>>] = cards[<<v, c>>]
       /\ CardRows(v)' = CardRows(v)
  /\ watches'[u] = IF d.watch THEN "off" ELSE watches[u]
  /\ \A e \in Facts : events'[<<u, e>>] = IF e \in d.events THEN NoEvent
                                          ELSE events[<<u, e>>]
  /\ \A c \in Cards : cards'[<<u, c>>] = 0 \/ cards'[<<u, c>>] = cards[<<u, c>>]
  /\ CardRows(u)' \subseteq CardRows(u) \ d.cards

LEMMA CommitEffect ==
  ASSUME AccountInv, FeedInv, NEW b \in Browsers, CommitDeletion(b),
         NEW u, u = request[b].user, NEW d, d = deletions[b]
  PROVE  Committed(u, d)
<1> USE DEF FeedInv
<1> DEFINE lost == {c \in Cards \ d.cards : cards[<<u, c>>] # 0 /\ Members[c] \cap d.events # {}}
<1>1. /\ events \in [Users \X Facts -> EventRecord]
      /\ cards \in [Users \X Cards -> 0 .. MaxTime + 1]
      /\ watches \in [Users -> {"never", "on", "off"}]
      /\ husks \subseteq Users \X Cards /\ d \in DeletionRecord
  BY DEF FeedTypes
<1>2. NoEvent \in EventRecord /\ 0 \in 0 .. MaxTime + 1
  BY AccountsAssumption, FeedReadingAssumption DEF NoEvent, EventRecord
<1>3. /\ events' = [k \in Users \X Facts |-> IF k[1] = u /\ k[2] \in d.events THEN NoEvent
                                             ELSE events[k]]
      /\ cards' = [k \in Users \X Cards |-> IF k[1] = u /\ k[2] \in d.cards \cup lost THEN 0
                                            ELSE cards[k]]
      /\ husks' = (husks \ ({u} \X d.cards)) \cup ({u} \X lost)
      /\ watches' = [watches EXCEPT ![u] = IF d.watch THEN "off" ELSE @]
      /\ users' = [users EXCEPT ![u] = NoEmail] /\ u # 0 /\ UNCHANGED <<issued, scanned>>
  BY DEF CommitDeletion, DeleteUser
<1>4. u \in Users /\ u <= issued
  BY <1>3, AccountsAssumption DEF AccountInv, AccountTypes, RequestRecord, RequestsKnow, Users
<1>5. /\ lost \subseteq Cards \ d.cards /\ \A c \in lost : cards[<<u, c>>] # 0
      /\ d.cards \subseteq Cards
  BY <1>1 DEF DeletionRecord
<1> HIDE DEF lost
<1>6. /\ events' \in [Users \X Facts -> EventRecord]
      /\ \A v \in Users \ {u}, e \in Facts : events'[<<v, e>>] = events[<<v, e>>]
      /\ \A e \in Facts : events'[<<u, e>>] = IF e \in d.events THEN NoEvent ELSE events[<<u, e>>]
  BY <1>1, <1>2, <1>3, <1>4
<1>7. /\ cards' \in [Users \X Cards -> 0 .. MaxTime + 1]
      /\ \A v \in Users \ {u}, c \in Cards : cards'[<<v, c>>] = cards[<<v, c>>]
      /\ \A c \in Cards : cards'[<<u, c>>] = IF c \in d.cards \cup lost THEN 0
                                             ELSE cards[<<u, c>>]
  BY <1>1, <1>2, <1>3, <1>4
<1>8. /\ watches' \in [Users -> {"never", "on", "off"}]
      /\ \A v \in Users \ {u} : watches'[v] = watches[v]
      /\ watches'[u] = IF d.watch THEN "off" ELSE watches[u]
  BY <1>1, <1>3, <1>4
<1>9. /\ husks' \subseteq Users \X Cards
      /\ \A v \in Users \ {u}, c \in Cards : <<v, c>> \in husks' <=> <<v, c>> \in husks
      /\ \A c \in Cards : <<u, c>> \in husks' =>
           c \in lost \/ (<<u, c>> \in husks /\ c \notin d.cards)
  BY <1>1, <1>3, <1>4, <1>5
<1>10. ASSUME NEW v \in Users \ {u} PROVE CardRows(v)' = CardRows(v)
  BY <1>7, <1>9 DEF CardRows
<1>11. CardRows(u)' \subseteq CardRows(u) \ d.cards
  BY <1>5, <1>7, <1>9 DEF CardRows
<1>12. QED
  BY <1>3, <1>4, <1>6, <1>7, <1>8, <1>9, <1>10, <1>11 DEF Committed

LEMMA CommitKeepsFeed ==
  ASSUME AccountInv, FeedInv, NEW b \in Browsers, CommitDeletion(b)
  PROVE  FeedInv'
<1>1. PICK u, d : u = request[b].user /\ d = deletions[b]
  OBVIOUS
<1>a. u = request[b].user
  BY <1>1
<1>b. d = deletions[b]
  BY <1>1
<1>2. Committed(u, d)
  BY <1>a, <1>b, CommitEffect
<1> USE DEF FeedInv, Committed
<1>3. /\ d.done = {"user"} \cup Tables /\ late' = late \cup ({u} \X d.missed)
      /\ deletions' = [deletions EXCEPT ![b] = NoDeletion]
      /\ request' = [request EXCEPT ![b] = NoRequest] /\ u # 0
  BY <1>1 DEF CommitDeletion, DeleteUser, Answer
<1>4. /\ d \in DeletionRecord /\ NoDeletion \in DeletionRecord
      /\ DeletionSees(b) /\ deletions \in [Browsers -> DeletionRecord]
  BY <1>1 DEF FeedTypes, NoDeletion, DeletionRecord, DeletionsSee
<1>5. /\ d.missed \subseteq Tables /\ late \subseteq late'
      /\ \A t \in d.missed : <<u, t>> \in late'
      /\ late' \subseteq Users \X Tables
  BY <1>2, <1>3, <1>4 DEF DeletionRecord, FeedTypes
<1>6. /\ CardRows(u) \subseteq d.cards \/ "card" \in d.missed
      /\ Stored(events, u) \subseteq d.events \/ "event" \in d.missed
      /\ watches[u] = "on" => d.watch \/ "watch" \in d.missed
  BY <1>1, <1>3, <1>4 DEF DeletionSees, Tables
<1>7. /\ \A v \in Users \ {u} : Stored(events', v) = Stored(events, v)
      /\ Stored(events', u) \subseteq Stored(events, u) \ d.events
  BY <1>2 DEF Stored, NoEvent
<1>8. FeedTypes'
  <2>1. deletions' \in [Browsers -> DeletionRecord]
    BY <1>3, <1>4
  <2>2. QED
    BY <1>2, <1>5, <2>1 DEF FeedTypes
<1>9. FeedsKnow'
  <2>1. ASSUME NEW w \in Users, w > issued
        PROVE  /\ watches'[w] = "never"
               /\ \A e \in Facts : events'[<<w, e>>].created = 0
               /\ \A c \in Cards : cards'[<<w, c>>] = 0
    <3>1. w # u
      BY <1>2, <2>1 DEF AccountInv, AccountTypes, Users
    <3>2. /\ watches[w] = "never"
          /\ \A e \in Facts : events[<<w, e>>].created = 0
          /\ \A c \in Cards : cards[<<w, c>>] = 0
      BY <2>1 DEF FeedsKnow
    <3>3. QED
      BY <1>2, <3>1, <3>2
  <2>2. ASSUME NEW w \in Users, NEW e \in Facts, events'[<<w, e>>].created = 0
        PROVE  events'[<<w, e>>].read = 0
    <3>1. events'[<<w, e>>] = NoEvent \/ events'[<<w, e>>] = events[<<w, e>>]
      BY <1>2
    <3>2. QED
      BY <2>2, <3>1 DEF FeedsKnow, NoEvent
  <2>3. issued' = issued
    BY <1>2
  <2>4. QED
    BY <2>1, <2>2, <2>3 DEF FeedsKnow
<1>10. ErasureIsWhole'
  <2>1. ASSUME NEW w \in 1 .. issued, users'[w] = NoEmail
        PROVE  /\ watches'[w] = "on" => <<w, "watch">> \in late'
               /\ Stored(events', w) # {} => <<w, "event">> \in late'
               /\ CardRows(w)' # {} => <<w, "card">> \in late'
    <3>1. w \in Users
      BY AccountsAssumption DEF AccountInv, AccountTypes, Users
    <3>2. CASE w = u
      <4>1. watches'[u] = "on" => "watch" \in d.missed
        BY <1>2, <1>6
      <4>2. Stored(events', u) # {} => "event" \in d.missed
        BY <1>6, <1>7
      <4>3. CardRows(u)' # {} => "card" \in d.missed
        BY <1>2, <1>6
      <4>4. QED
        BY <1>5, <3>2, <4>1, <4>2, <4>3
    <3>3. CASE w # u
      <4>1. users[w] = NoEmail
        BY <1>2, <2>1, <3>1, <3>3 DEF AccountInv, AccountTypes
      <4>2. /\ watches[w] = "on" => <<w, "watch">> \in late
            /\ Stored(events, w) # {} => <<w, "event">> \in late
            /\ CardRows(w) # {} => <<w, "card">> \in late
        BY <4>1 DEF ErasureIsWhole
      <4>3. /\ watches'[w] = watches[w] /\ Stored(events', w) = Stored(events, w)
            /\ CardRows(w)' = CardRows(w)
        BY <1>2, <1>7, <3>1, <3>3
      <4>4. QED
        BY <1>5, <4>2, <4>3
    <3>4. QED
      BY <3>2, <3>3
  <2>2. issued' = issued
    BY <1>2
  <2>3. QED
    BY <2>1, <2>2 DEF ErasureIsWhole, CardRows
<1>11. ASSUME NEW c \in Browsers PROVE DeletionSees(c)'
  <2>1. CASE c = b
    <3>1. deletions'[b] = NoDeletion
      BY <1>3, <1>4
    <3>2. QED
      BY <2>1, <3>1 DEF DeletionSees, NoDeletion
  <2>2. CASE c # b
    <3>1. PICK v : v = request[c].user
      OBVIOUS
    <3>2. DeletionSees(c) /\ deletions'[c] = deletions[c] /\ request'[c] = request[c]
      BY <1>3, <1>4, <2>2 DEF DeletionsSee, AccountInv, AccountTypes
    <3>3. deletions[c].done # {} => v \in Users
      BY <3>1, <3>2, AccountsAssumption
         DEF DeletionSees, AccountInv, AccountTypes, RequestRecord, Users
    <3>4. v \in Users =>
            /\ CardRows(v)' \subseteq CardRows(v)
            /\ Stored(events', v) \subseteq Stored(events, v)
            /\ watches'[v] = "on" => watches[v] = "on"
      BY <1>2, <1>7
    <3>5. QED
      BY <3>1, <3>2, <3>3, <3>4, SeesNoMore
  <2>3. QED
    BY <2>1, <2>2
<1>12. QED
  BY <1>8, <1>9, <1>10, <1>11 DEF DeletionsSee

-----------------------------------------------------------------------------
(* The invariant, and what follows from it *)

LEMMA InitInv ==
  Init => IndInv
<1> SUFFICES ASSUME Init PROVE IndInv
  OBVIOUS
<1> USE DEF Init, InitAccounts, InitFeed
<1>1. AccountTypes
  <2>1. NoFlow \in FlowRecord
    BY AccountsAssumption DEF NoFlow, FlowRecord, FlowPhases
  <2>2. NoSession \in SessionRecord
    BY AccountsAssumption DEF NoSession, SessionRecord
  <2>3. EmptyJar \in CookieRecord
    BY AccountsAssumption DEF EmptyJar, CookieRecord
  <2>4. NoRequest \in RequestRecord
    BY AccountsAssumption DEF NoRequest, RequestRecord
  <2>5. 0 \in 0 .. MaxUsers /\ 0 \in 0 .. MaxTime
    BY AccountsAssumption
  <2>6. QED
    BY <2>1, <2>2, <2>3, <2>4, <2>5 DEF AccountTypes
<1>2. Existing = {} /\ AccountsOK
  BY AccountsAssumption DEF AccountsOK, Existing, EmptyJar, NoRequest
<1>3. FlowsKnow
  BY DEF FlowsKnow, NoFlow, Under, Named
<1>4. FlowsInOrder
  BY DEF FlowsInOrder, NoFlow, EmptyJar
<1>5. LinksLast /\ ReadsHold /\ RequestsKnow
  <2>1. \A f \in Flows : flows[f].phase = "unused"
    BY DEF NoFlow
  <2>2. LinksLast
    BY <2>1 DEF LinksLast
  <2>3. ReadsHold
    BY <2>1 DEF ReadsHold, Named
  <2>4. RequestsKnow
    BY DEF RequestsKnow, NoRequest
  <2>5. QED
    BY <2>2, <2>3, <2>4
<1>6. FeedTypes
  <2>1. NoEvent \in EventRecord
    BY AccountsAssumption, FeedReadingAssumption DEF NoEvent, EventRecord
  <2>2. 0 \in 0 .. MaxTime + 1 /\ 0 \in 0 .. Len(Scans)
    BY AccountsAssumption, FeedReadingAssumption
  <2>3. NoDeletion \in DeletionRecord
    BY DEF NoDeletion, DeletionRecord
  <2>4. QED
    BY <2>1, <2>2, <2>3 DEF FeedTypes
<1>7. WalkTypes
  BY DEF WalkTypes, NoWalk
<1>8. FeedsKnow
  BY DEF FeedsKnow, NoEvent
<1>9. ErasureIsWhole /\ DeletionsSee
  BY DEF ErasureIsWhole, DeletionsSee, DeletionSees, NoDeletion
<1>10. QED
  BY <1>1, <1>2, <1>3, <1>4, <1>5, <1>6, <1>7, <1>8, <1>9 DEF IndInv, AccountInv

LEMMA NextKeeps ==
  IndInv /\ [Next]_vars => IndInv'
<1> SUFFICES ASSUME IndInv, [Next]_vars PROVE IndInv'
  OBVIOUS
<1>1. AccountInv /\ FeedInv /\ WalkTypes
  BY DEF IndInv, FeedInv
<1>2. issued \in Nat
  BY <1>1, AccountsAssumption DEF AccountInv, AccountTypes
<1>3. ASSUME AccountInv', FeedInv', WalkTypes' PROVE IndInv'
  BY <1>3 DEF IndInv, FeedInv
<1>4. CASE AccountStep /\ UNCHANGED <<feed, walks, deletions, late, bounds>>
  <2>1. AccountInv'
    BY <1>1, <1>4, AccountStepKeeps
  <2>2. FeedInv'
    BY <1>1, <1>4, AccountStepCreates, AccountStepIsSteady, FeedAsItWas DEF FeedInv
  <2>3. WalkTypes'
    BY <1>1, <1>4 DEF WalkTypes
  <2>4. QED
    BY <1>3, <2>1, <2>2, <2>3
<1>5. ASSUME NEW b \in Browsers, MemberStep(b) PROVE IndInv'
  <2>1. AccountInv'
    BY <1>1, <1>5, MembersKeepAccounts
  <2>2. FeedInv'
    BY <1>1, <1>5, PagesKeepFeed, MarksKeepFeed, WatchingKeepsFeed, PreparingKeepsFeed,
       CommitKeepsFeed DEF MemberStep, Deleting, Preparing
  <2>3. ASSUME UNCHANGED walks PROVE WalkTypes'
    BY <1>1, <2>3 DEF WalkTypes
  <2>4. ASSUME Track PROVE WalkTypes'
    BY <1>1, <2>4, TrackKeeps
  <2>5. ASSUME StartWalk(b) \/ NextPage(b) \/ CloseWalk(b) PROVE WalkTypes'
    BY <1>1, <2>5, WalksKeep
  <2>6. WalkTypes'
    <3>1. \/ UNCHANGED walks \/ Track
          \/ StartWalk(b) \/ NextPage(b) \/ CloseWalk(b)
      BY <1>5 DEF MemberStep, Deleting, Watch, Unwatch, LoadMark, StoreMark, MarkAll, MarkCard,
                  StartDeletion, DeleteCards, DeleteEvents, DeleteWatches, CommitDeletion,
                  AbortDeletion
    <3>2. QED
      BY <3>1, <2>3, <2>4, <2>5
  <2>7. QED
    BY <1>3, <2>1, <2>2, <2>6
<1>6. ASSUME NEW u \in Users, ScanStep(u) PROVE IndInv'
  <2>1. AccountInv'
    BY <1>1, <1>6, MembersKeepAccounts
  <2>2. FeedInv'
    BY <1>1, <1>6, PublishKeepsFeed, RefreshKeepsFeed DEF ScanStep
  <2>3. WalkTypes'
    BY <1>1, <1>6, TrackKeeps DEF ScanStep, Publish, Refresh
  <2>4. QED
    BY <1>3, <2>1, <2>2, <2>3
<1>7. CASE UNCHANGED vars
  <2>1. UNCHANGED <<accounts, feed, walks, deletions, late>>
    BY <1>7 DEF vars
  <2>2. AccountInv'
    BY <1>1, <2>1, AccountsAsTheyWere DEF accounts, AccountInv, AccountTypes
  <2>3. FeedInv'
    BY <1>1, <1>2, <2>1, UnchangedIsSteady, FeedAsItWas DEF accounts
  <2>4. WalkTypes'
    BY <1>1, <2>1 DEF WalkTypes
  <2>5. QED
    BY <1>3, <2>2, <2>3, <2>4
<1>8. QED
  BY <1>4, <1>5, <1>6, <1>7 DEF Next

\* The strengthening of the types and of ErasureIsWhole is inductive.
THEOREM Invariance ==
  Spec => []IndInv
BY InitInv, NextKeeps, PTL DEF Spec

\* Every variable keeps its type, addresses and subjects are unique, and what is
\* linked or signed in exists (the tables of storage/auth and storage/feed).
THEOREM TypesHold ==
  Spec => []TypeOK
<1>1. IndInv => TypeOK
  BY DEF IndInv, AccountInv, FeedTypes, WalkTypes, TypeOK, EventRecord, DeletionRecord
<1>2. QED
  BY <1>1, Invariance, PTL

\* Of a deleted account no table keeps anything but what a request or a scan stored
\* there after the deletion had passed it (delete_user_account).
THEOREM DeletionsErase ==
  Spec => []ErasureIsWhole
<1>1. IndInv => ErasureIsWhole
  BY DEF IndInv
<1>2. QED
  BY <1>1, Invariance, PTL

-----------------------------------------------------------------------------
(* Whose session a sign-in ends in, and why one fails *)

\* No other step than CreateSession makes a session.
LEMMA SessionsAreOwn ==
  ASSUME IndInv, [Next]_vars, NEW f \in Flows, sessions[f] = NoSession, sessions'[f] # NoSession
  PROVE  /\ sessions'[f].user = links'[flows[f].subject]
         /\ sessions'[f].user \in Existing'
<1>1. sessions \in [Flows -> SessionRecord] /\ AccountInv
  BY DEF IndInv, AccountInv, AccountTypes
<1>2. ASSUME UNCHANGED sessions PROVE FALSE
  BY <1>2
<1>3. ASSUME NEW b \in Browsers, LogOut(b) PROVE FALSE
  <2>1. (jar[b].session \in Flows /\ jar[b].session # f) \/ sessions'[f] = sessions[f]
    BY <1>1, <1>3, AccountsAssumption DEF LogOut, AccountInv, AccountTypes, CookieRecord, Flows
  <2>2. QED
    BY <1>1, <1>3, <2>1 DEF LogOut
<1>4. ASSUME NEW b \in Browsers, DeleteUser(b) PROVE FALSE
  BY <1>4 DEF DeleteUser
<1>5. ASSUME NEW g \in Flows, CreateSession(g), ~UNCHANGED sessions
      PROVE  /\ sessions'[f].user = links'[flows[f].subject]
             /\ sessions'[f].user \in Existing'
  <2>1. /\ flows[g].phase = "resolved" /\ flows[g].user \in Existing
        /\ sessions' = [sessions EXCEPT ![g] = NewSession(g)]
        /\ UNCHANGED <<users, links>>
    BY <1>5 DEF CreateSession, CanHoldSession
  <2>2. f = g /\ sessions'[f] = NewSession(f)
    BY <1>1, <2>1
  <2>3. sessions'[f].user = flows[f].user
    BY <2>2 DEF NewSession
  <2>4. QED
    BY <1>1, <2>1, <2>2, <2>3 DEF AccountInv, LinksLast, Existing
<1>6. \/ UNCHANGED sessions
      \/ \E b \in Browsers : LogOut(b) \/ DeleteUser(b)
      \/ \E g \in Flows : CreateSession(g)
  <2>1. CASE AccountStep
    BY <2>1 DEF AccountStep, Begin, Authenticate, SignIn, Callback, LookUpLink, LookUpEmail,
                RefreshUser, CreateUser, RefreshLink, CreateLink, Break, MailboxMoves, Tick
  <2>2. ASSUME NEW b \in Browsers, MemberStep(b) PROVE UNCHANGED sessions \/ DeleteUser(b)
    BY <2>2 DEF MemberStep, Deleting, StartWalk, NextPage, CloseWalk, Watch, Unwatch, LoadMark,
                StoreMark, MarkAll, MarkCard, StartDeletion, DeleteCards, DeleteEvents,
                DeleteWatches, CommitDeletion, AbortDeletion, accounts
  <2>3. ASSUME NEW u \in Users, ScanStep(u) PROVE UNCHANGED sessions
    BY <2>3 DEF ScanStep, Publish, Refresh, accounts
  <2>4. QED
    BY <2>1, <2>2, <2>3 DEF Next, vars, accounts
<1>7. QED
  BY <1>2, <1>3, <1>4, <1>5, <1>6

\* Whoever signs in gets a session of the user its subject is linked to, whatever
\* other sign-ins and deletions do between the steps (upsert_google_user).
THEOREM SignInsAreOwn ==
  Spec => SignInIsOwn
<1>1. IndInv /\ [Next]_vars =>
        [\A f \in Flows : sessions[f] = NoSession /\ sessions'[f] # NoSession =>
           /\ sessions'[f].user = links'[flows[f].subject]
           /\ sessions'[f].user \in Existing']_accounts
  BY SessionsAreOwn
<1>2. QED
  BY <1>1, Invariance, PTL DEF Spec, SignInIsOwn

FailureExplained(f) ==
  /\ flows[f].phase # "failed" /\ flows'[f].phase = "failed" =>
       \/ flows'[f].disturbed
       \/ flows[f].phase = "linked" /\ Clash(flows[f].user, flows[f].email)
  /\ flows[f].phase # "mismatch" /\ flows'[f].phase = "mismatch" =>
       \E g \in Flows : g > f /\ flows[g].browser = flows[f].browser

\* A flow that does not fail in a step has nothing to explain.
LEMMA NoFailure ==
  ASSUME NEW f \in Flows, flows'[f].phase = flows[f].phase \/ flows'[f].phase \notin {"failed", "mismatch"}
  PROVE  FailureExplained(f)
BY DEF FailureExplained

\* A flow that moves on to another phase than a failure.
LEMMA MovingIsNoFailure ==
  ASSUME IndInv, NEW f \in Flows, NEW flow, Read(f, flow) \/ Write(f, flow),
         flow.phase \notin {"failed", "mismatch"}
  PROVE  \A g \in Flows : FailureExplained(g)
<1> DEFINE all == [flows EXCEPT ![f] = flow]
<1>1. flows \in [Flows -> FlowRecord]
  BY DEF IndInv, AccountInv, AccountTypes
<1>2. all[f] = flow /\ \A g \in Flows \ {f} : all[g] = flows[g]
  BY <1>1
<1>3. flows' = all \/ flows' = Disturbed(all, f)
  BY DEF Read, Write
<1>4. \A g \in Flows : [flows[g] EXCEPT !.disturbed = TRUE].phase = flows[g].phase
  BY <1>1 DEF FlowRecord
<1> HIDE DEF all
<1>5. flows'[f] = flow /\ \A g \in Flows \ {f} : flows'[g].phase = flows[g].phase
  BY <1>2, <1>3, <1>4 DEF Disturbed
<1>6. QED
  BY <1>5, NoFailure

\* A flow that ends without a session, when there is a reason.
LEMMA EndsAreExplained ==
  ASSUME IndInv, NEW f \in Flows, NEW phase \in {"denied", "expired", "mismatch", "failed"},
         Under(f) \/ flows[f].phase = "away", EndBadly(f, phase),
         phase = "failed" => \/ flows[f].disturbed
                             \/ flows[f].phase = "linked" /\ Clash(flows[f].user, flows[f].email),
         phase = "mismatch" => \E g \in Flows : g > f /\ flows[g].browser = flows[f].browser
  PROVE  \A g \in Flows : FailureExplained(g)
<1>1. AccountTypes /\ FlowsKnow
  BY DEF IndInv, AccountInv
<1>2. /\ flows'[f] = [flows[f] EXCEPT !.phase = phase]
      /\ \A g \in Flows \ {f} : flows'[g] = flows[g]
  BY <1>1, EndBadlyEffect
<1>3. flows'[f].phase = phase /\ flows'[f].disturbed = flows[f].disturbed
  BY <1>1, <1>2 DEF AccountTypes, FlowRecord
<1>4. FailureExplained(f)
  BY <1>3 DEF FailureExplained
<1>5. QED
  BY <1>2, <1>4, NoFailure

\* A state is another one when the browser has begun another flow since.
LEMMA MismatchIsAnotherFlow ==
  ASSUME IndInv, NEW f \in Flows, flows[f].phase = "away",
         ~CookiesExpired(flows[f].browser), ~StateMatches(f)
  PROVE  \E g \in Flows : g > f /\ flows[g].browser = flows[f].browser
<1> DEFINE b == flows[f].browser
           g == jar[b].flow
<1>1. b \in Browsers /\ g # 0 /\ g # f
  BY DEF IndInv, AccountInv, FlowsKnow, CookiesExpired, StateMatches
<1>2. g \in Flows /\ flows[g].browser = b /\ g >= f
  BY <1>1 DEF IndInv, AccountInv, AccountsOK, FlowsInOrder, Flows
<1>3. g > f
  BY <1>1, <1>2 DEF Flows
<1>4. QED
  BY <1>2, <1>3

LEMMA CallbackExplained ==
  ASSUME IndInv, NEW f \in Flows, Callback(f)
  PROVE  \A g \in Flows : FailureExplained(g)
<1>1. flows[f].phase = "away" /\ flows[f] \in FlowRecord
  BY DEF Callback, IndInv, AccountInv, AccountTypes
<1>2. CASE EndBadly(f, "denied") \/ EndBadly(f, "expired")
  BY <1>1, <1>2, EndsAreExplained
<1>3. CASE ~CookiesExpired(flows[f].browser) /\ ~StateMatches(f) /\ EndBadly(f, "mismatch")
  BY <1>1, <1>3, EndsAreExplained, MismatchIsAnotherFlow
<1>4. CASE Read(f, [flows[f] EXCEPT !.phase = "identified", !.email = Vouched(f)])
  <2>1. [flows[f] EXCEPT !.phase = "identified", !.email = Vouched(f)].phase = "identified"
    BY <1>1 DEF FlowRecord
  <2>2. QED
    BY <1>4, <2>1, MovingIsNoFailure
<1>5. QED
  BY <1>2, <1>3, <1>4 DEF Callback

LEMMA LookingExplained ==
  ASSUME IndInv, NEW f \in Flows, LookUpLink(f) \/ LookUpEmail(f)
  PROVE  \A g \in Flows : FailureExplained(g)
<1>1. flows[f] \in FlowRecord
  BY DEF IndInv, AccountInv, AccountTypes
<1>2. ASSUME NEW phase \in {"linked", "not linked", "known", "unknown"}, NEW user,
             Read(f, [flows[f] EXCEPT !.phase = phase, !.user = user])
      PROVE  \A g \in Flows : FailureExplained(g)
  <2>1. [flows[f] EXCEPT !.phase = phase, !.user = user].phase = phase
    BY <1>1 DEF FlowRecord
  <2>2. QED
    BY <1>2, <2>1, MovingIsNoFailure
<1>3. QED
  BY <1>2 DEF LookUpLink, LookUpEmail

\* The user was there, and its address its own, when the flow read them.
LEMMA RefreshUserExplained ==
  ASSUME IndInv, NEW f \in Flows, RefreshUser(f)
  PROVE  \A g \in Flows : FailureExplained(g)
<1> DEFINE flow == flows[f]
<1>1. flow \in FlowRecord /\ flow.phase \in {"linked", "known"} /\ Under(f)
  BY DEF RefreshUser, IndInv, AccountInv, AccountTypes, Under
<1>2. CASE EndBadly(f, "failed") /\ (flow.user \notin Existing \/ Clash(flow.user, flow.email))
  <2>1. ASSUME ~flow.disturbed PROVE flow.phase = "linked" /\ Clash(flow.user, flow.email)
    <3>1. flow.user \in Existing /\ (flow.phase = "known" => users[flow.user] = flow.email)
      BY <1>1, <2>1 DEF IndInv, AccountInv, ReadsHold, Named
    <3>2. flow.email # NoEmail
      BY <1>1, AccountsAssumption DEF IndInv, AccountInv, FlowsKnow, NoEmail
    <3>3. flow.phase = "known" => ~Clash(flow.user, flow.email)
      BY <3>1, <3>2 DEF IndInv, AccountInv, AccountsOK, Clash, Existing
    <3>4. QED
      BY <1>1, <1>2, <3>1, <3>3
  <2>2. QED
    BY <1>1, <1>2, <2>1, EndsAreExplained
<1>3. CASE Write(f, [flow EXCEPT !.phase = IF @ = "linked" THEN "refreshed" ELSE "nameless"])
  <2> DEFINE moved == [flow EXCEPT !.phase = IF @ = "linked" THEN "refreshed" ELSE "nameless"]
  <2>1. moved.phase \in {"refreshed", "nameless"}
    BY <1>1 DEF FlowRecord
  <2> HIDE DEF moved
  <2>2. Write(f, moved)
    BY <1>3 DEF moved
  <2>3. QED
    BY <2>1, <2>2, MovingIsNoFailure
<1>4. QED
  BY <1>2, <1>3 DEF RefreshUser

\* Nobody had the address when the flow looked for it.
LEMMA CreateUserExplained ==
  ASSUME IndInv, NEW f \in Flows, CreateUser(f)
  PROVE  \A g \in Flows : FailureExplained(g)
<1>1. flows[f] \in FlowRecord /\ flows[f].phase = "unknown" /\ Under(f)
  BY DEF CreateUser, IndInv, AccountInv, AccountTypes, Under
<1>2. CASE EndBadly(f, "failed") /\ Clash(0, flows[f].email)
  <2>1. ~flows[f].disturbed => Holders(flows[f].email) = {}
    BY <1>1 DEF IndInv, AccountInv, ReadsHold
  <2>2. flows[f].disturbed
    BY <1>2, <2>1 DEF Clash, Holders
  <2>3. QED
    BY <1>1, <1>2, <2>2, EndsAreExplained
<1>3. ASSUME NEW user, Write(f, [flows[f] EXCEPT !.phase = "nameless", !.user = user])
      PROVE  \A g \in Flows : FailureExplained(g)
  <2>1. [flows[f] EXCEPT !.phase = "nameless", !.user = user].phase = "nameless"
    BY <1>1 DEF FlowRecord
  <2>2. QED
    BY <1>3, <2>1, MovingIsNoFailure
<1>4. QED
  BY <1>2, <1>3 DEF CreateUser

\* The link was there, or was not, and the user was there.
LEMMA LinkingExplained ==
  ASSUME IndInv, NEW f \in Flows, RefreshLink(f) \/ CreateLink(f)
  PROVE  \A g \in Flows : FailureExplained(g)
<1>1. flows[f] \in FlowRecord /\ flows[f].phase \in {"refreshed", "nameless"} /\ Under(f)
  BY DEF RefreshLink, CreateLink, IndInv, AccountInv, AccountTypes, Under
<1>2. CASE EndBadly(f, "failed") /\ flows[f].disturbed
  BY <1>1, <1>2, EndsAreExplained
<1>3. CASE Write(f, [flows[f] EXCEPT !.phase = "resolved"])
  <2>1. [flows[f] EXCEPT !.phase = "resolved"].phase = "resolved"
    BY <1>1 DEF FlowRecord
  <2>2. QED
    BY <1>3, <2>1, MovingIsNoFailure
<1>4. ~flows[f].disturbed => /\ flows[f].user \in Existing
                             /\ flows[f].phase = "refreshed" => links[flows[f].subject] = flows[f].user
                             /\ flows[f].phase = "nameless" => links[flows[f].subject] = 0
  BY <1>1 DEF IndInv, AccountInv, ReadsHold, Named
<1>5. QED
  BY <1>1, <1>2, <1>3, <1>4 DEF RefreshLink, CreateLink, CanLink

LEMMA CreateSessionExplained ==
  ASSUME IndInv, NEW f \in Flows, CreateSession(f)
  PROVE  \A g \in Flows : FailureExplained(g)
<1>1. flows[f] \in FlowRecord /\ flows[f].phase = "resolved" /\ Under(f)
  BY DEF CreateSession, IndInv, AccountInv, AccountTypes, Under
<1>2. CASE EndBadly(f, "failed") /\ flows[f].user \notin Existing
  <2>1. flows[f].disturbed
    BY <1>1, <1>2 DEF IndInv, AccountInv, ReadsHold, Named
  <2>2. QED
    BY <1>1, <1>2, <2>1, EndsAreExplained
<1>3. CASE Read(f, [flows[f] EXCEPT !.phase = "done"])
  <2>1. [flows[f] EXCEPT !.phase = "done"].phase = "done"
    BY <1>1 DEF FlowRecord
  <2>2. QED
    BY <1>3, <2>1, MovingIsNoFailure
<1>4. QED
  BY <1>2, <1>3 DEF CreateSession, CanHoldSession

\* What breaks is an excuse.
LEMMA BreakExplained ==
  ASSUME IndInv, NEW f \in Flows, Break(f)
  PROVE  \A g \in Flows : FailureExplained(g)
<1>1. flows \in [Flows -> FlowRecord]
  BY DEF IndInv, AccountInv, AccountTypes
<1>2. flows' = [flows EXCEPT ![f].phase = "failed", ![f].disturbed = TRUE]
  BY DEF Break
<1> DEFINE flow == [flows[f] EXCEPT !.phase = "failed", !.disturbed = TRUE]
<1>3. flows' = [flows EXCEPT ![f] = flow]
  BY <1>1, <1>2
<1>4. flow.disturbed /\ flow.phase = "failed"
  BY <1>1 DEF FlowRecord
<1> HIDE DEF flow
<1>5. flows'[f] = flow /\ \A g \in Flows \ {f} : flows'[g] = flows[g]
  BY <1>1, <1>3
<1>6. FailureExplained(f)
  BY <1>4, <1>5 DEF FailureExplained
<1>7. QED
  BY <1>5, <1>6, NoFailure

LEMMA BeginExplained ==
  ASSUME IndInv, NEW b \in Browsers, NEW s \in Subjects, Begin(b, s)
  PROVE  \A g \in Flows : FailureExplained(g)
<1>1. PICK f \in Flows :
        Read(f, [NoFlow EXCEPT !.phase = "away", !.subject = s, !.browser = b])
  BY DEF Begin
<1>2. [NoFlow EXCEPT !.phase = "away", !.subject = s, !.browser = b].phase = "away"
  BY DEF NoFlow
<1>3. QED
  BY <1>1, <1>2, MovingIsNoFailure

LEMMA DeleteUserExplained ==
  ASSUME IndInv, NEW b \in Browsers, DeleteUser(b)
  PROVE  \A g \in Flows : FailureExplained(g)
<1>1. flows \in [Flows -> FlowRecord]
  BY DEF IndInv, AccountInv, AccountTypes
<1>2. \A g \in Flows : [flows[g] EXCEPT !.disturbed = TRUE].phase = flows[g].phase
  BY <1>1 DEF FlowRecord
<1>3. flows' = flows \/ flows' = Disturbed(flows, 0)
  BY DEF DeleteUser
<1>4. \A g \in Flows : flows'[g].phase = flows[g].phase
  BY <1>2, <1>3 DEF Disturbed
<1>5. QED
  BY <1>4, NoFailure

\* A sign-in that fails was disturbed by another one or by a deletion, or by what
\* broke, or its subject took the address of another account; a state is another
\* one only when the browser began another flow (upsert_google_user).
THEOREM FailuresHaveReasons ==
  Spec => FailuresAreExplained
<1>1. ASSUME IndInv, [Next]_vars PROVE \A f \in Flows : FailureExplained(f)
  <2>1. ASSUME UNCHANGED flows PROVE \A f \in Flows : FailureExplained(f)
    BY <2>1, NoFailure
  <2>2. CASE AccountStep
    <3>1. ASSUME NEW f \in Flows, SignIn(f) PROVE \A g \in Flows : FailureExplained(g)
      BY <1>1, <3>1, CallbackExplained, LookingExplained, RefreshUserExplained,
         CreateUserExplained, LinkingExplained, CreateSessionExplained, BreakExplained DEF SignIn
    <3>2. ASSUME NEW b \in Browsers, NEW s \in Subjects, Begin(b, s)
          PROVE \A g \in Flows : FailureExplained(g)
      BY <1>1, <3>2, BeginExplained
    <3>3. \/ UNCHANGED flows
          \/ \E f \in Flows : SignIn(f)
          \/ \E b \in Browsers, s \in Subjects : Begin(b, s)
      BY <2>2 DEF AccountStep, Authenticate, LogOut, MailboxMoves, Tick
    <3>4. QED
      BY <2>1, <3>1, <3>2, <3>3
  <2>3. ASSUME NEW b \in Browsers, MemberStep(b) PROVE \A f \in Flows : FailureExplained(f)
    <3>1. UNCHANGED flows \/ DeleteUser(b)
      BY <2>3 DEF MemberStep, Deleting, StartWalk, NextPage, CloseWalk, Watch, Unwatch, LoadMark,
                  StoreMark, MarkAll, MarkCard, StartDeletion, DeleteCards, DeleteEvents,
                  DeleteWatches, CommitDeletion, AbortDeletion, accounts
    <3>2. QED
      BY <1>1, <2>1, <3>1, DeleteUserExplained
  <2>4. ASSUME NEW u \in Users, ScanStep(u) PROVE UNCHANGED flows
    BY <2>4 DEF ScanStep, Publish, Refresh, accounts
  <2>5. CASE UNCHANGED vars
    BY <2>1, <2>5 DEF vars, accounts
  <2>6. QED
    BY <1>1, <2>1, <2>2, <2>3, <2>4, <2>5 DEF Next
<1>2. IndInv /\ [Next]_vars =>
        [\A f \in Flows :
           /\ flows[f].phase # "failed" /\ flows'[f].phase = "failed" =>
                \/ flows'[f].disturbed
                \/ flows[f].phase = "linked" /\ Clash(flows[f].user, flows[f].email)
           /\ flows[f].phase # "mismatch" /\ flows'[f].phase = "mismatch" =>
                \E g \in Flows : g > f /\ flows[g].browser = flows[f].browser]_accounts
  BY <1>1 DEF FailureExplained
<1>3. QED
  BY <1>2, Invariance, PTL DEF Spec, FailuresAreExplained

-----------------------------------------------------------------------------
(* What was read stays read *)

ReadKept(u, e) ==
  events[<<u, e>>].read # 0 /\ events'[<<u, e>>].read # events[<<u, e>>].read =>
    \/ users'[u] = NoEmail /\ events'[<<u, e>>] = NoEvent
    \/ /\ events'[<<u, e>>].read # 0
       /\ \E b \in Browsers : request[b].user = u /\ request[b].mark = e
                              /\ request'[b] = NoRequest

LEMMA ReadsAreKept ==
  ASSUME IndInv, [Next]_vars, NEW u \in Users, NEW e \in Facts
  PROVE  ReadKept(u, e)
<1>1. AccountInv /\ FeedInv
  BY DEF IndInv, FeedInv
<1>2. ASSUME events'[<<u, e>>].read = events[<<u, e>>].read PROVE ReadKept(u, e)
  BY <1>2 DEF ReadKept
<1>3. ASSUME NEW v \in Users, ScanStep(v) PROVE ReadKept(u, e)
  <2>1. CASE Publish(v)
    <3>1. events[<<u, e>>].created # 0 => events'[<<u, e>>] = events[<<u, e>>]
      BY <1>1, <2>1, PublishEffect
    <3>2. events[<<u, e>>].created = 0 => events[<<u, e>>].read = 0
      BY <1>1 DEF FeedInv, FeedsKnow
    <3>3. QED
      BY <3>1, <3>2 DEF ReadKept
  <2>2. CASE \E g \in Facts, d \in Dates : Refresh(v, g, d)
    BY <1>1, <1>2, <2>2, RefreshEffect
  <2>3. QED
    BY <1>3, <2>1, <2>2 DEF ScanStep
<1>4. ASSUME NEW b \in Browsers, MemberStep(b) PROVE ReadKept(u, e)
  <2>1. CASE StoreMark(b)
    <3>1. request'[b] = NoRequest
      BY <1>1, <2>1 DEF StoreMark, Answer, AccountInv, AccountTypes
    <3>2. events'[<<u, e>>].read # events[<<u, e>>].read =>
            events'[<<u, e>>].read # 0 /\ request[b].user = u /\ request[b].mark = e
      BY <1>1, <2>1, StoreMarkEffect
    <3>3. QED
      BY <3>1, <3>2 DEF ReadKept
  <2>2. CASE MarkAll(b) \/ \E c \in Cards : MarkCard(b, c)
    <3>1. PICK v, S : events' = MarkedRead(v, S)
      BY <2>2 DEF MarkAll, MarkCard
    <3>2. events[<<u, e>>].read # 0 => events'[<<u, e>>].read = events[<<u, e>>].read
      BY <1>1, <3>1, MarkedReadEffect
    <3>3. QED
      BY <3>2 DEF ReadKept
  <2>3. CASE CommitDeletion(b)
    <3>1. PICK v, d : v = request[b].user /\ d = deletions[b]
      OBVIOUS
    <3>2. /\ v \in Users /\ users' = [users EXCEPT ![v] = NoEmail]
          /\ v # u => events'[<<u, e>>] = events[<<u, e>>]
          /\ v = u => events'[<<u, e>>] = NoEvent \/ events'[<<u, e>>] = events[<<u, e>>]
      BY <1>1, <2>3, <3>1, CommitEffect DEF Committed
    <3>3. users'[v] = NoEmail
      BY <1>1, <3>2 DEF AccountInv, AccountTypes
    <3>4. QED
      BY <3>2, <3>3 DEF ReadKept
  <2>4. CASE UNCHANGED events
    BY <1>2, <2>4
  <2>5. QED
    BY <1>4, <2>1, <2>2, <2>3, <2>4
       DEF MemberStep, Deleting, StartWalk, NextPage, CloseWalk, Watch, Unwatch, LoadMark,
           StartDeletion, DeleteCards, DeleteEvents, DeleteWatches, AbortDeletion, feed
<1>5. CASE UNCHANGED events
  BY <1>2, <1>5
<1>6. QED
  BY <1>3, <1>4, <1>5 DEF Next, vars, feed

\* What was read is never unread while its account exists, and the time is only
\* replaced by a request that had loaded the event unread
\* (mark_feed_event_read_for_user), whatever scans do with the event.
THEOREM ReadsLast ==
  Spec => ReadIsForever
<1>1. IndInv /\ [Next]_vars =>
        [\A u \in Users, e \in Facts :
           events[<<u, e>>].read # 0 /\ events'[<<u, e>>].read # events[<<u, e>>].read =>
             \/ users'[u] = NoEmail /\ events'[<<u, e>>] = NoEvent
             \/ /\ events'[<<u, e>>].read # 0
                /\ \E b \in Browsers : request[b].user = u /\ request[b].mark = e
                                       /\ request'[b] = NoRequest]_vars
  BY ReadsAreKept DEF ReadKept
<1>2. QED
  BY <1>1, Invariance, PTL DEF Spec, ReadIsForever

-----------------------------------------------------------------------------
(* Paging *)

\* A set of naturals that is not empty has a least element.
LEMMA LeastNatural ==
  ASSUME NEW S \in SUBSET Nat, S # {}
  PROVE  \E x \in S : \A y \in S : x <= y
<1>1. PICK x \in S : \A y \in S : <<y, x>> \notin OpToRel(<, Nat)
  BY NatLessThanWellFounded, WFMin, Zenon
<1>2. \A y \in S : ~(y < x)
  BY <1>1 DEF OpToRel
<1>3. QED
  BY <1>2

\* What a function maps a finite set to is a finite set.
LEMMA ImageIsFinite ==
  ASSUME NEW f, IsFiniteSet(DOMAIN f)
  PROVE  IsFiniteSet({f[x] : x \in DOMAIN f})
<1> DEFINE T == {f[x] : x \in DOMAIN f}
           g == [x \in DOMAIN f |-> f[x]]
<1>1. g \in Surjection(DOMAIN f, T)
  BY DEF Surjection
<1>2. QED
  BY <1>1, FS_Surjection

\* A finite set of naturals that is not empty has a greatest element.
LEMMA MaxOfNaturals ==
  ASSUME NEW S \in SUBSET Nat, S # {}, IsFiniteSet(S)
  PROVE  Max(S) \in S
<1> DEFINE Above(x) == {y \in S : y > x}
           N == {Cardinality(Above(x)) : x \in S}
<1>1. \A x \in S : IsFiniteSet(Above(x)) /\ Cardinality(Above(x)) \in Nat
  <2>1. \A x \in S : Above(x) \subseteq S
    OBVIOUS
  <2>2. QED
    BY <2>1, FS_Subset, FS_CardinalityType
<1>2. PICK x \in S : \A y \in S : Cardinality(Above(x)) <= Cardinality(Above(y))
  <2>1. N \in SUBSET Nat /\ N # {}
    BY <1>1
  <2>2. PICK n \in N : \A m \in N : n <= m
    BY <2>1, LeastNatural
  <2>3. QED
    BY <2>2
<1>3. \A y \in S : x >= y
  <2> SUFFICES ASSUME NEW y \in S, y > x PROVE FALSE
    OBVIOUS
  <2>1. Above(y) \subseteq Above(x) /\ y \in Above(x) /\ y \notin Above(y)
    <3>1. x \in Nat /\ y \in Nat /\ \A z \in S : z \in Nat
      OBVIOUS
    <3>2. \A z \in S : z > y => z > x
      BY <3>1
    <3>3. ~(y > y)
      BY <3>1
    <3>4. QED
      BY <3>2, <3>3, Zenon
  <2>2. Cardinality(Above(y)) < Cardinality(Above(x))
    <3>1. Above(y) # Above(x)
      BY <2>1
    <3> HIDE DEF Above
    <3>2. QED
      BY <1>1, <2>1, <3>1, FS_Subset, FS_CardinalityType
  <2>3. QED
    BY <1>1, <1>2, <2>2
<1>4. QED
  BY <1>3 DEF Max

Placed(p) == p.published \in Nat /\ p.created \in Nat /\ p.id \in Nat

LEMMA BeforeIsAnOrder ==
  ASSUME NEW p, NEW q, NEW r, Placed(p), Placed(q), Placed(r)
  PROVE  /\ ~Before(p, p)
         /\ Before(p, q) /\ Before(q, r) => Before(p, r)
         /\ p.id # q.id => Before(p, q) \/ Before(q, p)
         /\ After(p, q) <=> Before(q, p)
BY DEF Placed, Before, Older, After

\* At gives each element of S its place.
Places(S, At) == \A i \in S : Placed(At[i]) /\ At[i].id = i

Ahead(S, At, i) == {j \in S : Before(At[j], At[i])}

LEMMA AheadGrows ==
  ASSUME NEW S, IsFiniteSet(S), NEW At, Places(S, At), NEW i \in S
  PROVE  /\ IsFiniteSet(Ahead(S, At, i)) /\ Cardinality(Ahead(S, At, i)) \in Nat
         /\ Cardinality(Ahead(S, At, i)) < Cardinality(S)
         /\ \A j \in Ahead(S, At, i) :
              Cardinality(Ahead(S, At, j)) < Cardinality(Ahead(S, At, i))
<1>1. \A k \in S : IsFiniteSet(Ahead(S, At, k)) /\ Cardinality(Ahead(S, At, k)) \in Nat
  <2>1. \A k \in S : Ahead(S, At, k) \subseteq S
    BY DEF Ahead
  <2>2. QED
    BY <2>1, FS_Subset, FS_CardinalityType
<1>2. ASSUME NEW T, IsFiniteSet(T), NEW U \in SUBSET T, NEW k \in T, k \notin U
      PROVE  Cardinality(U) < Cardinality(T)
  BY <1>2, FS_Subset, FS_CardinalityType
<1>3. i \notin Ahead(S, At, i) /\ Ahead(S, At, i) \subseteq S
  BY BeforeIsAnOrder DEF Places, Ahead
<1>4. ASSUME NEW j \in Ahead(S, At, i)
      PROVE  Ahead(S, At, j) \subseteq Ahead(S, At, i) /\ j \notin Ahead(S, At, j) /\ j \in S
  BY BeforeIsAnOrder DEF Places, Ahead
<1>5. QED
  BY <1>1, <1>2, <1>3, <1>4

\* Of some places one is the last.
LEMMA LastOfSome ==
  ASSUME NEW S, IsFiniteSet(S), NEW At, Places(S, At), NEW U \in SUBSET S, U # {}
  PROVE  \E j \in U : U \subseteq Ahead(S, At, j) \cup {j}
<1> DEFINE Rank(i) == Cardinality(Ahead(S, At, i))
           N == {Cardinality(S) - Rank(i) : i \in U}
<1>1. \A i \in S : Rank(i) \in Nat /\ Rank(i) < Cardinality(S)
  BY AheadGrows
<1>2. Cardinality(S) \in Nat
  BY FS_CardinalityType
<1>3. N \in SUBSET Nat /\ N # {}
  BY <1>1, <1>2
<1>4. PICK n \in N : \A m \in N : n <= m
  BY <1>3, LeastNatural
<1>5. PICK j \in U : n = Cardinality(S) - Rank(j)
  BY <1>4
<1>6. \A i \in U : Rank(i) <= Rank(j)
  BY <1>1, <1>2, <1>4, <1>5
<1>7. ASSUME NEW k \in U, k # j PROVE k \in Ahead(S, At, j)
  <2>1. Before(At[k], At[j]) \/ Before(At[j], At[k])
    BY <1>7, BeforeIsAnOrder DEF Places
  <2>2. ~Before(At[j], At[k])
    <3>1. SUFFICES ASSUME j \in Ahead(S, At, k) PROVE FALSE
      BY DEF Ahead
    <3>2. Rank(j) < Rank(k)
      BY <3>1, AheadGrows
    <3>3. QED
      BY <1>1, <1>6, <3>2
  <2>3. QED
    BY <2>1, <2>2 DEF Ahead
<1>8. QED
  BY <1>7

\* When there are more than n places, one of them is the n-th.
LEMMA NthPlace ==
  ASSUME NEW S, IsFiniteSet(S), NEW At, Places(S, At), NEW n \in Nat \ {0},
         Cardinality(S) > n
  PROVE  \E i \in S : Cardinality(Ahead(S, At, i)) = n - 1
<1> DEFINE Rank(i) == Cardinality(Ahead(S, At, i))
           Far == {i \in S : Rank(i) >= n - 1}
<1>1. \A i \in S : Rank(i) \in Nat /\ IsFiniteSet(Ahead(S, At, i)) /\ i \notin Ahead(S, At, i)
  <2>1. \A i \in S : i \notin Ahead(S, At, i)
    BY BeforeIsAnOrder DEF Places, Ahead
  <2>2. QED
    BY <2>1, AheadGrows
<1>2. ASSUME NEW U \in SUBSET S, NEW j \in U, U = Ahead(S, At, j) \cup {j}
      PROVE  Cardinality(U) = Rank(j) + 1
  BY <1>1, <1>2, FS_AddElement
<1>3. Far # {}
  <2>1. S # {}
    BY FS_EmptySet
  <2>2. PICK j \in S : S \subseteq Ahead(S, At, j) \cup {j}
    BY <2>1, LastOfSome
  <2>3. S = Ahead(S, At, j) \cup {j}
    BY <2>2 DEF Ahead
  <2>4. QED
    BY <1>1, <1>2, <2>3
<1>4. PICK i \in Far : \A k \in Far : Rank(i) <= Rank(k)
  <2> DEFINE N == {Rank(k) : k \in Far}
  <2>1. N \in SUBSET Nat /\ N # {}
    BY <1>1, <1>3
  <2>2. PICK m \in N : \A l \in N : m <= l
    BY <2>1, LeastNatural
  <2>3. QED
    BY <2>2
<1>5. CASE Rank(i) > n - 1
  <2>1. Ahead(S, At, i) # {} /\ Ahead(S, At, i) \subseteq S
    BY <1>5, FS_EmptySet DEF Ahead
  <2>2. PICK j \in Ahead(S, At, i) : Ahead(S, At, i) \subseteq Ahead(S, At, j) \cup {j}
    BY <2>1, LastOfSome
  <2>3. Ahead(S, At, i) = Ahead(S, At, j) \cup {j}
    BY <2>2, BeforeIsAnOrder DEF Ahead, Places
  <2>4. Rank(i) = Rank(j) + 1
    BY <1>2, <2>1, <2>3
  <2>5. j \in Far /\ Rank(j) < Rank(i)
    BY <1>1, <1>5, <2>1, <2>4
  <2>6. QED
    BY <1>1, <1>4, <2>5
<1>6. QED
  BY <1>1, <1>4, <1>5

Cursors == [published : Nat, created : Nat, id : Nat]

WalkRecord ==
  [phase : {"none", "more", "ended"}, user : 0 .. MaxUsers,
   listing : Listings \cup {[of |-> "none", card |-> 0]}, unread : BOOLEAN, cursor : Cursors,
   due : SUBSET (Nat \ {0}), seen : SUBSET (Nat \ {0}), twice : SUBSET (Nat \ {0}),
   moved : SUBSET (Nat \ {0})]

Walking(w) == w \in WalkRecord /\ w.user \in Users /\ w.listing \in Listings

\* What is listed is finite, and has a place.
LEMMA ListedPlaces ==
  ASSUME FeedTypes, NEW w, Walking(w)
  PROVE  /\ IsFiniteSet(Listed(events, cards, w)) /\ Listed(events, cards, w) \subseteq Nat \ {0}
         /\ \A i \in Listed(events, cards, w) :
              LET p == Position(events, cards, w, i) IN
              p \in Cursors /\ p.id = i /\ Placed(p)
<1> DEFINE u == w.user
<1>1. u \in Users /\ w.listing.of \in {"events", "cards", "commits"}
  BY FeedReadingAssumption DEF Walking
<1>2. \A e \in Facts : events[<<u, e>>].published \in Nat /\ events[<<u, e>>].created \in Nat
  <2>1. \A e \in Facts : events[<<u, e>>] \in EventRecord
    BY <1>1 DEF FeedTypes
  <2>2. ASSUME NEW r \in EventRecord PROVE r.published \in Nat /\ r.created \in Nat
    <3>1. Dates \subseteq Nat /\ MaxTime \in Nat
      BY FeedReadingAssumption, AccountsAssumption
    <3>2. r.published \in Dates /\ r.created \in 0 .. MaxTime + 1
      BY DEF EventRecord
    <3>3. \A n \in 0 .. MaxTime + 1 : n \in Nat
      BY <3>1
    <3>4. QED
      BY <3>1, <3>2, <3>3, Zenon
  <2>3. QED
    BY <2>1, <2>2
<1>3. \A c \in Cards : cards[<<u, c>>] \in Nat
  BY <1>1, AccountsAssumption DEF FeedTypes
<1>4. ASSUME NEW c \in Cards PROVE CardDate(events, u, c) \in Nat
  <2> DEFINE D == IF CardKind(c) = "release" THEN Retained(events, u, c) \cap Released
                  ELSE Retained(events, u, c)
             T == {events[<<u, e>>].published : e \in D}
  <2>1. D \subseteq Facts
    BY DEF Retained, Stored
  <2>2. IsFiniteSet(D)
    BY <2>1, FeedReadingAssumption, FS_Subset
  <2>3. T \in SUBSET Nat
    BY <1>2, <2>1
  <2>4. IsFiniteSet(T)
    <3> DEFINE f == [e \in D |-> events[<<u, e>>].published]
    <3>1. IsFiniteSet(DOMAIN f)
      BY <2>2
    <3>2. T = {f[e] : e \in DOMAIN f}
      OBVIOUS
    <3> HIDE DEF T, f
    <3>3. QED
      BY <3>1, <3>2, ImageIsFinite
  <2>5. CardDate(events, u, c) = Max({0} \cup T)
    BY DEF CardDate
  <2> HIDE DEF T
  <2>6. {0} \cup T \in SUBSET Nat /\ {0} \cup T # {}
    BY <2>3
  <2>7. IsFiniteSet({0})
    BY FS_Singleton
  <2>8. IsFiniteSet({0} \cup T)
    BY <2>4, <2>7, FS_Union
  <2>9. Max({0} \cup T) \in {0} \cup T
    BY <2>6, <2>8, MaxOfNaturals
  <2>10. QED
    BY <2>5, <2>6, <2>9, Zenon
<1>5. CASE w.listing.of = "cards"
  <2>1. Listed(events, cards, w) \subseteq Cards
    BY <1>5 DEF Listed
  <2>2. ASSUME NEW i \in Cards
        PROVE  Position(events, cards, w, i) \in Cursors /\ Position(events, cards, w, i).id = i
    BY <1>3, <1>4, <1>5, FeedReadingAssumption DEF Position, Cursors
  <2>3. QED
    BY <2>1, <2>2, FeedReadingAssumption, FS_Subset DEF Placed, Cursors
<1>6. CASE w.listing.of # "cards"
  <2>1. Listed(events, cards, w) \subseteq Facts
    BY <1>1, <1>6 DEF Listed, Stored, Commits
  <2>2. ASSUME NEW i \in Facts
        PROVE  Position(events, cards, w, i) \in Cursors /\ Position(events, cards, w, i).id = i
    BY <1>2, <1>6, FeedReadingAssumption DEF Position, Cursors
  <2>3. QED
    BY <2>1, <2>2, FeedReadingAssumption, FS_Subset DEF Placed, Cursors
<1>7. QED
  BY <1>5, <1>6

\* What is left of a listing for a page that begins after this cursor.
Rest(w) == {i \in Listed(events, cards, w) :
              w.cursor = NoCursor \/ After(Position(events, cards, w, i), w.cursor)}

\* A page shows what is first of the rest, up to the place of its cursor.
LEMMA PageShows ==
  ASSUME FeedTypes, NEW w, Walking(w)
  PROVE  \E visible \in SUBSET Rest(w) :
           LET v == ReadPage(w)
               At(i) == Position(events, cards, w, i)
           IN /\ Walking(v) /\ v.phase \in {"more", "ended"}
              /\ v = [w EXCEPT !.phase = v.phase, !.cursor = v.cursor,
                               !.seen = w.seen \cup visible,
                               !.twice = w.twice \cup (w.seen \cap visible)]
              /\ v.phase = "ended" => visible = Rest(w)
              /\ v.phase = "more" =>
                   /\ \E i \in Rest(w) : v.cursor = At(i)
                   /\ \A i \in Rest(w) : i \in visible <=> ~After(At(i), v.cursor)
<1> DEFINE S == Rest(w)
           At == [i \in S |-> Position(events, cards, w, i)]
           visible == {i \in S : Cardinality(Ahead(S, At, i)) < Limit}
           last == CHOOSE i \in visible : Cardinality(Ahead(S, At, i)) = Limit - 1
           more == Cardinality(S) > Limit
           v == ReadPage(w)
<1>1. S \subseteq Nat \ {0} /\ IsFiniteSet(S) /\ Places(S, At)
  <2>1. S \subseteq Listed(events, cards, w)
    BY DEF Rest
  <2>2. QED
    BY <2>1, ListedPlaces, FS_Subset DEF Places
<1>2. \A i \in S : {j \in S : Before(Position(events, cards, w, j), Position(events, cards, w, i))}
                     = Ahead(S, At, i)
  BY DEF Ahead
<1>3. v = [w EXCEPT !.phase = IF more THEN "more" ELSE "ended",
                    !.cursor = IF more THEN Position(events, cards, w, last) ELSE NoCursor,
                    !.seen = @ \cup visible, !.twice = @ \cup (w.seen \cap visible)]
  <2> DEFINE before(i) == {j \in S : Before(Position(events, cards, w, j), Position(events, cards, w, i))}
             shown == {i \in S : Cardinality(before(i)) < Limit}
             end == CHOOSE i \in shown : Cardinality(before(i)) = Limit - 1
  <2>1. v = [w EXCEPT !.phase = IF more THEN "more" ELSE "ended",
                      !.cursor = IF more THEN Position(events, cards, w, end) ELSE NoCursor,
                      !.seen = @ \cup shown, !.twice = @ \cup (w.seen \cap shown)]
    BY DEF ReadPage, Rest
  <2>2. shown = visible
    BY <1>2
  <2>3. end = last
    BY <1>2, <2>2
  <2>4. QED
    BY <2>1, <2>2, <2>3
<1>4. visible \in SUBSET S
  OBVIOUS
<1>5. ASSUME ~more PROVE visible = S
  BY <1>1, <1>5, AheadGrows, FS_CardinalityType, FeedReadingAssumption
<1>6. ASSUME more
      PROVE  /\ last \in S
             /\ \A i \in S : i \in visible <=> ~After(At[i], At[last])
  <2>1. last \in visible /\ Cardinality(Ahead(S, At, last)) = Limit - 1
    <3>1. PICK i \in S : Cardinality(Ahead(S, At, i)) = Limit - 1
      BY <1>1, <1>6, NthPlace, FeedReadingAssumption
    <3>2. i \in visible
      BY <3>1, FeedReadingAssumption
    <3> HIDE DEF visible
    <3>3. QED
      BY <3>1, <3>2
  <2>2. ASSUME NEW i \in S, After(At[i], At[last]) PROVE i \notin visible
    <3>1. last \in Ahead(S, At, i)
      BY <1>1, <2>1, <2>2, BeforeIsAnOrder DEF Ahead, Places
    <3>2. Cardinality(Ahead(S, At, i)) > Limit - 1
      BY <1>1, <2>1, <3>1, AheadGrows
    <3>3. QED
      BY <1>1, <3>2, AheadGrows, FeedReadingAssumption
  <2>3. ASSUME NEW i \in S, ~After(At[i], At[last]) PROVE i \in visible
    <3>1. CASE i = last
      BY <2>1, <3>1
    <3>2. CASE i # last
      <4>1. i \in Ahead(S, At, last)
        BY <1>1, <2>1, <2>3, <3>2, BeforeIsAnOrder DEF Ahead, Places
      <4>2. Cardinality(Ahead(S, At, i)) < Limit - 1
        BY <1>1, <2>1, <4>1, AheadGrows
      <4>3. QED
        BY <1>1, <4>2, AheadGrows, FeedReadingAssumption
    <3>3. QED
      BY <3>1, <3>2
  <2>4. QED
    BY <2>1, <2>2, <2>3
<1>7. /\ NoCursor \in Cursors
      /\ more => At[last] \in Cursors /\ At[last] = Position(events, cards, w, last)
  <2>1. S \subseteq Listed(events, cards, w)
    BY DEF Rest
  <2>2. QED
    BY <1>6, <2>1, ListedPlaces DEF NoCursor, Cursors
<1> HIDE DEF visible, last, more, S
<1>8. /\ v.phase = IF more THEN "more" ELSE "ended"
      /\ v.cursor = IF more THEN At[last] ELSE NoCursor
      /\ v = [w EXCEPT !.phase = v.phase, !.cursor = v.cursor,
                       !.seen = w.seen \cup visible,
                       !.twice = w.twice \cup (w.seen \cap visible)]
  BY <1>3, <1>7 DEF Walking, WalkRecord
<1>9. Walking(v)
  <2>1. visible \subseteq Nat \ {0}
    BY <1>1, <1>4
  <2>2. v.phase \in {"none", "more", "ended"} /\ v.cursor \in Cursors
    BY <1>7, <1>8
  <2> HIDE DEF v
  <2>3. v \in WalkRecord
    BY <1>8, <2>1, <2>2, ZenonT(40) DEF Walking, WalkRecord
  <2>4. v.user = w.user /\ v.listing = w.listing
    BY <1>8 DEF Walking, WalkRecord
  <2>5. QED
    BY <2>3, <2>4 DEF Walking
<1>10. QED
  <2>1. \A i \in S : At[i] = Position(events, cards, w, i)
    BY DEF S
  <2> HIDE DEF v, At
  <2>2. v.phase \in {"more", "ended"} /\ (v.phase = "ended" => ~more)
        /\ (v.phase = "more" => more)
    BY <1>8
  <2>3. QED
    BY <1>4, <1>5, <1>6, <1>8, <1>9, <2>1, <2>2, ZenonT(40) DEF S, v

\* What was due or seen and did not move is still listed at its place, before the
\* cursor when it was seen and after it when it was not.
Kept(ev, cd, w) ==
  \A i \in (w.due \cup w.seen) \ w.moved :
    /\ i \in Listed(ev, cd, w)
    /\ i \in w.seen <=> ~(w.cursor = NoCursor \/ After(Position(ev, cd, w, i), w.cursor))

WellPaged(ev, cd, w) ==
  /\ w \in WalkRecord
  /\ w.phase # "none" => Walking(w)
  /\ w.phase = "more" => Kept(ev, cd, w)
  /\ w.twice \subseteq w.moved
  /\ w.phase = "ended" => w.due \subseteq w.seen \cup w.moved

PagesInv ==
  /\ walks \in [Browsers -> WalkRecord]
  /\ \A b \in Browsers : WellPaged(events, cards, walks[b])

\* A page shows nothing again that has not moved, and a cursor that goes on leaves
\* nothing behind.
LEMMA PageIsWell ==
  ASSUME FeedTypes, NEW w, Walking(w), Kept(events, cards, w), w.twice \subseteq w.moved
  PROVE  ReadPage(w) \in WalkRecord /\ WellPaged(events, cards, ReadPage(w))
<1> DEFINE v == ReadPage(w)
           At(i) == Position(events, cards, w, i)
<1>1. PICK visible \in SUBSET Rest(w) :
        /\ Walking(v) /\ v.phase \in {"more", "ended"}
        /\ v = [w EXCEPT !.phase = v.phase, !.cursor = v.cursor,
                         !.seen = w.seen \cup visible,
                         !.twice = w.twice \cup (w.seen \cap visible)]
        /\ v.phase = "ended" => visible = Rest(w)
        /\ v.phase = "more" => /\ \E i \in Rest(w) : v.cursor = At(i)
                               /\ \A i \in Rest(w) : i \in visible <=> ~After(At(i), v.cursor)
  BY PageShows
<1> HIDE DEF v
<1>2. /\ v.user = w.user /\ v.listing = w.listing /\ v.unread = w.unread
      /\ v.due = w.due /\ v.moved = w.moved
      /\ v.seen = w.seen \cup visible /\ v.twice = w.twice \cup (w.seen \cap visible)
  BY <1>1 DEF Walking, WalkRecord
<1>3. \A i \in (w.due \cup w.seen) \ w.moved :
        i \in Listed(events, cards, w) /\ (i \in w.seen <=> i \notin Rest(w))
  BY DEF Kept, Rest
<1>4. v.twice \subseteq v.moved
  BY <1>2, <1>3
<1>5. ASSUME v.phase = "ended" PROVE v.due \subseteq v.seen \cup v.moved
  BY <1>1, <1>2, <1>3, <1>5
<1>6. ASSUME v.phase = "more" PROVE Kept(events, cards, v)
  <2>1. /\ Listed(events, cards, v) = Listed(events, cards, w)
        /\ \A i : Position(events, cards, v, i) = At(i)
    BY <1>2 DEF Listed, Position
  <2>2. PICK last \in Rest(w) : v.cursor = At(last)
    BY <1>1, <1>6
  <2>3. /\ \A i \in Listed(events, cards, w) : Placed(At(i))
        /\ Placed(v.cursor) /\ v.cursor # NoCursor
    <3>1. last \in Listed(events, cards, w)
      BY DEF Rest
    <3>2. QED
      BY <2>2, <3>1, ListedPlaces DEF NoCursor
  <2> SUFFICES ASSUME NEW i \in (v.due \cup v.seen) \ v.moved
               PROVE  /\ i \in Listed(events, cards, w)
                      /\ i \in v.seen <=> ~After(At(i), v.cursor)
    BY <2>1, <2>3 DEF Kept
  <2>4. CASE i \in Rest(w)
    <3>1. i \in Listed(events, cards, w)
      BY <2>4 DEF Rest
    <3>2. i \in v.seen <=> i \in visible
      BY <1>2, <1>3, <2>4
    <3>3. QED
      BY <1>1, <1>6, <2>4, <3>1, <3>2
  <2>5. CASE i \notin Rest(w)
    <3>1. i \in w.seen /\ i \in Listed(events, cards, w)
      BY <1>2, <1>3, <2>5
    <3>2. w.cursor # NoCursor /\ ~After(At(i), w.cursor)
      BY <2>5, <3>1 DEF Rest
    <3>3. After(At(last), w.cursor)
      BY <3>2 DEF Rest
    <3>4. Placed(w.cursor) /\ Placed(At(i)) /\ Placed(At(last))
      BY <2>2, <2>3, <3>1 DEF Walking, WalkRecord, Cursors, Placed
    <3>5. ~After(At(i), At(last))
      BY <3>2, <3>3, <3>4, BeforeIsAnOrder
    <3>6. QED
      BY <1>2, <2>2, <3>1, <3>5
  <2>6. QED
    BY <2>4, <2>5
<1>7. QED
  BY <1>1, <1>4, <1>5, <1>6 DEF WellPaged, Walking, v

LEMMA NoWalkIsWell ==
  ASSUME NEW ev, NEW cd
  PROVE  NoWalk \in WalkRecord /\ WellPaged(ev, cd, NoWalk)
<1>1. NoCursor \in Cursors
  BY DEF NoCursor, Cursors
<1>2. NoWalk \in WalkRecord
  BY <1>1, AccountsAssumption DEF NoWalk, WalkRecord
<1>3. QED
  BY <1>2 DEF NoWalk, WellPaged

\* A walk begins with nothing seen.
LEMMA StartIsWell ==
  ASSUME AccountInv, FeedTypes, PagesInv, NEW b \in Browsers, StartWalk(b)
  PROVE  PagesInv'
<1>1. PICK l \in ListingsOf(request[b].user), unread \in BOOLEAN :
        LET w == [NoWalk EXCEPT !.user = request[b].user, !.listing = l, !.unread = unread] IN
        walks' = [walks EXCEPT ![b] = ReadPage([w EXCEPT !.due = Listed(events, cards, w)])]
  BY DEF StartWalk
<1> DEFINE w == [NoWalk EXCEPT !.user = request[b].user, !.listing = l, !.unread = unread]
           v == [w EXCEPT !.due = Listed(events, cards, w)]
<1>2. request[b].user \in Users /\ l \in Listings
  BY AccountsAssumption
     DEF StartWalk, AccountInv, AccountTypes, RequestRecord, Users, ListingsOf
<1>3. request[b].user \in 0 .. MaxUsers /\ NoWalk \in WalkRecord
  BY <1>2, NoWalkIsWell, AccountsAssumption DEF Users
<1>4. /\ w.user = request[b].user /\ w.listing = l /\ w.unread = unread
      /\ w.cursor = NoWalk.cursor /\ w.seen = NoWalk.seen /\ w.twice = NoWalk.twice
      /\ w \in WalkRecord
  BY <1>2, <1>3 DEF WalkRecord
<1>5. Walking(w)
  BY <1>2, <1>4 DEF Walking
<1>6. Listed(events, cards, w) \subseteq Nat \ {0}
  BY <1>5, ListedPlaces
<1> HIDE DEF w
<1>7. /\ v.user = w.user /\ v.listing = w.listing /\ v.unread = w.unread
      /\ v.cursor = w.cursor /\ v.due = Listed(events, cards, w)
      /\ v.seen = w.seen /\ v.twice = w.twice
      /\ v \in WalkRecord
  BY <1>4, <1>6 DEF WalkRecord
<1> HIDE DEF v
<1>8. v.cursor = NoCursor /\ v.seen = {} /\ v.twice = {}
  BY <1>4, <1>7 DEF NoWalk
<1>9. Walking(v) /\ Listed(events, cards, v) = Listed(events, cards, w)
  BY <1>5, <1>7 DEF Walking, Listed
<1>10. Kept(events, cards, v)
  BY <1>7, <1>8, <1>9 DEF Kept
<1>11. ReadPage(v) \in WalkRecord /\ WellPaged(events, cards, ReadPage(v))
  BY <1>8, <1>9, <1>10, PageIsWell
<1>12. walks' = [walks EXCEPT ![b] = ReadPage(v)]
  BY <1>1 DEF w, v
<1>13. UNCHANGED <<events, cards>>
  BY DEF StartWalk, feed
<1>14. QED
  BY <1>11, <1>12, <1>13 DEF PagesInv

\* A page that was not the last goes on where it ended.
LEMMA NextIsWell ==
  ASSUME FeedTypes, PagesInv, NEW b \in Browsers, NextPage(b)
  PROVE  PagesInv'
<1>1. /\ Walking(walks[b]) /\ Kept(events, cards, walks[b])
      /\ walks[b].twice \subseteq walks[b].moved
  BY DEF NextPage, PagesInv, WellPaged
<1>2. ReadPage(walks[b]) \in WalkRecord /\ WellPaged(events, cards, ReadPage(walks[b]))
  BY <1>1, PageIsWell
<1>3. walks' = [walks EXCEPT ![b] = ReadPage(walks[b])] /\ UNCHANGED <<events, cards>>
  BY DEF NextPage, feed
<1>4. QED
  BY <1>2, <1>3 DEF PagesInv

LEMMA CloseIsWell ==
  ASSUME PagesInv, NEW b \in Browsers, CloseWalk(b)
  PROVE  PagesInv'
<1>1. walks' = [walks EXCEPT ![b] = NoWalk] /\ UNCHANGED <<events, cards>>
  BY DEF CloseWalk, feed
<1>2. QED
  BY <1>1, NoWalkIsWell DEF PagesInv

\* What is where it was still is before or after the cursor.
LEMMA TrackIsWell ==
  ASSUME FeedTypes, PagesInv, Track
  PROVE  PagesInv'
<1> SUFFICES ASSUME NEW b \in Browsers
             PROVE  walks'[b] \in WalkRecord /\ WellPaged(events', cards', walks'[b])
  <2>1. DOMAIN walks' = Browsers /\ walks' = [b \in Browsers |-> walks'[b]]
    BY DEF Track
  <2>2. QED
    BY <2>1 DEF PagesInv
<1> DEFINE w == walks[b]
           Row(ev, cd, i) == IF i \in Listed(ev, cd, w) THEN Position(ev, cd, w, i) ELSE NoCursor
           gone == {i \in w.due \cup w.seen : Row(events, cards, i) # Row(events', cards', i)}
           v == walks'[b]
<1>1. w \in WalkRecord /\ WellPaged(events, cards, w)
  BY DEF PagesInv
<1>2. CASE w.phase # "more"
  <2>1. v = w
    BY <1>2 DEF Track
  <2>2. QED
    BY <1>1, <1>2, <2>1 DEF WellPaged
<1>3. CASE w.phase = "more"
  <2>1. v = [w EXCEPT !.moved = w.moved \cup gone]
    BY <1>3 DEF Track
  <2>2. gone \subseteq Nat \ {0}
    BY <1>1 DEF WalkRecord
  <2>3. /\ v.phase = "more" /\ v.user = w.user /\ v.listing = w.listing /\ v.unread = w.unread
        /\ v.cursor = w.cursor /\ v.due = w.due /\ v.seen = w.seen /\ v.twice = w.twice
        /\ v.moved = w.moved \cup gone
    <3> HIDE DEF gone
    <3>1. QED
      BY <1>1, <1>3, <2>1 DEF WalkRecord
  <2>4. v \in WalkRecord
    <3>1. w.moved \cup gone \in SUBSET (Nat \ {0})
      BY <1>1, <2>2 DEF WalkRecord
    <3> HIDE DEF gone
    <3>2. QED
      BY <1>1, <2>1, <3>1 DEF WalkRecord
  <2>5. Walking(w) /\ Kept(events, cards, w) /\ w.twice \subseteq w.moved
    BY <1>1, <1>3 DEF WellPaged
  <2>6. Walking(v)
    BY <2>3, <2>4, <2>5 DEF Walking
  <2>7. /\ Listed(events', cards', v) = Listed(events', cards', w)
        /\ \A i : Position(events', cards', v, i) = Position(events', cards', w, i)
    <3> HIDE DEF v, w
    <3>1. QED
      BY <2>3 DEF Listed, Position
  <2>8. Kept(events', cards', v)
    <3> SUFFICES ASSUME NEW i \in (w.due \cup w.seen) \ (w.moved \cup gone)
                 PROVE  /\ i \in Listed(events', cards', w)
                        /\ Position(events', cards', w, i) = Position(events, cards, w, i)
      BY <2>3, <2>5, <2>7 DEF Kept
    <3>1. i \in Listed(events, cards, w) /\ i # 0
      BY <1>1, <2>5 DEF Kept, WalkRecord
    <3>2. Row(events, cards, i) = Position(events, cards, w, i)
      BY <3>1
    <3>3. Row(events', cards', i) = Row(events, cards, i)
      OBVIOUS
    <3>4. Position(events, cards, w, i).id = i
      BY <2>5, <3>1, ListedPlaces
    <3>5. Position(events, cards, w, i) # NoCursor
      BY <3>1, <3>4 DEF NoCursor
    <3>6. QED
      BY <3>2, <3>3, <3>5
  <2>9. v.twice \subseteq v.moved
    <3> HIDE DEF v, w, gone
    <3>1. QED
      BY <2>3, <2>5
  <2>10. WellPaged(events', cards', v)
    <3> HIDE DEF v, w, gone
    <3>1. QED
      BY <2>3, <2>4, <2>6, <2>8, <2>9 DEF WellPaged
  <2>11. QED
    BY <2>4, <2>10
<1>4. QED
  BY <1>2, <1>3

\* Someone who pages through a listing to its end while scans publish, providers
\* edit and other devices mark things read has seen all that was listed at the
\* start and stayed where it was, and nothing of it twice (_events_after_cursor,
\* _after).
THEOREM PagesCover ==
  Spec => []PagesCoverOnce
<1>1. Init => PagesInv
  BY NoWalkIsWell DEF Init, InitFeed, PagesInv
<1>2. IndInv /\ PagesInv /\ [Next]_vars => PagesInv'
  <2> SUFFICES ASSUME IndInv, PagesInv, [Next]_vars PROVE PagesInv'
    OBVIOUS
  <2>1. AccountInv /\ FeedTypes
    BY DEF IndInv
  <2>2. ASSUME UNCHANGED <<events, cards, walks>> PROVE PagesInv'
    BY <2>2 DEF PagesInv
  <2>3. CASE AccountStep /\ UNCHANGED <<feed, walks, deletions, late, bounds>>
    BY <2>2, <2>3 DEF feed
  <2>4. ASSUME NEW b \in Browsers, MemberStep(b) PROVE PagesInv'
    <3>1. CASE StartWalk(b)
      BY <2>1, <3>1, StartIsWell
    <3>2. CASE NextPage(b)
      BY <2>1, <3>2, NextIsWell
    <3>3. CASE CloseWalk(b)
      BY <3>3, CloseIsWell
    <3>4. CASE Watch(b) \/ Unwatch(b) \/ \E e \in Facts : LoadMark(b, e)
      BY <2>2, <3>4 DEF Watch, Unwatch, LoadMark, feed
    <3>5. CASE StoreMark(b) \/ MarkAll(b) \/ (\E c \in Cards : MarkCard(b, c)) \/ CommitDeletion(b)
      <4>1. Track
        BY <3>5 DEF StoreMark, MarkAll, MarkCard, CommitDeletion
      <4>2. QED
        BY <2>1, <4>1, TrackIsWell
    <3>6. CASE Preparing(b)
      BY <2>2, <3>6 DEF Preparing, StartDeletion, DeleteCards, DeleteEvents, DeleteWatches,
                        AbortDeletion, feed
    <3>7. QED
      BY <2>4, <3>1, <3>2, <3>3, <3>4, <3>5, <3>6 DEF MemberStep, Deleting, Preparing
  <2>5. ASSUME NEW u \in Users, ScanStep(u) PROVE PagesInv'
    <3>1. Track
      BY <2>5 DEF ScanStep, Publish, Refresh
    <3>2. QED
      BY <2>1, <3>1, TrackIsWell
  <2>6. CASE UNCHANGED vars
    BY <2>2, <2>6 DEF vars, feed
  <2>7. QED
    BY <2>3, <2>4, <2>5, <2>6 DEF Next
<1>3. PagesInv => PagesCoverOnce
  BY DEF PagesInv, WellPaged, PagesCoverOnce
<1>4. QED
  BY <1>1, <1>2, <1>3, Invariance, PTL DEF Spec
=============================================================================
