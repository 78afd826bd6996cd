------------------------------ MODULE MCFeedReading ------------------------------
(* Two browsers sign in side by side, or are two devices of one member. *)
EXTENDS FeedReading, TLC

CONSTANTS b1, b2, s1, e1

MCMembers == (1 :> {1, 2}) @@ (2 :> {3})
MCReferenced == 1 :> {2, 3}
MCScans == <<{2}, {1}>>
MCFirstDate == (1 :> 1) @@ (2 :> 1) @@ (3 :> 0)
MCListings == {[of |-> "events", card |-> 0], [of |-> "cards", card |-> 0],
               [of |-> "commits", card |-> 1]}

\* Nobody has an account; no watch is left for this behaviour.
Strangers == InitAccounts /\ InitFeed /\ watchesLeft = 0 /\ editsLeft = 0

\* Both flows are over: the browsers are signed in to one account.
Devices ==
  /\ mailbox = [s \in Subjects |-> e1]
  /\ users = [u \in Users |-> IF u = 1 THEN e1 ELSE NoEmail] /\ issued = 1
  /\ links = [s \in Subjects |-> IF s = s1 THEN 1 ELSE 0]
  /\ flows = [f \in Flows |-> [NoFlow EXCEPT !.phase = "done", !.subject = s1, !.user = 1,
                                !.email = e1, !.browser = IF f = 1 THEN b1 ELSE b2]]
  /\ sessions = [f \in Flows |-> [user |-> 1, expires |-> SessionTicks, revoked |-> FALSE]]
  /\ jar = [b \in Browsers |-> [EmptyJar EXCEPT !.session = IF b = b1 THEN 1 ELSE 2]]
  /\ request = [b \in Browsers |-> NoRequest] /\ now = 0 /\ failures = 0
  /\ InitFeed /\ watchesLeft = MaxWatches /\ editsLeft = MaxEdits

PastsSpec == (Strangers \/ Devices) /\ [][Next]_vars
=============================================================================
