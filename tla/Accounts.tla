--------------------------------- MODULE Accounts ---------------------------------
(****************************************************************************)
(* Accounts: signing in with Google, sessions, requests and the deletion of *)
(* an account.                                                              *)
(*                                                                          *)
(*   backend/app/api/{auth.py,routes/auth.py}    cookies and the callback   *)
(*   backend/app/services/auth/service.py        the steps of a sign-in     *)
(*   backend/app/storage/auth                    one transaction per step   *)
(*   backend/app/integrations/identity/google.py what Google vouches for    *)
(*                                                                          *)
(* A sign-in is a flow.  The state and the nonce of a flow are its number,  *)
(* and so is the token of the session it ends in.                           *)
(****************************************************************************)
EXTENDS Integers, FiniteSets

CONSTANTS
  Browsers, Subjects, Emails,
  MaxFlows, MaxUsers, MaxTime, MaxFailures,  \* bounds of the model
  FlowTicks,     \* GOOGLE_OAUTH_FLOW_TTL_SECONDS
  SessionTicks   \* AUTH_SESSION_TTL_SECONDS

ASSUME AccountsAssumption ==
  /\ MaxFlows \in Nat /\ MaxUsers \in Nat /\ MaxTime \in Nat /\ MaxFailures \in Nat
  /\ FlowTicks \in Nat \ {0} /\ SessionTicks \in Nat \ {0}
  /\ "none" \notin Emails

VARIABLES
  mailbox,   \* subject |-> its address at Google
  users,     \* user |-> the address of the account, none when there is none
  issued,    \* the number of user identifiers that were given away
  links,     \* subject |-> its user, nought when it is not linked
  flows,     \* flow |-> how far it is
  sessions,  \* flow |-> the session it ended in
  jar,       \* browser |-> its cookies
  request,   \* browser |-> the user its request was authenticated as
  now, failures

accounts == <<mailbox, users, issued, links, flows, sessions, jar, request, now, failures>>

Flows == 1 .. MaxFlows
Users == 1 .. MaxUsers
NoEmail == "none"
NoFlow == [phase |-> "unused", subject |-> "none", email |-> NoEmail, browser |-> "none",
           user |-> 0, disturbed |-> FALSE]
NoSession == [user |-> 0, expires |-> 0, revoked |-> FALSE]
NoRequest == [user |-> 0, mark |-> 0]
EmptyJar == [flow |-> 0, until |-> 0, session |-> 0]

InitAccounts ==
  /\ mailbox \in [Subjects -> Emails]
  /\ \A s, t \in Subjects : s # t => mailbox[s] # mailbox[t]
  /\ users = [u \in Users |-> NoEmail] /\ issued = 0
  /\ links = [s \in Subjects |-> 0]
  /\ flows = [f \in Flows |-> NoFlow] /\ sessions = [f \in Flows |-> NoSession]
  /\ jar = [b \in Browsers |-> EmptyJar] /\ request = [b \in Browsers |-> NoRequest]
  /\ now = 0 /\ failures = 0

Existing == {u \in Users : users[u] # NoEmail}
Under(f) == flows[f].phase \notin {"unused", "away", "done", "denied", "expired",
                                   "mismatch", "failed"}

\* What a write disturbs: the flows under way but the one that writes.
Disturbed(all, writer) ==
  [f \in Flows |-> IF f # writer /\ Under(f) THEN [all[f] EXCEPT !.disturbed = TRUE]
                   ELSE all[f]]

\* A write by another flow, seen through the flows under way.
Write(f, flow) == flows' = Disturbed([flows EXCEPT ![f] = flow], f)
Read(f, flow) == flows' = [flows EXCEPT ![f] = flow]

\* The callback answers: whatever it says, it clears the cookies of the flow.
Answered(b, session) ==
  jar' = [jar EXCEPT ![b].flow = 0, ![b].until = 0, ![b].session = session]

EndBadly(f, phase) ==
  /\ Read(f, [flows[f] EXCEPT !.phase = phase])
  /\ Answered(flows[f].browser, jar[flows[f].browser].session)

-----------------------------------------------------------------------------
(* Beginning a flow, and coming back from Google *)

\* A second flow of a browser replaces the cookies of the first.
Begin(b, s) ==
  \E f \in Flows :
    /\ flows[f] = NoFlow /\ \A g \in Flows : g < f => flows[g] # NoFlow
    /\ Read(f, [NoFlow EXCEPT !.phase = "away", !.subject = s, !.browser = b])
    /\ jar' = [jar EXCEPT ![b].flow = f, ![b].until = now + FlowTicks]
    /\ UNCHANGED <<mailbox, users, issued, links, sessions, request, now, failures>>

\* GoogleOAuthClient.authenticate: the address that is the subject's by now.
Vouched(f) == mailbox[flows[f].subject]

CookiesExpired(b) == jar[b].flow = 0 \/ jar[b].until <= now

StateMatches(f) == jar[flows[f].browser].flow = f

\* Google denies, or returns a code that stands for the subject and its address.
Callback(f) ==
  LET b == flows[f].browser IN
  /\ flows[f].phase = "away"
  /\ \/ EndBadly(f, "denied")
     \/ CookiesExpired(b) /\ EndBadly(f, "expired")
     \/ ~CookiesExpired(b) /\ ~StateMatches(f) /\ EndBadly(f, "mismatch")
     \/ /\ ~CookiesExpired(b) /\ StateMatches(f)
        /\ Read(f, [flows[f] EXCEPT !.phase = "identified",
                                    !.email = Vouched(f)])
        /\ UNCHANGED jar
  /\ UNCHANGED <<mailbox, users, issued, links, sessions, request, now, failures>>

-----------------------------------------------------------------------------
(* upsert_google_user, a transaction for each step *)

LookUpLink(f) ==
  LET u == links[flows[f].subject] IN
  /\ flows[f].phase = "identified"
  /\ Read(f, [flows[f] EXCEPT !.phase = IF u # 0 THEN "linked" ELSE "not linked",
                              !.user = u])
  /\ UNCHANGED <<mailbox, users, issued, links, sessions, jar, request, now, failures>>

\* Bug: only users that are linked are known.
LinkedHolders(email) == {links[s] : s \in Subjects} \cap {u \in Users : users[u] = email}

Holders(email) == {u \in Users : users[u] = email}

LookUpEmail(f) ==
  LET same == Holders(flows[f].email) IN
  /\ flows[f].phase = "not linked"
  /\ Read(f, [flows[f] EXCEPT !.phase = IF same # {} THEN "known" ELSE "unknown",
                              !.user = IF same # {} THEN CHOOSE u \in same : TRUE ELSE 0])
  /\ UNCHANGED <<mailbox, users, issued, links, sessions, jar, request, now, failures>>

\* ux_users_email: an address belongs to one user.
Clash(u, email) == \E v \in Users \ {u} : users[v] = email

\* update_user, of the user that was found by its link or by its address.
RefreshUser(f) ==
  LET flow == flows[f] IN
  /\ flow.phase \in {"linked", "known"}
  /\ IF flow.user \notin Existing \/ Clash(flow.user, flow.email)
     THEN EndBadly(f, "failed") /\ UNCHANGED users
     ELSE /\ users' = [users EXCEPT ![flow.user] = flow.email]
          /\ Write(f, [flow EXCEPT !.phase = IF @ = "linked" THEN "refreshed" ELSE "nameless"])
          /\ UNCHANGED jar
  /\ UNCHANGED <<mailbox, issued, links, sessions, request, now, failures>>

CreateUser(f) ==
  LET flow == flows[f] IN
  /\ flow.phase = "unknown" /\ issued < MaxUsers
  /\ IF Clash(0, flow.email)
     THEN EndBadly(f, "failed") /\ UNCHANGED <<users, issued>>
     ELSE /\ issued' = issued + 1
          /\ users' = [users EXCEPT ![issued'] = flow.email]
          /\ Write(f, [flow EXCEPT !.phase = "nameless", !.user = issued'])
          /\ UNCHANGED jar
  /\ UNCHANGED <<mailbox, links, sessions, request, now, failures>>

\* update_oauth_account: the link that was found, or nothing.
RefreshLink(f) ==
  LET flow == flows[f] IN
  /\ flow.phase = "refreshed"
  /\ IF links[flow.subject] # flow.user THEN EndBadly(f, "failed")
     ELSE Write(f, [flow EXCEPT !.phase = "resolved"]) /\ UNCHANGED jar
  /\ UNCHANGED <<mailbox, users, issued, links, sessions, request, now, failures>>

\* Bug: a link that is there already is no obstacle.
LinkAnyway(f) == flows[f].user \in Existing

\* The user must exist and the subject must not be linked.
CanLink(f) == flows[f].user \in Existing /\ links[flows[f].subject] = 0

CreateLink(f) ==
  LET flow == flows[f] IN
  /\ flow.phase = "nameless"
  /\ IF ~CanLink(f) THEN EndBadly(f, "failed") /\ UNCHANGED links
     ELSE /\ links' = [links EXCEPT ![flow.subject] = flow.user]
          /\ Write(f, [flow EXCEPT !.phase = "resolved"]) /\ UNCHANGED jar
  /\ UNCHANGED <<mailbox, users, issued, sessions, request, now, failures>>

\* Bug: a session is stored although its user is gone.
SessionForAnyone(f) == TRUE

\* A session refers to its user.
CanHoldSession(f) == flows[f].user \in Existing

NewSession(f) ==
  [user |-> flows[f].user, expires |-> now + SessionTicks, revoked |-> FALSE]

CreateSession(f) ==
  LET flow == flows[f] IN
  /\ flow.phase = "resolved"
  /\ IF ~CanHoldSession(f) THEN EndBadly(f, "failed") /\ UNCHANGED sessions
     ELSE /\ sessions' = [sessions EXCEPT ![f] = NewSession(f)]
          /\ Read(f, [flow EXCEPT !.phase = "done"])
          /\ Answered(flow.browser, f)
  /\ UNCHANGED <<mailbox, users, issued, links, request, now, failures>>

\* The database is out of reach, Google is, or the process stops and nothing is
\* answered.
Break(f) ==
  /\ Under(f) /\ failures < MaxFailures /\ failures' = failures + 1
  /\ flows' = [flows EXCEPT ![f].phase = "failed", ![f].disturbed = TRUE]
  /\ \/ Answered(flows[f].browser, jar[flows[f].browser].session)
     \/ UNCHANGED jar
  /\ UNCHANGED <<mailbox, users, issued, links, sessions, request, now>>

SignIn(f) ==
  \/ Callback(f) \/ LookUpLink(f) \/ LookUpEmail(f) \/ RefreshUser(f) \/ CreateUser(f)
  \/ RefreshLink(f) \/ CreateLink(f) \/ CreateSession(f) \/ Break(f)

-----------------------------------------------------------------------------
(* Requests *)

\* The session is joined with its user.
Valid(f) ==
  /\ sessions[f] # NoSession /\ ~sessions[f].revoked /\ sessions[f].expires > now
  /\ sessions[f].user \in Existing

\* get_authenticated_user; what the request asks for is the next step.
Authenticate(b) ==
  /\ request[b] = NoRequest /\ jar[b].session # 0 /\ Valid(jar[b].session)
  /\ request' = [request EXCEPT ![b].user = sessions[jar[b].session].user]
  /\ UNCHANGED <<mailbox, users, issued, links, flows, sessions, jar, now, failures>>

Answer(b) == request' = [request EXCEPT ![b] = NoRequest]

LogOut(b) ==
  /\ request[b] = NoRequest /\ jar[b].session # 0
  /\ LET f == jar[b].session IN
     sessions' = IF sessions[f] = NoSession THEN sessions
                 ELSE [sessions EXCEPT ![f].revoked = TRUE]
  /\ jar' = [jar EXCEPT ![b].session = 0]
  /\ UNCHANGED <<mailbox, users, issued, links, flows, request, now, failures>>

\* A deletion commits: the links and the sessions of the user go with it; what else
\* is deleted is said where it is kept.  Another deletion may have been first.
DeleteUser(b) ==
  LET u == request[b].user IN
  /\ u # 0 /\ request[b].mark = 0
  /\ users' = [users EXCEPT ![u] = NoEmail]
  /\ links' = [s \in Subjects |-> IF links[s] = u THEN 0 ELSE links[s]]
  /\ sessions' = [f \in Flows |-> IF sessions[f].user = u THEN NoSession ELSE sessions[f]]
  /\ flows' = IF u \in Existing THEN Disturbed(flows, 0) ELSE flows
  /\ jar' = [jar EXCEPT ![b].session = 0]
  /\ Answer(b)
  /\ UNCHANGED <<mailbox, issued, now, failures>>

Tick ==
  /\ now < MaxTime /\ now' = now + 1
  /\ UNCHANGED <<mailbox, users, issued, links, flows, sessions, jar, request, failures>>

\* The address of a subject is another one from now on, which only matters while
\* a flow may still come back from Google.
MailboxMoves(s, e) ==
  /\ \E f \in Flows : flows[f].phase \in {"unused", "away"}
  /\ \A t \in Subjects : mailbox[t] # e
  /\ mailbox' = [mailbox EXCEPT ![s] = e]
  /\ UNCHANGED <<users, issued, links, flows, sessions, jar, request, now, failures>>

\* What leaves the data of the members alone.
AccountStep ==
  \/ \E b \in Browsers : (\E s \in Subjects : Begin(b, s)) \/ Authenticate(b) \/ LogOut(b)
  \/ \E f \in Flows : SignIn(f)
  \/ \E s \in Subjects, e \in Emails : MailboxMoves(s, e)
  \/ Tick

-----------------------------------------------------------------------------

\* Addresses and subjects are unique, and what is linked or signed in exists.
AccountsOK ==
  /\ \A u, v \in Existing : users[u] = users[v] => u = v
  /\ \A u \in Existing : u <= issued
  /\ \A s \in Subjects : links[s] # 0 => links[s] \in Existing
  /\ \A f \in Flows : sessions[f] # NoSession =>
       /\ sessions[f].user \in Existing
       /\ flows[f].phase = "done"
  /\ \A b \in Browsers : jar[b].flow \in 0 .. MaxFlows /\ request[b].user \in 0 .. MaxUsers

\* A sign-in ends in a session of the user its subject is linked to, whatever
\* other sign-ins and deletions do between its steps (upsert_google_user).
SignInIsOwn ==
  [][\A f \in Flows : sessions[f] = NoSession /\ sessions'[f] # NoSession =>
       /\ sessions'[f].user = links'[flows[f].subject]
       /\ sessions'[f].user \in Existing']_accounts

\* A sign-in that fails has a reason: since it came back from Google another one
\* wrote or something broke, or its subject took the address of another account.
\* So what a sign-in that was cut off has left never keeps its subject out.  A
\* state is another one only when the browser began another flow.
FailuresAreExplained ==
  [][\A f \in Flows :
       /\ flows[f].phase # "failed" /\ flows'[f].phase = "failed" =>
            \/ flows'[f].disturbed
            \/ flows[f].phase = "linked" /\ Clash(flows[f].user, flows[f].email)
       /\ flows[f].phase # "mismatch" /\ flows'[f].phase = "mismatch" =>
            \E g \in Flows : g > f /\ flows[g].browser = flows[f].browser]_accounts
=============================================================================
