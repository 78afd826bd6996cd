-------------------------- MODULE MCMonitoringCards --------------------------
(* Two pasts of one repository: a member alone, or two members side by side. *)
EXTENDS MCMonitoringScan

CONSTANTS p1, u2, w2, r2, c1

\* Times before this one are over when the behaviour begins.
Begun(theAccounts, theWatches, theReleases, thePushes, theFaults) ==
  /\ clock = 1 /\ faults = theFaults
  /\ released = theReleases
  /\ branch = [p \in Repos |-> thePushes] /\ date = [c \in Commits |-> IF thePushes = <<>> THEN 0 ELSE 1]
  /\ account = theAccounts /\ watch = theWatches
  /\ cursor = [p \in Repos |-> NoCursor] /\ lease = NoLease
  /\ scanner = [s \in Scanners |-> Idle] /\ runRow = [s \in Scanners |-> NoRun]
  /\ events = {} /\ cards = {} /\ refs = [e \in Watches \X Releases |-> {}]

Unreleased == [r \in Releases |-> [repo |-> None, time |-> 0]]

\* One member: the other one has come and gone.  All of the activity is to come.
OneMember ==
  Begun([u \in Users |-> IF u = u2 THEN "deleted" ELSE "active"],
        [w \in Watches |-> IF w = w2 THEN [NoWatch EXCEPT !.state = "deleted", !.owner = u2,
                                           !.repo = p1, !.since = 1]
                           ELSE NoWatch],
        Unreleased, <<>>, 0)

\* Two members, and one release to come: the rest is older than their watches,
\* and what goes wrong went wrong before.
TwoMembers ==
  Begun([u \in Users |-> "active"], [w \in Watches |-> NoWatch],
        [Unreleased EXCEPT ![r2] = [repo |-> p1, time |-> 1]], <<c1>>, MaxFaults)

SpecOfMembers == (OneMember \/ TwoMembers) /\ [][Next]_vars
=============================================================================
