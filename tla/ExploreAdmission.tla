-------------------------- MODULE ExploreAdmission --------------------------
(***************************************************************************)
(* Admission of Explore searches: quotas, cooldowns and capacity that      *)
(* concurrent API requests consume under one database lock row.            *)
(*                                                                         *)
(*   backend/app/services/search/access/service.py   decisions and audit   *)
(*   backend/app/services/search/access/policy.py    limits of a tier      *)
(*   backend/app/storage/search_admission.py         locked transaction    *)
(*   backend/app/storage/explore/search_events.py    audit of denials      *)
(*                                                                         *)
(* A request classifies its visitor and verifies a challenge before it     *)
(* takes the lock; it reads the clock and the usage, decides and records   *)
(* while it holds it.  A search or expansion to be scheduled commits its   *)
(* run with its event (CreateRun and CommitExpand of SearchRunQueue); a    *)
(* direct search (POST /api/explore/search) commits the event alone.       *)
(***************************************************************************)
EXTENDS Integers, FiniteSetsExt

CONSTANTS
  Requests,           \* API requests that ask for a search or an expansion
  Users, Internal,    \* accounts, and those whose e-mail bypasses the quota
  Guests,             \* client addresses of visitors without an account
  None,               \* no request, subject or code
  TicksPerSecond,     \* clock ticks of one second
  Window, SuspiciousWindow,                        \* seconds
  UserCooldown, GuestCooldown, SuspiciousCooldown, \* seconds
  UserLimit, GuestLimit, GlobalLimit,              \* searches in a window
  Threshold,          \* denials that make a guest suspicious
  PublicGuests, Turnstile,                         \* features switched on
  MaxTime             \* bound: the clock stops there

ASSUME AdmissionAssumptions ==
  /\ Users \cap Guests = {} /\ Internal \subseteq Users
  /\ None \notin Requests \cup Users \cup Guests
  /\ IsFiniteSet(Requests)
  /\ {TicksPerSecond, Window, SuspiciousWindow, UserCooldown, GuestCooldown,
      UserLimit, GuestLimit, GlobalLimit, Threshold, MaxTime} \subseteq Nat \ {0}
  /\ SuspiciousCooldown \in Nat /\ SuspiciousCooldown >= GuestCooldown
  /\ PublicGuests \in BOOLEAN /\ Turnstile \in BOOLEAN

VARIABLES
  clock,    \* now, in ticks
  account,  \* users
  erased,   \* rows deleted by account deletions that have not committed
  lock,     \* request that holds the row of search_access_lock
  request,  \* what each request holds
  events    \* search_access_events

vars == <<clock, account, erased, lock, request, events>>

-----------------------------------------------------------------------------
Subjects == Users \cup Guests
Times    == 1..MaxTime
Ticks(seconds) == seconds * TicksPerSecond

Tiers   == {"user", "guest", "suspicious"}
Blocked == {"blocked_cooldown", "blocked_quota", "blocked_turnstile"}
Outcomes == {"allowed", "allowed_internal", "blocked_capacity"} \cup Blocked
Codes   == {"allowed", "disabled", "turnstile", "capacity", "cooldown", "quota"}

\* A row of the audit; its identifier stands for the request that wrote it.
\* Only a visitor who has to wait is told how long, a second at least.
EventRows == [id : Requests, subject : Subjects, outcome : Outcomes, at : Times,
              retry : Nat]
Decisions == [code : Codes \ {"cooldown", "quota"}, retry : {0}]
             \cup [code : {"cooldown", "quota"}, retry : Nat \ {0}]
Admitted  == [code |-> "allowed", retry |-> 0]

\* at is the time of the decision.
RequestRows == [pc : {"new", "verifying", "prepared", "locked", "decided", "done"},
                subject : Subjects \cup {None}, tier : Tiers, verified : BOOLEAN,
                at : 0..MaxTime, decision : Decisions]
NewRequest == [pc |-> "new", subject |-> None, tier |-> "user", verified |-> FALSE,
               at |-> 0, decision |-> Admitted]
Answered   == [NewRequest EXCEPT !.pc = "done"]

TypeOK ==
  /\ clock \in Times
  /\ account \in [Users -> {"active", "deleting", "deleted"}]
  /\ erased \subseteq events
  /\ lock \in Requests \cup {None}
  /\ request \in [Requests -> RequestRows]
  /\ events \subseteq EventRows

Init ==
  /\ clock = 1
  /\ account = [u \in Users |-> "active"]
  /\ erased = {}
  /\ lock = None
  /\ request = [q \in Requests |-> NewRequest]
  /\ events = {}

-----------------------------------------------------------------------------
(* Policy. *)

Limit(tier) == CASE tier = "user" -> UserLimit
                 [] tier = "guest" -> GuestLimit
                 [] tier = "suspicious" -> 1
Cooldown(tier) == Ticks(CASE tier = "user" -> UserCooldown
                          [] tier = "guest" -> GuestCooldown
                          [] tier = "suspicious" -> SuspiciousCooldown)

\* _resolve_guest_tier: recent denials make a guest suspicious.
TierOf(a) ==
  LET denials == {e \in events : /\ e.subject = a /\ e.outcome \in Blocked
                                 /\ e.at >= clock - Ticks(SuspiciousWindow)}
  IN  IF a \in Users THEN "user"
      ELSE IF Turnstile /\ Cardinality(denials) >= Threshold THEN "suspicious" ELSE "guest"

\* read_usage: only allowed searches count, from the start of the window on.
Allowed       == {e \in events : e.outcome = "allowed"}
Recent(now)   == {e \in Allowed : e.at >= now - Ticks(Window)}
Usage(a, now) == {e \in Recent(now) : e.subject = a}
AllowedAt(a)  == {e.at : e \in {f \in Allowed : f.subject = a}}
\* Bug: the oldest search starts the cooldown.
Oldest(a)     == Min(AllowedAt(a))
Last(a)       == Max(AllowedAt(a))
First(a, now) == Min({e.at : e \in Usage(a, now)})

\* Bug: a wait of less than a second is announced as none.
WholeSeconds(ticks) == ticks \div TicksPerSecond

\* Whole seconds, rounded down, at least one.
RetryAfter(ticks) == Max({ticks \div TicksPerSecond, 1})

Deny(code)           == [code |-> code, retry |-> 0]
DenyFor(code, ticks) == [code |-> code, retry |-> RetryAfter(ticks)]

AtCapacity(now) == Cardinality(Recent(now)) >= GlobalLimit
Cooling(a, tier, now) == AllowedAt(a) # {} /\ Last(a) + Cooldown(tier) > now
UsedUp(a, tier, now)  == Cardinality(Usage(a, now)) >= Limit(tier)

\* check_explore_access: its early returns in their order.
Decide(a, tier, verified, now) ==
  IF tier = "guest" /\ ~PublicGuests THEN Deny("disabled")
  ELSE IF tier = "suspicious" /\ ~verified THEN Deny("turnstile")
  ELSE IF a \in Internal THEN Admitted
  ELSE IF AtCapacity(now) THEN Deny("capacity")
  ELSE IF Cooling(a, tier, now) THEN DenyFor("cooldown", Last(a) + Cooldown(tier) - now)
  ELSE IF UsedUp(a, tier, now) THEN DenyFor("quota", First(a, now) + Ticks(Window) - now)
  ELSE Admitted

\* The outcome that is recorded for a decision.
Outcome(a, code) ==
  CASE code = "allowed" -> IF a \in Internal THEN "allowed_internal" ELSE "allowed"
    [] code = "cooldown" -> "blocked_cooldown"
    [] code \in {"quota", "disabled"} -> "blocked_quota"
    [] code = "turnstile" -> "blocked_turnstile"
    [] code = "capacity" -> "blocked_capacity"

-----------------------------------------------------------------------------
(* Actions. *)

At(q, pc) == request[q].pc = pc
Row(q, decision, at) ==
  [id |-> q, subject |-> request[q].subject, at |-> at,
   outcome |-> Outcome(request[q].subject, decision.code), retry |-> decision.retry]

\* prepare_explore_admission, before any lock; only a suspicious visitor's
\* challenge token is verified, and it may send none.
Arrive(q, a) ==
  /\ At(q, "new")
  /\ a \in Users => account[a] # "deleted"
  /\ \E pc \in {"verifying", "prepared"} :
       /\ pc = "verifying" => TierOf(a) = "suspicious"
       /\ request' = [request EXCEPT ![q].pc = pc, ![q].subject = a, ![q].tier = TierOf(a)]
  /\ UNCHANGED <<clock, account, erased, lock, events>>

Verified(q) ==
  /\ At(q, "verifying")
  /\ request' = [request EXCEPT ![q].pc = "prepared", ![q].verified = TRUE]
  /\ UNCHANGED <<clock, account, erased, lock, events>>

\* A failed verification is audited in a transaction of its own, without the lock.
VerificationFails(q) ==
  /\ At(q, "verifying")
  /\ events' = events \cup {Row(q, Deny("turnstile"), clock)}
  /\ request' = [request EXCEPT ![q] = Answered]
  /\ UNCHANGED <<clock, account, erased, lock>>

\* Bug: the lock row is not taken.
LockNothing(q) ==
  /\ At(q, "prepared")
  /\ lock' = q
  /\ request' = [request EXCEPT ![q].pc = "locked"]
  /\ UNCHANGED <<clock, account, erased, events>>

\* Bug: a lock for each visitor instead of one for all.
LockVisitor(q) ==
  /\ At(q, "prepared")
  /\ lock # None => request[lock].subject # request[q].subject
  /\ lock' = q
  /\ request' = [request EXCEPT ![q].pc = "locked"]
  /\ UNCHANGED <<clock, account, erased, events>>

\* explore_admission_transaction: the row lock is held until commit or rollback.
Lock(q) ==
  /\ At(q, "prepared") /\ lock = None
  /\ lock' = q
  /\ request' = [request EXCEPT ![q].pc = "locked"]
  /\ UNCHANGED <<clock, account, erased, events>>

\* record_explore_admission: the clock and the usage are read under the lock.
Consider(q) ==
  /\ At(q, "locked")
  /\ LET r == request[q] IN
     request' = [request EXCEPT ![q].pc = "decided", ![q].at = clock,
                   ![q].decision = Decide(r.subject, r.tier, r.verified, clock)]
  /\ UNCHANGED <<clock, account, erased, lock, events>>

\* The event carries the time of the decision, not of the commit. No foreign key
\* ties it to the account, which may be deleted by now: a direct search records it
\* all the same, and a scheduled one, whose run needs its owner, rolls back.
Commit(q) ==
  /\ At(q, "decided")
  /\ events' = events \cup {Row(q, request[q].decision, request[q].at)}
  /\ request' = [request EXCEPT ![q] = Answered]
  /\ lock' = None
  /\ UNCHANGED <<clock, account, erased>>

\* The run of an expansion is gone or no longer expandable, its account is, or
\* the database fails: the transaction rolls back and nothing is recorded.
RollBack(q) ==
  /\ At(q, "locked") \/ At(q, "decided")
  /\ request' = [request EXCEPT ![q] = Answered]
  /\ lock' = None
  /\ UNCHANGED <<clock, account, erased, events>>

\* delete_user_account deletes the events it sees, then the user, in one
\* transaction; what is recorded in between survives it.
BeginDelete(u) ==
  /\ account[u] = "active"
  /\ account' = [account EXCEPT ![u] = "deleting"]
  /\ erased' = erased \cup {e \in events : e.subject = u}
  /\ UNCHANGED <<clock, lock, request, events>>

CommitDelete(u) ==
  /\ account[u] = "deleting"
  /\ account' = [account EXCEPT ![u] = "deleted"]
  /\ events' = {e \in events : e.subject = u => e \notin erased}
  /\ erased' = {e \in erased : e.subject # u}
  /\ UNCHANGED <<clock, lock, request>>

Tick ==
  /\ clock < MaxTime
  /\ clock' = clock + 1
  /\ UNCHANGED <<account, erased, lock, request, events>>

\* No request is in progress; the API waits for the next.
Idle ==
  /\ \A q \in Requests : request[q].pc \in {"new", "done"}
  /\ UNCHANGED vars

Next ==
  \/ \E q \in Requests : \/ \E a \in Subjects : Arrive(q, a)
                         \/ Verified(q) \/ VerificationFails(q)
                         \/ Lock(q) \/ Consider(q) \/ Commit(q) \/ RollBack(q)
  \/ \E u \in Users : BeginDelete(u) \/ CommitDelete(u)
  \/ Tick \/ Idle

Spec == Init /\ [][Next]_vars

-----------------------------------------------------------------------------
(* Properties. *)

\* Limits that hold at every time, whatever tier a guest had when it was admitted.
MaxLimit(a) == IF a \in Users THEN UserLimit ELSE GuestLimit
MinCooldown(a) == Ticks(IF a \in Users THEN UserCooldown ELSE GuestCooldown)

\* Admitted searches in the window that ends with e.
UpTo(e) == {f \in Allowed : f.at \in (e.at - Ticks(Window))..e.at}

\* However requests of one visitor race, the searches it was admitted to within
\* any window are no more than its tier allows (check_explore_access, daily_limit).
QuotaHolds ==
  \A e \in Allowed : Cardinality({f \in UpTo(e) : f.subject = e.subject}) <= MaxLimit(e.subject)

\* Nor do all visitors together exceed the global capacity within any window.
CapacityHolds == \A e \in Allowed : Cardinality(UpTo(e)) <= GlobalLimit

\* Two admitted searches of a visitor are a cooldown apart, though the usage was
\* read and the event committed at different times.
CooldownHolds ==
  \A e, f \in Allowed :
    e # f /\ e.subject = f.subject =>
      \/ f.at >= e.at + MinCooldown(e.subject)
      \/ e.at >= f.at + MinCooldown(e.subject)
=============================================================================
