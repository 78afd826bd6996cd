----------------------- MODULE ExploreAdmissionProofs -----------------------
(***************************************************************************)
(* Theorems about ExploreAdmission for every set of requests and visitors, *)
(* every limit, cooldown and window.                                       *)
(***************************************************************************)
EXTENDS ExploreAdmission, FiniteSetTheorems, WellFoundedInduction, TLAPS

-----------------------------------------------------------------------------
(* Extrema and durations. *)

\* A set of naturals that is not empty has a least element.
LEMMA LeastNatural ==
  ASSUME NEW S \in SUBSET Nat, S # {}
  PROVE  \E x \in S : \A y \in S : x <= y
<1>1. PICK x \in S : \A y \in S : <<y, x>> \notin OpToRel(<, Nat)
  BY NatLessThanWellFounded, WFMin, Zenon
<1>2. \A y \in S : ~(y < x)
  BY <1>1 DEF OpToRel
<1>3. QED
  BY <1>2

\* Min and Max of the times of a visitor are such times, and extreme.
LEMMA MinOfTimes ==
  ASSUME NEW S \in SUBSET Nat, S # {}
  PROVE  Min(S) \in S /\ \A y \in S : Min(S) <= y
  BY LeastNatural DEF Min

LEMMA MaxOfTimes ==
  ASSUME NEW S \in SUBSET Times, S # {}
  PROVE  Max(S) \in S /\ \A y \in S : y <= Max(S)
<1> USE AdmissionAssumptions DEF Times
<1> DEFINE T == {MaxTime - y : y \in S}
<1>1. T \in SUBSET Nat /\ T # {}
  <2>1. MaxTime \in Nat /\ \A y \in S : y \in Nat /\ y <= MaxTime
    OBVIOUS
  <2>2. \A y \in S : MaxTime - y \in Nat
    BY <2>1
  <2>3. QED
    BY <2>2
<1>2. PICK m \in T : \A n \in T : m <= n
  BY <1>1, LeastNatural
<1>3. PICK x \in S : m = MaxTime - x
  OBVIOUS
<1>4. \A y \in S : x >= y
  BY <1>2, <1>3
<1>5. QED
  BY <1>3, <1>4 DEF Max

\* Durations are natural numbers and grow with their seconds.
LEMMA TicksType ==
  /\ \A s \in Nat : Ticks(s) \in Nat
  /\ \A s, t \in Nat : s <= t => Ticks(s) <= Ticks(t)
<1> USE AdmissionAssumptions
<1>1. TicksPerSecond \in Nat
  OBVIOUS
<1>2. \A s \in Nat : s * TicksPerSecond \in Nat
  BY <1>1
<1>3. ASSUME NEW s \in Nat, NEW t \in Nat, s <= t
      PROVE  s * TicksPerSecond <= t * TicksPerSecond
  <2>1. PICK d \in Nat : t = s + d
    <3>1. t - s \in Nat /\ t = s + (t - s)
      BY <1>3
    <3>2. QED
      BY <3>1
  <2>2. t * TicksPerSecond = s * TicksPerSecond + d * TicksPerSecond
    BY <1>1, <2>1
  <2>3. QED
    BY <1>1, <1>2, <2>2
<1>4. QED
  BY <1>2, <1>3 DEF Ticks

\* A wait is announced as at least one second.
LEMMA RetryAfterType == \A ticks \in Int : RetryAfter(ticks) \in Nat \ {0}
<1> SUFFICES ASSUME NEW ticks \in Int PROVE RetryAfter(ticks) \in Nat \ {0}
  OBVIOUS
<1> DEFINE x == ticks \div TicksPerSecond
<1>1. x \in Int
  BY AdmissionAssumptions
<1> HIDE DEF x
<1>2. Max({x, 1}) \in {x, 1} /\ Max({x, 1}) >= 1
  <2>1. \E m \in {x, 1} : \A y \in {x, 1} : m >= y
    BY <1>1
  <2>2. QED
    BY <1>1, <2>1 DEF Max
<1>3. QED
  BY <1>1, <1>2 DEF RetryAfter, x

-----------------------------------------------------------------------------
(* The inductive invariant. *)

\* The lock has one holder at a time.
Locking == \A q \in Requests : request[q].pc \in {"locked", "decided"} => lock = q

\* A request on its way has a visitor and the tier of that visitor's kind.
Classified == \A q \in Requests : request[q].pc \notin {"new", "done"} =>
                /\ request[q].subject \in Subjects
                /\ request[q].tier = "user" <=> request[q].subject \in Users

\* Nothing is dated in the future.
InThePast == /\ IsFiniteSet(events)
             /\ \A e \in events : e.at <= clock

\* A search of visitor a at now fits among the admitted searches S: they are
\* fewer than the limits and a cooldown away.
Fits(S, a, now) ==
  /\ Cardinality({e \in S : e.at >= now - Ticks(Window)}) < GlobalLimit
  /\ Cardinality({e \in S : e.at >= now - Ticks(Window) /\ e.subject = a}) < MaxLimit(a)
  /\ \A e \in S : e.subject = a => e.at + MinCooldown(a) <= now

\* An admission that has not committed yet still has room.
Room(q) ==
  /\ request[q].at \in Times /\ request[q].at <= clock
  /\ \A e \in Allowed : e.at <= request[q].at
  /\ request[q].decision.code = "allowed" /\ request[q].subject \notin Internal =>
       Fits(Allowed, request[q].subject, request[q].at)
Decided == \A q \in Requests : request[q].pc = "decided" => Room(q)

Limits == QuotaHolds /\ CapacityHolds /\ CooldownHolds

IndInv == TypeOK /\ Locking /\ Classified /\ InThePast /\ Decided /\ Limits

-----------------------------------------------------------------------------
(* Type correctness. *)

\* Searches are dated by the clock.
LEMMA AllowedTimes ==
  ASSUME TypeOK
  PROVE  /\ \A e \in Allowed : e.at \in Times
         /\ \A a : AllowedAt(a) \in SUBSET Times
  BY DEF TypeOK, EventRows, Allowed, AllowedAt

\* Limits are positive and cooldowns are durations; those of a tier are as
\* strict as those of its visitors.
LEMMA LimitsType ==
  /\ \A tier \in Tiers : Limit(tier) \in Nat \ {0} /\ Cooldown(tier) \in Nat
  /\ \A a \in Subjects : MaxLimit(a) \in Nat /\ MinCooldown(a) \in Nat
  /\ \A a \in Subjects, tier \in Tiers : (tier = "user" <=> a \in Users) =>
       Limit(tier) <= MaxLimit(a) /\ MinCooldown(a) <= Cooldown(tier)
<1> USE AdmissionAssumptions
<1>1. /\ UserLimit \in Nat \ {0} /\ GuestLimit \in Nat \ {0}
      /\ UserCooldown \in Nat /\ GuestCooldown \in Nat /\ SuspiciousCooldown \in Nat
      /\ GuestCooldown <= SuspiciousCooldown
  OBVIOUS
<1>2. /\ Ticks(UserCooldown) \in Nat /\ Ticks(GuestCooldown) \in Nat
      /\ Ticks(SuspiciousCooldown) \in Nat
      /\ Ticks(GuestCooldown) <= Ticks(SuspiciousCooldown)
  BY <1>1, TicksType
<1>3. /\ Limit("user") = UserLimit /\ Limit("guest") = GuestLimit /\ Limit("suspicious") = 1
      /\ Cooldown("user") = Ticks(UserCooldown) /\ Cooldown("guest") = Ticks(GuestCooldown)
      /\ Cooldown("suspicious") = Ticks(SuspiciousCooldown)
  BY DEF Limit, Cooldown
<1>4. QED
  BY <1>1, <1>2, <1>3 DEF Tiers, MaxLimit, MinCooldown

\* A decision is a decision record.
LEMMA DecideType ==
  ASSUME TypeOK, NEW a \in Subjects, NEW tier \in Tiers, NEW verified \in BOOLEAN,
         NEW now \in Times
  PROVE  Decide(a, tier, verified, now) \in Decisions
<1> USE DEF Decisions, Codes
<1>1. \A code \in Codes \ {"cooldown", "quota"} : Deny(code) \in Decisions
  BY DEF Deny
<1>2. \A ticks \in Int : DenyFor("cooldown", ticks) \in Decisions
                         /\ DenyFor("quota", ticks) \in Decisions
  BY RetryAfterType DEF DenyFor
<1>3. Admitted \in Decisions
  BY DEF Admitted
<1>4. Cooling(a, tier, now) => Last(a) + Cooldown(tier) - now \in Int
  <2>1. Cooling(a, tier, now) => Last(a) \in Int
    BY MaxOfTimes, AllowedTimes DEF Cooling, Last, Times
  <2>2. QED
    BY <2>1, LimitsType DEF Times
<1>5. UsedUp(a, tier, now) => First(a, now) + Ticks(Window) - now \in Int
  <2>1. ASSUME UsedUp(a, tier, now) PROVE First(a, now) \in Int
    <3> DEFINE S == {e.at : e \in Usage(a, now)}
    <3>1. Usage(a, now) # {}
      BY <2>1, LimitsType, FS_EmptySet DEF UsedUp
    <3>2. S \in SUBSET Nat /\ S # {}
      BY <3>1, AllowedTimes DEF Usage, Recent, Times
    <3>3. Min(S) \in Nat
      BY <3>2, MinOfTimes
    <3>4. QED
      BY <3>3 DEF First
  <2>2. Ticks(Window) \in Nat
    BY TicksType, AdmissionAssumptions
  <2>3. QED
    BY <2>1, <2>2 DEF Times
<1>6. QED
  BY <1>1, <1>2, <1>3, <1>4, <1>5 DEF Decide

\* What is recorded of a request is an audit row.
LEMMA RowType ==
  ASSUME TypeOK, NEW q \in Requests, request[q].subject \in Subjects,
         NEW decision \in Decisions, NEW now \in Times
  PROVE  Row(q, decision, now) \in EventRows
<1>1. decision.code \in Codes /\ decision.retry \in Nat
  BY DEF Decisions, Codes
<1>2. Outcome(request[q].subject, decision.code) \in Outcomes
  BY <1>1 DEF Codes, Outcome, Outcomes, Blocked
<1>3. QED
  BY <1>1, <1>2 DEF Row, EventRows

\* The rows that requests move to.
LEMMA AnsweredType == Answered \in RequestRows /\ NewRequest \in RequestRows
<1>1. 0 \in 0..MaxTime
  <2>1. MaxTime \in Nat
    BY AdmissionAssumptions
  <2>2. QED
    BY <2>1
<1>2. Admitted \in Decisions
  BY DEF Admitted, Decisions, Codes
<1>3. NewRequest \in RequestRows
  BY <1>1, <1>2 DEF NewRequest, RequestRows, Tiers
<1>4. QED
  BY <1>3 DEF Answered, RequestRows

LEMMA RequestUpdates ==
  ASSUME NEW row \in RequestRows
  PROVE  /\ \A pc \in {"verifying", "prepared"}, a \in Subjects, tier \in Tiers :
              [row EXCEPT !.pc = pc, !.subject = a, !.tier = tier] \in RequestRows
         /\ [row EXCEPT !.pc = "prepared", !.verified = TRUE] \in RequestRows
         /\ \A now \in 0..MaxTime, d \in Decisions :
              [row EXCEPT !.pc = "decided", !.at = now, !.decision = d] \in RequestRows
  BY DEF RequestRows

\* Every step keeps the types.
LEMMA TypeStep ==
  ASSUME IndInv, [Next]_vars
  PROVE  TypeOK'
<1> USE AdmissionAssumptions DEF IndInv
<1>a. Answered \in RequestRows
  BY AnsweredType
<1>1. ASSUME NEW q \in Requests, NEW a \in Subjects, Arrive(q, a)
      PROVE  TypeOK'
  <2>1. TierOf(a) \in Tiers
    BY DEF TierOf, Tiers
  <2>2. PICK pc \in {"verifying", "prepared"} :
          request' = [request EXCEPT ![q].pc = pc, ![q].subject = a, ![q].tier = TierOf(a)]
    BY <1>1 DEF Arrive
  <2>3. request' \in [Requests -> RequestRows]
    <3>1. request' = [request EXCEPT ![q] =
                        [request[q] EXCEPT !.pc = pc, !.subject = a, !.tier = TierOf(a)]]
      BY <2>2 DEF TypeOK
    <3>2. QED
      BY <2>1, <3>1, RequestUpdates DEF TypeOK
  <2>4. QED
    BY <1>1, <2>3 DEF Arrive, TypeOK
<1>2. ASSUME NEW q \in Requests, Verified(q)
      PROVE  TypeOK'
  <2>1. request' = [request EXCEPT ![q] = [request[q] EXCEPT !.pc = "prepared",
                                                              !.verified = TRUE]]
    BY <1>2 DEF Verified, TypeOK
  <2>2. [request[q] EXCEPT !.pc = "prepared", !.verified = TRUE] \in RequestRows
    BY RequestUpdates DEF TypeOK
  <2>3. request' \in [Requests -> RequestRows]
    BY Zenon, <2>1, <2>2 DEF TypeOK
  <2>4. QED
    BY <1>2, <2>3 DEF Verified, TypeOK
<1>3. ASSUME NEW q \in Requests, VerificationFails(q)
      PROVE  TypeOK'
  <2>1. Deny("turnstile") \in Decisions /\ request[q].subject \in Subjects
    BY <1>3 DEF Deny, Decisions, Codes, VerificationFails, At, Classified
  <2>2. Row(q, Deny("turnstile"), clock) \in EventRows
    BY <2>1, RowType DEF TypeOK
  <2>3. QED
    BY <1>3, <1>a, <2>2 DEF VerificationFails, TypeOK
<1>4. ASSUME NEW q \in Requests, Lock(q)
      PROVE  TypeOK'
  BY <1>4 DEF Lock, TypeOK, RequestRows
<1>5. ASSUME NEW q \in Requests, Consider(q)
      PROVE  TypeOK'
  <2> DEFINE d == Decide(request[q].subject, request[q].tier, request[q].verified, clock)
  <2>1. request[q] \in RequestRows /\ request[q].subject \in Subjects
    BY <1>5 DEF TypeOK, Consider, At, Classified
  <2>2. d \in Decisions
    BY <2>1, DecideType DEF TypeOK, RequestRows
  <2>3. clock \in 0..MaxTime
    BY DEF TypeOK, Times
  <2>4. request' = [request EXCEPT ![q] =
                      [request[q] EXCEPT !.pc = "decided", !.at = clock, !.decision = d]]
    BY <1>5 DEF Consider, TypeOK
  <2> HIDE DEF d
  <2>5. request' \in [Requests -> RequestRows]
    BY <2>1, <2>2, <2>3, <2>4, RequestUpdates DEF TypeOK
  <2>6. QED
    BY <1>5, <2>5 DEF Consider, TypeOK
<1>6. ASSUME NEW q \in Requests, Commit(q)
      PROVE  TypeOK'
  <2>1. /\ request[q].decision \in Decisions /\ request[q].subject \in Subjects
        /\ request[q].at \in Times
    BY <1>6 DEF Commit, At, TypeOK, RequestRows, Classified, Decided, Room
  <2>2. Row(q, request[q].decision, request[q].at) \in EventRows
    BY <2>1, RowType
  <2>3. QED
    BY <1>6, <1>a, <2>2 DEF Commit, TypeOK
<1>7. ASSUME NEW q \in Requests, RollBack(q)
      PROVE  TypeOK'
  BY <1>7, <1>a DEF RollBack, TypeOK
<1>8. ASSUME NEW u \in Users, BeginDelete(u) \/ CommitDelete(u)
      PROVE  TypeOK'
  BY <1>8 DEF BeginDelete, CommitDelete, TypeOK
<1>9. CASE Tick
  BY <1>9 DEF Tick, TypeOK, Times
<1>10. CASE UNCHANGED vars
  BY <1>10 DEF vars, TypeOK
<1>11. QED
  BY <1>1, <1>2, <1>3, <1>4, <1>5, <1>6, <1>7, <1>8, <1>9, <1>10 DEF Next, Idle

-----------------------------------------------------------------------------
(* Admitted searches that disappear, and one that is added. *)

\* Sets of admitted searches are finite; a part of one is no larger.
LEMMA Counting ==
  ASSUME IsFiniteSet(events), NEW S \in SUBSET Allowed, NEW T \in SUBSET S
  PROVE  /\ IsFiniteSet(S) /\ Cardinality(S) \in Nat /\ Cardinality(T) \in Nat
         /\ Cardinality(T) <= Cardinality(S)
<1>1. IsFiniteSet(S)
  <2>1. S \in SUBSET events
    BY DEF Allowed
  <2>2. QED
    BY <2>1, FS_Subset
<1>2. QED
  BY <1>1, FS_Subset, FS_CardinalityType

\* Fewer admitted searches respect the limits.
LEMMA LimitsShrink ==
  ASSUME TypeOK, IsFiniteSet(events), Limits, Allowed' \subseteq Allowed
  PROVE  Limits'
<1>1. ASSUME NEW e \in Allowed'
      PROVE  /\ UpTo(e) \in SUBSET Allowed /\ UpTo(e)' \in SUBSET UpTo(e)
             /\ MaxLimit(e.subject) \in Nat /\ GlobalLimit \in Nat
  <2>1. e.subject \in Subjects
    BY <1>1 DEF Allowed, TypeOK, EventRows
  <2>2. QED
    BY <1>1, <2>1, LimitsType, AdmissionAssumptions DEF UpTo
<1>2. QuotaHolds'
  <2>1. ASSUME NEW e \in Allowed'
        PROVE  Cardinality({f \in UpTo(e)' : f.subject = e.subject}) <= MaxLimit(e.subject)
    <3> DEFINE S == {f \in UpTo(e) : f.subject = e.subject}
               T == {f \in UpTo(e)' : f.subject = e.subject}
    <3>1. S \in SUBSET Allowed /\ T \in SUBSET S
      BY <1>1
    <3>2. Cardinality(S) <= MaxLimit(e.subject)
      BY <2>1 DEF Limits, QuotaHolds
    <3> HIDE DEF S, T
    <3>3. Cardinality(T) <= MaxLimit(e.subject)
      BY <1>1, <3>1, <3>2, Counting
    <3>4. QED
      BY <3>3 DEF T
  <2>2. QED
    BY <2>1 DEF QuotaHolds, MaxLimit
<1>3. CapacityHolds'
  <2>1. ASSUME NEW e \in Allowed'
        PROVE  Cardinality(UpTo(e)') <= GlobalLimit
    <3>1. Cardinality(UpTo(e)) <= GlobalLimit
      BY <2>1 DEF Limits, CapacityHolds
    <3>2. QED
      BY <1>1, <3>1, Counting
  <2>2. QED
    BY <2>1 DEF CapacityHolds
<1>4. CooldownHolds'
  BY DEF Limits, CooldownHolds, MinCooldown
<1>5. QED
  BY <1>2, <1>3, <1>4 DEF Limits

\* What fits among some searches fits among fewer.
LEMMA FitsShrink ==
  ASSUME IsFiniteSet(events), NEW T \in SUBSET Allowed, NEW a \in Subjects, NEW now,
         Fits(Allowed, a, now)
  PROVE  Fits(T, a, now)
<1> DEFINE In(S) == {e \in S : e.at >= now - Ticks(Window)}
           Of(S) == {e \in S : e.at >= now - Ticks(Window) /\ e.subject = a}
<1>1. /\ In(Allowed) \in SUBSET Allowed /\ In(T) \in SUBSET In(Allowed)
      /\ Of(Allowed) \in SUBSET Allowed /\ Of(T) \in SUBSET Of(Allowed)
  OBVIOUS
<1>2. /\ Cardinality(In(Allowed)) < GlobalLimit /\ Cardinality(Of(Allowed)) < MaxLimit(a)
      /\ GlobalLimit \in Nat /\ MaxLimit(a) \in Nat
  BY LimitsType, AdmissionAssumptions DEF Fits
<1>3. /\ Cardinality(In(T)) <= Cardinality(In(Allowed)) /\ Cardinality(In(T)) \in Nat
      /\ Cardinality(Of(T)) <= Cardinality(Of(Allowed)) /\ Cardinality(Of(T)) \in Nat
      /\ Cardinality(In(Allowed)) \in Nat /\ Cardinality(Of(Allowed)) \in Nat
  <2> HIDE DEF In, Of
  <2>1. QED
    BY <1>1, Counting
<1>4. Cardinality(In(T)) < GlobalLimit /\ Cardinality(Of(T)) < MaxLimit(a)
  <2> HIDE DEF In, Of
  <2>1. QED
    BY <1>2, <1>3
<1>5. QED
  BY <1>4 DEF Fits

\* So does the room of an admission that has not committed.
LEMMA RoomKept ==
  ASSUME IsFiniteSet(events), NEW q \in Requests, Room(q),
         request[q].subject \in Subjects,
         request'[q] = request[q], clock <= clock', clock \in Nat, clock' \in Nat,
         Allowed' \subseteq Allowed
  PROVE  Room(q)'
<1>1. request[q].at \in Times /\ request[q].at <= clock'
  BY AdmissionAssumptions DEF Room, Times
<1>2. \A e \in Allowed' : e.at <= request[q].at
  BY DEF Room
<1>3. request[q].decision.code = "allowed" /\ request[q].subject \notin Internal =>
        Fits(Allowed', request[q].subject, request[q].at)
  BY FitsShrink DEF Room
<1>4. QED
  BY <1>1, <1>2, <1>3 DEF Room

\* The limits of a set of admitted searches.
Limited(S) ==
  /\ \A e \in S :
       /\ Cardinality({f \in S : f.at \in (e.at - Ticks(Window))..e.at
                                 /\ f.subject = e.subject}) <= MaxLimit(e.subject)
       /\ Cardinality({f \in S : f.at \in (e.at - Ticks(Window))..e.at}) <= GlobalLimit
  /\ \A e, f \in S : e # f /\ e.subject = f.subject =>
       \/ f.at >= e.at + MinCooldown(e.subject)
       \/ e.at >= f.at + MinCooldown(e.subject)

LEMMA LimitsAreLimited == (Limits <=> Limited(Allowed)) /\ (Limits' <=> Limited(Allowed'))
<1>1. Limits <=> Limited(Allowed)
  <2>1. \A e : {f \in UpTo(e) : f.subject = e.subject} =
               {f \in Allowed : f.at \in (e.at - Ticks(Window))..e.at /\ f.subject = e.subject}
    BY DEF UpTo
  <2>2. QED
    BY <2>1, Zenon DEF Limits, Limited, QuotaHolds, CapacityHolds, CooldownHolds, UpTo
<1>2. Limits' <=> Limited(Allowed')
  <2>1. \A e : {f \in {g \in Allowed' : g.at \in (e.at - Ticks(Window))..e.at} :
                  f.subject = e.subject} =
               {f \in Allowed' : f.at \in (e.at - Ticks(Window))..e.at /\ f.subject = e.subject}
    OBVIOUS
  <2>2. QED
    BY <2>1, Zenon DEF Limits, Limited, QuotaHolds, CapacityHolds, CooldownHolds, UpTo,
                      MaxLimit, MinCooldown
<1>3. QED
  BY <1>1, <1>2

\* One more element makes a finite set at most one larger.
LEMMA OneMore ==
  ASSUME NEW S, IsFiniteSet(S), NEW n
  PROVE  /\ Cardinality(S) \in Nat /\ Cardinality(S \cup {n}) \in Nat
         /\ Cardinality(S \cup {n}) <= Cardinality(S) + 1
<1>1. Cardinality(S) \in Nat
  BY FS_CardinalityType
<1>2. Cardinality(S \cup {n}) = Cardinality(S) \/ Cardinality(S \cup {n}) = Cardinality(S) + 1
  BY FS_AddElement
<1>3. QED
  BY <1>1, <1>2

\* A search that fits, and is the latest, keeps the limits.
LEMMA LimitsGrow ==
  ASSUME NEW S \in SUBSET EventRows, IsFiniteSet(S), Limited(S), NEW n \in EventRows,
         \A e \in S : e.at <= n.at, Fits(S, n.subject, n.at)
  PROVE  Limited(S \cup {n})
<1> DEFINE T == S \cup {n}
           w == Ticks(Window)
           In(e) == {f \in T : f.at \in (e.at - w)..e.at}
           Of(e) == {f \in T : f.at \in (e.at - w)..e.at /\ f.subject = e.subject}
           Before == {e \in S : e.at >= n.at - w}
           Own == {e \in S : e.at >= n.at - w /\ e.subject = n.subject}
<1>1. w \in Nat /\ GlobalLimit \in Nat
  BY TicksType, AdmissionAssumptions
<1> HIDE DEF w
<1>2. \A e \in T : e.at \in Int /\ e.at <= n.at /\ e.subject \in Subjects
  BY DEF EventRows, Times
<1>3. /\ IsFiniteSet(Before) /\ Cardinality(Before) < GlobalLimit
      /\ IsFiniteSet(Own) /\ Cardinality(Own) < MaxLimit(n.subject)
  <2>1. Before \in SUBSET S /\ Own \in SUBSET S
    OBVIOUS
  <2>2. Cardinality(Before) < GlobalLimit /\ Cardinality(Own) < MaxLimit(n.subject)
    BY DEF Fits, w
  <2> HIDE DEF Before, Own
  <2>3. QED
    BY <2>1, <2>2, FS_Subset
<1>4. /\ Cardinality(Before \cup {n}) <= GlobalLimit
      /\ Cardinality(Own \cup {n}) <= MaxLimit(n.subject)
  <2>1. MaxLimit(n.subject) \in Nat
    BY <1>2, LimitsType
  <2> HIDE DEF Before, Own
  <2>2. /\ Cardinality(Before) \in Nat /\ Cardinality(Before \cup {n}) \in Nat
        /\ Cardinality(Before \cup {n}) <= Cardinality(Before) + 1
    BY <1>3, OneMore
  <2>3. /\ Cardinality(Own) \in Nat /\ Cardinality(Own \cup {n}) \in Nat
        /\ Cardinality(Own \cup {n}) <= Cardinality(Own) + 1
    BY <1>3, OneMore
  <2>4. QED
    BY <1>1, <1>3, <2>1, <2>2, <2>3
<1>5. ASSUME NEW e \in T
      PROVE  Cardinality(In(e)) <= GlobalLimit /\ Cardinality(Of(e)) <= MaxLimit(e.subject)
  <2>1. CASE e.at < n.at
    <3>1. e \in S
      BY <2>1, <1>2
    <3>2. In(e) = {f \in S : f.at \in (e.at - w)..e.at}
      BY <2>1, <1>1, <1>2
    <3>3. Of(e) = {f \in S : f.at \in (e.at - w)..e.at /\ f.subject = e.subject}
      BY <2>1, <1>1, <1>2
    <3>4. QED
      BY <3>1, <3>2, <3>3 DEF Limited, w
  <2>2. CASE e.at = n.at
    <3>1. In(e) = Before \cup {n}
      BY <2>2, <1>1, <1>2
    <3>2. CASE e.subject = n.subject
      <4>1. Of(e) = Own \cup {n}
        BY <2>2, <3>2, <1>1, <1>2
      <4>2. QED
        BY <3>1, <3>2, <4>1, <1>4
    <3>3. CASE e.subject # n.subject
      <4>1. e \in S
        BY <3>3
      <4>2. Of(e) = {f \in S : f.at \in (e.at - w)..e.at /\ f.subject = e.subject}
        BY <3>3
      <4>3. QED
        BY <3>1, <4>1, <4>2, <1>4 DEF Limited, w
    <3>4. QED
      BY <3>2, <3>3
  <2>3. QED
    BY <2>1, <2>2, <1>2
<1>6. ASSUME NEW e \in T, NEW f \in T, e # f, e.subject = f.subject
      PROVE  \/ f.at >= e.at + MinCooldown(e.subject)
             \/ e.at >= f.at + MinCooldown(e.subject)
  <2>1. \A x \in S : x.subject = n.subject => x.at + MinCooldown(n.subject) <= n.at
    BY DEF Fits
  <2>2. CASE e = n
    BY <2>1, <2>2, <1>6
  <2>3. CASE f = n
    BY <2>1, <2>3, <1>6
  <2>4. CASE e \in S /\ f \in S
    BY <2>4, <1>6 DEF Limited
  <2>5. QED
    BY <2>2, <2>3, <2>4
<1>7. QED
  <2> HIDE DEF T
  <2>1. /\ \A e \in T :
             /\ Cardinality({f \in T : f.at \in (e.at - Ticks(Window))..e.at
                                       /\ f.subject = e.subject}) <= MaxLimit(e.subject)
             /\ Cardinality({f \in T : f.at \in (e.at - Ticks(Window))..e.at}) <= GlobalLimit
    BY <1>5 DEF w
  <2>2. Limited(T)
    BY <2>1, <1>6, Zenon DEF Limited
  <2>3. QED
    BY <2>2 DEF T

-----------------------------------------------------------------------------
(* The steps. *)

\* An admission is decided only when it fits.
LEMMA AdmittedFits ==
  ASSUME TypeOK, NEW a \in Subjects \ Internal, NEW tier \in Tiers, NEW verified \in BOOLEAN,
         tier = "user" <=> a \in Users,
         IsFiniteSet(events), clock \in Times, \A e \in events : e.at <= clock,
         Decide(a, tier, verified, clock).code = "allowed"
  PROVE  Fits(Allowed, a, clock)
<1>1. ~AtCapacity(clock) /\ ~Cooling(a, tier, clock) /\ ~UsedUp(a, tier, clock)
  BY DEF Decide, Deny, DenyFor
<1>2. /\ Limit(tier) \in Nat /\ Cooldown(tier) \in Nat /\ MaxLimit(a) \in Nat
      /\ MinCooldown(a) \in Nat /\ GlobalLimit \in Nat
      /\ Limit(tier) <= MaxLimit(a) /\ MinCooldown(a) <= Cooldown(tier)
  BY LimitsType, AdmissionAssumptions
<1>3. /\ Recent(clock) = {e \in Allowed : e.at >= clock - Ticks(Window)}
      /\ Usage(a, clock) = {e \in Allowed : e.at >= clock - Ticks(Window) /\ e.subject = a}
  BY DEF Recent, Usage
<1>4. Cardinality(Recent(clock)) \in Nat /\ Cardinality(Usage(a, clock)) \in Nat
  <2>1. Recent(clock) \in SUBSET Allowed /\ Usage(a, clock) \in SUBSET Allowed
    BY <1>3
  <2>2. QED
    BY <2>1, Counting
<1>5. Cardinality(Recent(clock)) < GlobalLimit /\ Cardinality(Usage(a, clock)) < MaxLimit(a)
  BY <1>1, <1>2, <1>4 DEF AtCapacity, UsedUp
<1>6. ASSUME NEW e \in Allowed, e.subject = a
      PROVE  e.at + MinCooldown(a) <= clock
  <2>1. e.at \in AllowedAt(a)
    BY <1>6 DEF AllowedAt
  <2>2. AllowedAt(a) \in SUBSET Times /\ AllowedAt(a) # {}
    BY <2>1, AllowedTimes
  <2>3. Last(a) \in Times /\ e.at <= Last(a) /\ e.at \in Times
    BY <2>1, <2>2, MaxOfTimes DEF Last
  <2>4. ~(Last(a) + Cooldown(tier) > clock)
    BY <1>1, <2>2 DEF Cooling
  <2>5. QED
    BY <1>2, <2>3, <2>4 DEF Times
<1>7. QED
  BY <1>3, <1>5, <1>6 DEF Fits

\* A row other than an admission is not counted.
LEMMA OnlyAdmissionsCount ==
  ASSUME NEW row, events' = events \cup {row}
  PROVE  /\ row.outcome # "allowed" => Allowed' = Allowed
         /\ row.outcome = "allowed" => Allowed' = Allowed \cup {row}
  BY DEF Allowed

\* Every step keeps what the lock and the tiers promise.
LEMMA LockingStep ==
  ASSUME IndInv, [Next]_vars
  PROVE  Locking' /\ Classified'
<1> USE DEF IndInv, Locking, Classified
<1>1. ASSUME NEW q \in Requests, NEW a \in Subjects, Arrive(q, a)
      PROVE  Locking' /\ Classified'
  <2>1. TierOf(a) = "user" <=> a \in Users
    BY DEF TierOf
  <2> DEFINE tier == TierOf(a)
  <2> HIDE DEF tier
  <2>2. PICK pc \in {"verifying", "prepared"} :
          request' = [request EXCEPT ![q].pc = pc, ![q].subject = a, ![q].tier = tier]
    BY <1>1 DEF Arrive, tier
  <2>3. \A p \in Requests : request'[p] =
          IF p = q THEN [request[q] EXCEPT !.pc = pc, !.subject = a, !.tier = tier]
                   ELSE request[p]
    BY <2>2 DEF TypeOK
  <2>4. request[q] \in RequestRows
    BY DEF TypeOK
  <2>5. request'[q].pc = pc /\ request'[q].subject = a /\ request'[q].tier = tier
    BY <2>3, <2>4 DEF RequestRows
  <2>6. QED
    BY <1>1, <2>1, <2>3, <2>5 DEF Arrive, tier
<1>2. ASSUME NEW q \in Requests, Verified(q)
      PROVE  Locking' /\ Classified'
  BY <1>2 DEF Verified, TypeOK, RequestRows, At
<1>3. ASSUME NEW q \in Requests, VerificationFails(q) \/ Commit(q) \/ RollBack(q)
      PROVE  Locking' /\ Classified'
  <2>1. request' = [request EXCEPT ![q] = Answered] /\ Answered.pc = "done"
    BY <1>3 DEF VerificationFails, Commit, RollBack, Answered, NewRequest
  <2>2. lock' = lock \/ (lock' = None /\ request[q].pc \in {"locked", "decided"})
    BY <1>3 DEF VerificationFails, Commit, RollBack, At
  <2>3. \A p \in Requests : request'[p] = IF p = q THEN Answered ELSE request[p]
    BY <2>1 DEF TypeOK
  <2>4. QED
    BY <2>1, <2>2, <2>3
<1>4. ASSUME NEW q \in Requests, Lock(q)
      PROVE  Locking' /\ Classified'
  <2>1. None \notin Requests
    BY AdmissionAssumptions
  <2>2. QED
    BY <1>4, <2>1 DEF Lock, At, TypeOK, RequestRows
<1>5. ASSUME NEW q \in Requests, Consider(q)
      PROVE  Locking' /\ Classified'
  <2>1. PICK d : request' = [request EXCEPT ![q].pc = "decided", ![q].at = clock,
                                            ![q].decision = d]
    BY <1>5 DEF Consider
  <2>2. \A p \in Requests : request'[p] =
          IF p = q THEN [request[q] EXCEPT !.pc = "decided", !.at = clock, !.decision = d]
                   ELSE request[p]
    BY <2>1 DEF TypeOK
  <2>3. request[q] \in RequestRows
    BY DEF TypeOK
  <2>4. /\ request'[q].pc = "decided" /\ request'[q].subject = request[q].subject
        /\ request'[q].tier = request[q].tier
    BY <2>2, <2>3 DEF RequestRows
  <2>5. At(q, "locked") /\ lock' = lock
    BY <1>5 DEF Consider
  <2>6. \A p \in Requests \ {q} : request'[p] = request[p]
    BY <2>2
  <2>7. Locking'
    BY <2>4, <2>5, <2>6 DEF At
  <2>8. Classified'
    BY <2>4, <2>5, <2>6 DEF At
  <2>9. QED
    BY <2>7, <2>8
<1>6. ASSUME \/ \E u \in Users : BeginDelete(u) \/ CommitDelete(u)
             \/ Tick \/ UNCHANGED vars
      PROVE  Locking' /\ Classified'
  BY <1>6 DEF BeginDelete, CommitDelete, Tick, vars
<1>7. QED
  BY <1>1, <1>2, <1>3, <1>4, <1>5, <1>6 DEF Next, Idle

\* What a step may do to the admitted searches: fewer remain, or the holder of
\* the lock adds its own.
LEMMA AllowedStep ==
  ASSUME IndInv, [Next]_vars
  PROVE  \/ Allowed' \subseteq Allowed
         \/ \E q \in Requests : Commit(q)
<1>1. ASSUME NEW q \in Requests, VerificationFails(q)
      PROVE  Allowed' = Allowed
  <2>1. Row(q, Deny("turnstile"), clock).outcome = "blocked_turnstile"
    BY DEF Row, Deny, Outcome
  <2>2. QED
    BY <1>1, <2>1, OnlyAdmissionsCount DEF VerificationFails
<1>2. ASSUME NEW u \in Users, CommitDelete(u)
      PROVE  Allowed' \subseteq Allowed
  BY <1>2 DEF CommitDelete, Allowed
<1>3. ASSUME events' = events
      PROVE  Allowed' \subseteq Allowed
  BY <1>3 DEF Allowed
<1>4. QED
  BY <1>1, <1>2, <1>3 DEF Next, Idle, vars, Arrive, Verified, Lock, Consider, RollBack,
                          BeginDelete, Tick

\* Every step keeps the audit in the past.
LEMMA PastStep ==
  ASSUME IndInv, [Next]_vars
  PROVE  InThePast' /\ clock <= clock' /\ clock \in Nat /\ clock' \in Nat
<1> USE DEF IndInv, InThePast
<1>1. clock \in Nat /\ clock' \in Nat /\ clock <= clock'
  <2>1. clock \in Nat
    BY DEF TypeOK, Times
  <2>2. clock' = clock \/ clock' = clock + 1
    BY DEF Next, Idle, vars, Arrive, Verified, VerificationFails, Lock, Consider, Commit,
           RollBack, BeginDelete, CommitDelete, Tick
  <2>3. QED
    BY <2>1, <2>2
<1>2. \A e \in events : e.at \in Nat
  BY DEF TypeOK, EventRows, Times
<1>3. ASSUME NEW row, events' = events \cup {row}, row.at \in Nat, row.at <= clock
      PROVE  InThePast'
  <2>1. IsFiniteSet(events')
    BY <1>3, FS_AddElement
  <2>2. QED
    BY <1>1, <1>2, <1>3, <2>1
<1>4. ASSUME NEW q \in Requests, VerificationFails(q)
      PROVE  InThePast'
  BY <1>1, <1>3, <1>4 DEF VerificationFails, Row
<1>5. ASSUME NEW q \in Requests, Commit(q)
      PROVE  InThePast'
  <2>1. request[q].at \in Nat /\ request[q].at <= clock
    BY <1>5 DEF Commit, At, Decided, Room, Times
  <2>2. QED
    BY <1>3, <1>5, <2>1 DEF Commit, Row
<1>6. ASSUME events' \subseteq events
      PROVE  InThePast'
  BY <1>1, <1>2, <1>6, FS_Subset
<1>7. QED
  <2>1. \/ events' \subseteq events
        \/ \E q \in Requests : VerificationFails(q) \/ Commit(q)
    BY DEF Next, Idle, vars, Arrive, Verified, Lock, Consider, RollBack, BeginDelete,
           CommitDelete, Tick
  <2>2. QED
    BY <1>1, <1>4, <1>5, <1>6, <2>1

\* Every step keeps the room of the admission that holds the lock.
LEMMA DecidedStep ==
  ASSUME IndInv, [Next]_vars
  PROVE  Decided'
<1> USE DEF IndInv
<1>a. TypeOK' /\ InThePast' /\ clock <= clock' /\ clock \in Nat /\ clock' \in Nat
  BY TypeStep, PastStep
<1>1. ASSUME NEW p \in Requests, request[p].pc = "decided", request'[p] = request[p],
             Allowed' \subseteq Allowed
      PROVE  Room(p)'
  <2>1. request[p].subject \in Subjects
    BY <1>1 DEF Classified
  <2>2. QED
    BY <1>a, <1>1, <2>1, RoomKept DEF Decided, InThePast
<1>2. ASSUME NEW q \in Requests, Consider(q)
      PROVE  Decided'
  <2> DEFINE r == request[q]
             d == Decide(r.subject, r.tier, r.verified, clock)
  <2>1. /\ r \in RequestRows /\ r.subject \in Subjects /\ r.tier \in Tiers
        /\ r.verified \in BOOLEAN /\ (r.tier = "user" <=> r.subject \in Users)
    BY <1>2 DEF Consider, At, Classified, TypeOK, RequestRows
  <2>2. d.code = "allowed" /\ r.subject \notin Internal => Fits(Allowed, r.subject, clock)
    BY <2>1, AdmittedFits DEF TypeOK, InThePast
  <2>3. request' = [request EXCEPT ![q] =
                      [request[q] EXCEPT !.pc = "decided", !.at = clock, !.decision = d]]
    BY <1>2 DEF Consider, TypeOK
  <2> HIDE DEF d
  <2>4. \A p \in Requests : request'[p] =
          IF p = q THEN [r EXCEPT !.pc = "decided", !.at = clock, !.decision = d]
                   ELSE request[p]
    BY <2>3 DEF TypeOK
  <2>5. request'[q].at = clock /\ request'[q].decision = d /\ request'[q].subject = r.subject
    BY <2>1, <2>4 DEF RequestRows
  <2>6. Allowed' = Allowed /\ clock' = clock
    BY <1>2 DEF Consider, Allowed
  <2>7. \A e \in Allowed : e.at <= clock
    BY DEF Allowed, InThePast
  <2>8. Room(q)'
    <3>1. clock \in Times /\ clock <= clock
      BY <1>a DEF TypeOK
    <3>2. Fits(Allowed', r.subject, clock') <=> Fits(Allowed, r.subject, clock)
      BY <2>6
    <3> HIDE DEF r
    <3>3. QED
      BY <2>2, <2>5, <2>6, <2>7, <3>1, <3>2 DEF Room
  <2>9. \A p \in Requests \ {q} : request'[p].pc = "decided" => Room(p)'
    BY <1>1, <2>4, <2>6
  <2>10. QED
    BY <2>8, <2>9 DEF Decided
<1>3. ASSUME NEW q \in Requests, Commit(q)
      PROVE  Decided'
  <2>1. \A p \in Requests : request'[p] = IF p = q THEN Answered ELSE request[p]
    BY <1>3 DEF Commit, TypeOK
  <2>2. \A p \in Requests \ {q} : request[p].pc # "decided"
    BY <1>3 DEF Commit, At, Locking
  <2>3. Answered.pc = "done"
    BY DEF Answered, NewRequest
  <2>4. QED
    BY <2>1, <2>2, <2>3 DEF Decided
<1>4. ASSUME Allowed' \subseteq Allowed,
             \A p \in Requests : request'[p] = request[p] \/ request'[p].pc # "decided"
      PROVE  Decided'
  BY <1>1, <1>4 DEF Decided
<1>5. ASSUME NEW q \in Requests, NEW row \in RequestRows, row.pc # "decided",
             request' = [request EXCEPT ![q] = row]
      PROVE  \A p \in Requests : request'[p] = request[p] \/ request'[p].pc # "decided"
  BY <1>5 DEF TypeOK
<1>6. ASSUME NEW q \in Requests, NEW a \in Subjects, Arrive(q, a)
      PROVE  Decided'
  <2>1. PICK pc \in {"verifying", "prepared"} :
          request' = [request EXCEPT ![q].pc = pc, ![q].subject = a, ![q].tier = TierOf(a)]
    BY <1>6 DEF Arrive
  <2> DEFINE tier == TierOf(a)
  <2>2. tier \in Tiers
    BY DEF TierOf, Tiers
  <2> HIDE DEF tier
  <2> DEFINE row == [request[q] EXCEPT !.pc = pc, !.subject = a, !.tier = tier]
  <2>3. row \in RequestRows /\ row.pc # "decided"
    BY <2>2 DEF TypeOK, RequestRows
  <2>4. request' = [request EXCEPT ![q] = row]
    BY <2>1 DEF TypeOK, tier
  <2>5. Allowed' = Allowed
    BY <1>6 DEF Arrive, Allowed
  <2> HIDE DEF row
  <2>6. QED
    BY <1>4, <1>5, <2>3, <2>4, <2>5
<1>7. ASSUME NEW q \in Requests, Verified(q) \/ Lock(q)
      PROVE  Decided'
  <2>1. \A p \in Requests : request'[p] = request[p] \/ request'[p].pc # "decided"
    BY <1>7 DEF Verified, Lock, TypeOK, RequestRows
  <2>2. Allowed' = Allowed
    BY <1>7 DEF Verified, Lock, Allowed
  <2>3. QED
    BY <1>4, <2>1, <2>2
<1>8. ASSUME NEW q \in Requests, VerificationFails(q) \/ RollBack(q), Allowed' \subseteq Allowed
      PROVE  Decided'
  <2>1. Answered \in RequestRows /\ Answered.pc # "decided"
    BY AnsweredType DEF Answered, NewRequest
  <2>2. QED
    BY <1>4, <1>5, <1>8, <2>1 DEF VerificationFails, RollBack
<1>9. ASSUME \/ \E u \in Users : BeginDelete(u) \/ CommitDelete(u)
             \/ Tick \/ UNCHANGED vars,
             Allowed' \subseteq Allowed
      PROVE  Decided'
  BY <1>4, <1>9 DEF BeginDelete, CommitDelete, Tick, vars
<1>10. QED
  BY <1>2, <1>3, <1>6, <1>7, <1>8, <1>9, AllowedStep DEF Next, Idle

\* Every step keeps the limits.
LEMMA LimitsStep ==
  ASSUME IndInv, [Next]_vars
  PROVE  Limits'
<1> USE DEF IndInv
<1>1. CASE Allowed' \subseteq Allowed
  BY <1>1, LimitsShrink DEF InThePast
<1>2. ASSUME NEW q \in Requests, Commit(q)
      PROVE  Limits'
  <2> DEFINE n == Row(q, request[q].decision, request[q].at)
  <2>1. events' = events \cup {n}
    BY <1>2 DEF Commit
  <2>2. CASE n.outcome # "allowed"
    BY <1>1, <2>1, <2>2, OnlyAdmissionsCount
  <2>3. CASE n.outcome = "allowed"
    <3>1. /\ Room(q) /\ request[q].subject \in Subjects /\ request[q].decision \in Decisions
          /\ request[q].at \in Times
      BY <1>2 DEF Commit, At, Decided, Classified, Room, TypeOK, RequestRows
    <3>2. request[q].decision.code \in Codes
      BY <3>1 DEF Decisions, Codes
    <3>3. request[q].decision.code = "allowed" /\ request[q].subject \notin Internal
      BY <2>3, <3>2 DEF Row, Outcome, Codes
    <3>4. n \in EventRows
      BY <3>1, RowType
    <3>5. n.at = request[q].at /\ n.subject = request[q].subject
      BY DEF Row
    <3>6. Allowed' = Allowed \cup {n}
      BY <2>1, <2>3, OnlyAdmissionsCount
    <3> HIDE DEF n
    <3>7. (\A e \in Allowed : e.at <= n.at) /\ Fits(Allowed, n.subject, n.at)
      BY <3>1, <3>3, <3>5 DEF Room
    <3>8. Allowed \in SUBSET EventRows /\ IsFiniteSet(Allowed)
      BY FS_Subset DEF Allowed, TypeOK, InThePast
    <3>9. Limited(Allowed \cup {n})
      BY <3>4, <3>7, <3>8, LimitsGrow, LimitsAreLimited
    <3>10. QED
      BY <3>6, <3>9, LimitsAreLimited
  <2>4. QED
    BY <2>2, <2>3
<1>3. QED
  BY <1>1, <1>2, AllowedStep

-----------------------------------------------------------------------------
(* Theorems. *)

\* The invariant holds at first: nothing was asked and nothing recorded.
LEMMA Initially == Init => IndInv
<1> SUFFICES ASSUME Init PROVE IndInv
  OBVIOUS
<1> USE DEF Init
<1>1. TypeOK
  <2>1. clock \in Times
    BY AdmissionAssumptions DEF Times
  <2>2. request \in [Requests -> RequestRows]
    BY AnsweredType
  <2>3. QED
    BY <2>1, <2>2 DEF TypeOK
<1>2. \A q \in Requests : request[q].pc = "new"
  BY DEF NewRequest
<1>3. InThePast
  BY FS_EmptySet DEF InThePast
<1>4. Limits
  BY DEF Limits, QuotaHolds, CapacityHolds, CooldownHolds, Allowed
<1>5. QED
  BY <1>1, <1>2, <1>3, <1>4 DEF IndInv, Locking, Classified, Decided

\* In every behaviour of concurrent requests, account deletions and passing
\* time, the invariant holds.
THEOREM AdmissionInvariance == Spec => []IndInv
<1>1. IndInv /\ [Next]_vars => IndInv'
  BY TypeStep, LockingStep, PastStep, DecidedStep, LimitsStep DEF IndInv
<1>2. QED
  BY Initially, <1>1, PTL DEF Spec

\* The variables of admission keep their types (requests, audit rows, decisions
\* of check_explore_access).
THEOREM TypeCorrect == Spec => []TypeOK
<1>1. IndInv => TypeOK
  BY DEF IndInv
<1>2. QED
  BY <1>1, AdmissionInvariance, PTL

\* No race of requests admits a visitor to more searches in a window than its
\* tier allows (check_explore_access under the admission lock).
THEOREM QuotaAlwaysHolds == Spec => []QuotaHolds
<1>1. IndInv => QuotaHolds
  BY DEF IndInv, Limits
<1>2. QED
  BY <1>1, AdmissionInvariance, PTL

\* Nor all visitors together to more than the global capacity.
THEOREM CapacityAlwaysHolds == Spec => []CapacityHolds
<1>1. IndInv => CapacityHolds
  BY DEF IndInv, Limits
<1>2. QED
  BY <1>1, AdmissionInvariance, PTL

\* Two searches admitted for one visitor are a cooldown apart.
THEOREM CooldownAlwaysHolds == Spec => []CooldownHolds
<1>1. IndInv => CooldownHolds
  BY DEF IndInv, Limits
<1>2. QED
  BY <1>1, AdmissionInvariance, PTL
=============================================================================
