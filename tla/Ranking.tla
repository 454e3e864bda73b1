------------------------------- MODULE Ranking -------------------------------
(***************************************************************************)
(* What a page of the API computes before it says anything: the balance of *)
(* each area over the capacity window, the score of every open initiative, *)
(* their order, and the now set chosen from it (buildRanking, and the      *)
(* capacity, scoring and selection folders of packages/domain).            *)
(*                                                                         *)
(* An area is a record with the fields kind and active.  A share, a factor *)
(* or a score is a pair, its numerator and its denominator.                *)
(***************************************************************************)
EXTENDS Schedule

CONSTANTS
    Areas,                      \* the areas: key |-> [kind, active]
    Weights,                    \* shares decided: year |-> key |-> percent
    DaysPerYear,
    WindowDays,                 \* the capacity window
    DefaultMinutes,             \* a completion of unknown length
    ClampMin, ClampMax,         \* the balance factor's bounds, as pairs
    OverrideDays,               \* a deadline nearer than this ...
    OverrideValue,              \* ... makes time this critical at least
    SizeForNow,                 \* the largest size selection proposes
    MaxNow, MaxNowPerArea       \* the work-in-progress limits

\* The years decided are finitely many, and no share is negative.
ASSUME WeightsAssumption ==
    /\ DaysPerYear \in Nat \ {0}
    /\ DOMAIN Weights \subseteq Int /\ IsFiniteSet(DOMAIN Weights)
    /\ \A y \in DOMAIN Weights : Weights[y] \in [DOMAIN Weights[y] -> Nat]

\* Sizes and the clamp's bounds are positive: they are divided by.
ASSUME ScoringAssumption ==
    /\ DOMAIN DurationDays \subseteq Nat \ {0}
    /\ {ClampMin, ClampMax} \subseteq Int \X (Nat \ {0})
    /\ {OverrideDays, OverrideValue, DefaultMinutes} \subseteq Int
    /\ {MaxNow, MaxNowPerArea} \subseteq Nat

Less(p, q) == p[1] * q[2] < q[1] * p[2]

IsRankable(a) == Areas[a].kind = "area" /\ Areas[a].active

CountsTowardCapacity(a) == Areas[a].kind # "signals"

-----------------------------------------------------------------------------
(* Capacity. *)

YearOf(d) == d \div DaysPerYear

\* The weights of a year, or of the last year before it that has any.
ResolveWeights(year) ==
    LET decided == {y \in DOMAIN Weights : y <= year}
    IN IF decided = {} THEN <<>> ELSE Weights[Max(decided)]

\* A completion is counted in the window that ends today and opened after the
\* one before it closed.
CountCompletions(done, today) ==
    {c \in done : today - WindowDays < c.day /\ c.day <= today}

Attributed(c) ==
    IF ~CountsTowardCapacity(c.area) THEN 0
    ELSE IF c.minutes = NoDate THEN DefaultMinutes ELSE c.minutes

MinutesOf(done, today, areas) ==
    FoldSet(LAMBDA c, n : n + Attributed(c), 0,
            {c \in CountCompletions(done, today) : c.area \in areas})

Clamp(q) == IF Less(q, ClampMin) THEN ClampMin
            ELSE IF Less(ClampMax, q) THEN ClampMax ELSE q

\* The share agreed over the share observed.  Nothing observed is the most
\* starved an area can be, unless nothing was agreed either.
BalanceFactor(done, today, a) ==
    LET weights == ResolveWeights(YearOf(today))
        own == MinutesOf(done, today, {a})
        total == MinutesOf(done, today, DOMAIN Areas)
    IN IF ~IsRankable(a) \/ a \notin DOMAIN weights THEN <<1, 1>>
       ELSE IF own > 0 THEN Clamp(<<weights[a] * total, 100 * own>>)
       ELSE IF weights[a] > 0 THEN ClampMax ELSE ClampMin

-----------------------------------------------------------------------------
(* Scoring. *)

EffectiveTimeCriticality(r, today) ==
    IF r.deadline # NoDate /\ r.deadline - today < OverrideDays
    THEN Max({r.timeCriticality, OverrideValue})
    ELSE r.timeCriticality

CostOfDelay(r, today) == r.value + EffectiveTimeCriticality(r, today) + r.risk

Scored(b) == {i \in Open(b) : IsRankable(b[i].area)}

\* The better score first, then the dearer to delay, the smaller, the first by id.
Above(score, cod, size, i, j) ==
    \/ Less(score[j], score[i])
    \/ /\ ~Less(score[i], score[j])
       /\ \/ cod[i] > cod[j]
          \/ cod[i] = cod[j] /\ size[i] < size[j]
          \/ cod[i] = cod[j] /\ size[i] = size[j] /\ i < j

\* Initiatives in the order in which each is above those after it.
Sorted(S, score, cod, size) ==
    CHOOSE ranked \in SetToSeqs(S) : \A k, l \in DOMAIN ranked :
        k < l => Above(score, cod, size, ranked[k], ranked[l])

\* Every scored initiative, best first.
ComputeScores(b, done, today) ==
    LET factor == [a \in DOMAIN Areas |-> BalanceFactor(done, today, a)]
        cod == [i \in Scored(b) |-> CostOfDelay(b[i], today)]
        size == [i \in Scored(b) |-> b[i].size]
        score == [i \in Scored(b) |->
                    <<cod[i] * factor[b[i].area][1], size[i] * factor[b[i].area][2]>>]
    IN Sorted(Scored(b), score, cod, size)

-----------------------------------------------------------------------------
(* Selection. *)

BlockedBy(b, i) == {j \in b[i].deps : j \notin DOMAIN b \/ b[j].status \notin Closed}

NotUnderWay(r, today, active) ==
    IF r.start # NoDate /\ r.start > today THEN "not_started"
    ELSE IF r.project # NoDate /\ r.project \notin active THEN "project_inactive"
    ELSE "under_way"

InArea(b, S, a) == {i \in S : b[i].area = a}

\* Why an initiative that is not in the now set gets no slot, or "selected".
Reason(b, today, active, now, i) ==
    LET r == b[i]
        notYet == NotUnderWay(r, today, active)
    IN IF r.status \notin {"next", "later"} THEN "not_a_candidate"
       ELSE IF notYet # "under_way" THEN notYet
       ELSE IF BlockedBy(b, i) # {} THEN "blocked"
       ELSE IF ~r.estimated THEN "unestimated"
       ELSE IF r.size > SizeForNow THEN "too_large"
       ELSE IF Cardinality(now) >= MaxNow THEN "wip_full"
       ELSE IF Cardinality(InArea(b, now, r.area)) >= MaxNowPerArea THEN "area_at_cap"
       ELSE "selected"

\* Mutation of InFlight: only as much in-flight work as the limit has room for.
InFlightCapped(b, ranked) ==
    {ranked[k] : k \in {m \in DOMAIN ranked :
        /\ b[ranked[m]].status = "now"
        /\ Cardinality({l \in 1 .. m : b[ranked[l]].status = "now"}) < MaxNow}}

InFlight(b, ranked) == {i \in Range(ranked) : b[i].status = "now"}

\* One more initiative of the ranking, given a slot or passed over for a reason.
Take(b, today, active, s, i) ==
    LET why == IF b[i].status = "now" THEN "in_flight"
               ELSE Reason(b, today, active, s.now, i)
    IN [now |-> IF why = "selected" THEN s.now \cup {i} ELSE s.now,
        reason |-> With(s.reason, i, why)]

\* Work in flight keeps its slot; then free slots fill from the top.  The
\* priorities the code gives along with the reasons are left out.
SelectNowSet(b, ranked, today, active) ==
    FoldLeft(LAMBDA s, i : Take(b, today, active, s, i),
             [now |-> InFlight(b, ranked), reason |-> <<>>], ranked)
=============================================================================
