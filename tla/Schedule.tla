------------------------------- MODULE Schedule -------------------------------
(***************************************************************************)
(* The schedule engine of packages/domain/src/schedule: a forward pass     *)
(* that places every open initiative on working days within its area's     *)
(* slots, a backward pass that measures slack against dependencies and     *)
(* deadlines, and the replan that moves one initiative and recomputes.     *)
(*                                                                         *)
(* A board is a function from initiatives to records with the fields area, *)
(* status, size, start, deadline and deps.  A day is a number; the order   *)
(* of initiatives, numbers too, is the code's order of ids.                *)
(***************************************************************************)
EXTENDS Integers, Sequences, FiniteSets, SequencesExt, TLC

CONSTANTS
    NoDate,             \* a start or a deadline nobody gave
    WeekLength,         \* the days of a week
    WorkingWeekdays,    \* the days of it that are worked
    Holidays,           \* days that are not
    SearchDays,         \* how far a search for a working day goes
    DurationDays,       \* working days by size
    Concurrent          \* initiatives that run at once over all areas

\* Some day of the week is worked.
ASSUME WeekAssumption ==
    /\ WeekLength \in Nat \ {0}
    /\ WorkingWeekdays \subseteq 0 .. WeekLength - 1
    /\ WorkingWeekdays # {}

\* A search goes further than the holidays could fill: the code's is of ten years,
\* which five hundred holidays would not.
ASSUME CalendarAssumption ==
    /\ IsFiniteSet(Holidays)
    /\ SearchDays \in Nat
    /\ WeekLength * (Cardinality(Holidays) + 1) <= SearchDays

\* A bigger slice never takes fewer days.
ASSUME DurationAssumption ==
    /\ \A s \in DOMAIN DurationDays : DurationDays[s] \in Nat \ {0}
    /\ \A s, t \in DOMAIN DurationDays :
          s <= t => DurationDays[s] <= DurationDays[t]

\* A limit on what runs at once, and no less than none.
ASSUME ConcurrentAssumption == Concurrent \in Nat

Closed == {"done", "dropped"}

Open(b) == {i \in DOMAIN b : b[i].status \notin Closed}

-----------------------------------------------------------------------------
(* Working days. *)

IsWorkingDay(d) == d % WeekLength \in WorkingWeekdays /\ d \notin Holidays

WorkingDayOnOrAfter(d) == Min({e \in d .. d + SearchDays : IsWorkingDay(e)})

WorkingDayOnOrBefore(d) == Max({e \in d - SearchDays .. d : IsWorkingDay(e)})

NextWorkingDay(d) == WorkingDayOnOrAfter(d + 1)

AddWorkingDays(d, n) ==
    LET on[k \in 0 .. n] ==
          IF k = 0 THEN WorkingDayOnOrAfter(d) ELSE NextWorkingDay(on[k - 1])
    IN on[n]

SubtractWorkingDays(d, n) ==
    LET on[k \in 0 .. n] == IF k = 0 THEN WorkingDayOnOrBefore(d)
                                     ELSE WorkingDayOnOrBefore(on[k - 1] - 1)
    IN on[n]

WorkingDaysBetween(from, to) ==
    Cardinality({d \in from + 1 .. to : IsWorkingDay(d)})
      - Cardinality({d \in to + 1 .. from : IsWorkingDay(d)})

-----------------------------------------------------------------------------
(* The dependency graph and its gate. *)

Marks == {"new", "visiting", "done"}

Edges(b) == {e \in (DOMAIN b) \X (DOMAIN b) : e[2] \in b[e[1]].deps}

\* A walk in progress: what is marked, the path walked, the dependencies not
\* looked at yet, and the cycle found.
Unwalked(b) ==
    [mark |-> [i \in DOMAIN b |-> "new"], path |-> <<>>, left |-> Edges(b), cycle |-> <<>>]

New(s) == {i \in DOMAIN s.mark : s.mark[i] = "new"}

Enter(s, i) == [s EXCEPT !.mark[i] = "visiting", !.path = Append(s.path, i)]

\* Out of an initiative that has nothing left to look at.
Leave(s) == [s EXCEPT !.mark[Last(s.path)] = "done", !.path = Front(s.path)]

\* At a dependency: on into it, past it, or back on the path the walk came by.
Follow(s, j) ==
    LET i == Last(s.path)
        t == [s EXCEPT !.left = s.left \ {<<i, j>>}]
        from == CHOOSE m \in DOMAIN s.path : s.path[m] = j
    IN CASE s.mark[j] = "new" -> Enter(t, j)
         [] s.mark[j] = "done" -> t
         [] OTHER -> [t EXCEPT !.cycle = Append(SubSeq(s.path, from, Len(s.path)), j)]

\* The dependencies of an initiative, and the initiatives a walk starts from,
\* are taken in the order of ids, and a cycle found ends it.
WalkOn(s) ==
    LET left == {e[2] : e \in {f \in s.left : f[1] = Last(s.path)}}
    IN CASE s.cycle # <<>> -> s
         [] s.cycle = <<>> /\ s.path = <<>> -> IF New(s) = {} THEN s ELSE Enter(s, Min(New(s)))
         [] OTHER -> IF left = {} THEN Leave(s) ELSE Follow(s, Min(left))

\* Mutation of FindCycle: only two initiatives that wait on each other are one.
FindPair(b) ==
    LET pairs == {q \in (DOMAIN b) \X (DOMAIN b) :
                    q[2] \in b[q[1]].deps /\ q[1] \in b[q[2]].deps}
        p == CHOOSE q \in pairs : TRUE
    IN IF pairs = {} THEN <<>> ELSE <<p[1], p[2], p[1]>>

\* Every initiative is entered and left at most once, and every dependency
\* looked at once.
FindCycle(b) ==
    LET steps == 2 * Cardinality(DOMAIN b) + Cardinality(Edges(b))
        walk[k \in 0 .. steps] == IF k = 0 THEN Unwalked(b) ELSE WalkOn(walk[k - 1])
    IN walk[steps].cycle

AssertAcyclic(b) == (\A i \in DOMAIN b : i \notin b[i].deps) /\ FindCycle(b) = <<>>

\* Of any initiatives, one waits on no other of them.
Acyclic(b) ==
    \A X \in SUBSET DOMAIN b : X # {} => \E i \in X : b[i].deps \cap X = {}

-----------------------------------------------------------------------------
(* The forward pass. *)

SlotsForWeight(pct) == Max({1, (2 * pct * Concurrent + 100) \div 200})

Predecessors(b, i) == b[i].deps \cap Open(b)

Successors(b, i) == {j \in Open(b) : i \in b[j].deps}

\* Where the constraints put a start, and the constraint that did.
ReadyDay(b, today, at, i) ==
    LET base == WorkingDayOnOrAfter(today)
        floor == IF b[i].start = NoDate THEN base - 1
                                        ELSE WorkingDayOnOrAfter(b[i].start)
        resume == [p \in Predecessors(b, i) |-> NextWorkingDay(at[p].end)]
        day == Max({base, floor} \cup Range(resume))
        last == {p \in DOMAIN resume : resume[p] = day}
    IN [day |-> day,
        boundBy |-> IF last # {} THEN "dependency"
                    ELSE IF floor = day THEN "earliest_start" ELSE "none",
        by |-> last]

Occupied(peers, d) == Cardinality({p \in peers : p.start <= d /\ d <= p.end})

IsFree(peers, slots, start, days) ==
    \A d \in start .. AddWorkingDays(start, days - 1) :
       IsWorkingDay(d) => Occupied(peers, d) < slots

\* Mutation of FirstFreeStart: a slot on the first day is enough.
FirstFreeDay(from, days, slots, peers) ==
    LET tried == {from} \cup {NextWorkingDay(p.end) : p \in {q \in peers : q.end >= from}}
    IN Min({d \in tried : IsFree(peers, slots, d, 1)})

\* A slot frees the working day after something ends, so only those days and
\* the first are tried.
FirstFreeStart(from, days, slots, peers) ==
    LET tried == {from} \cup {NextWorkingDay(p.end) : p \in {q \in peers : q.end >= from}}
    IN Min({d \in tried : IsFree(peers, slots, d, days)})

Peers(b, at, i) == {at[j] : j \in {k \in DOMAIN at : b[k].area = b[i].area}}

Placed(b, today, slots, at, i) ==
    LET ready == ReadyDay(b, today, at, i)
        days == DurationDays[b[i].size]
        peers == Peers(b, at, i)
        start == FirstFreeStart(ready.day, days, slots[b[i].area], peers)
    IN [id |-> i, ready |-> ready.day, start |-> start,
        end |-> AddWorkingDays(start, days - 1),
        boundBy |-> IF start > ready.day THEN "capacity" ELSE ready.boundBy,
        by |-> IF start > ready.day
               THEN {p.id : p \in {q \in peers : NextWorkingDay(q.end) = start}}
               ELSE ready.by]

\* What is placed, and one more.
With(at, i, p) == [j \in DOMAIN at \cup {i} |-> IF j = i THEN p ELSE at[j]]

Sooner(day, i, j) == day[i] < day[j] \/ (day[i] = day[j] /\ i < j)

\* Mutation of Before: moved work gets no first refusal.
BeforeUnpinned(pinned, day, i, j) == Sooner(day, i, j)

\* Moved work first, then whatever could start soonest, then the id.
Before(pinned, day, i, j) ==
    \/ i \in pinned /\ j \notin pinned
    \/ (i \in pinned <=> j \in pinned) /\ Sooner(day, i, j)

\* Placed one by one, of what waits on nothing unplaced.
Forward(b, today, slots, pinned) ==
    LET pass[k \in 0 .. Cardinality(Open(b))] ==
          IF k = 0 THEN [order |-> <<>>, at |-> <<>>]
          ELSE LET so == pass[k - 1]
                   ready == {i \in Open(b) \ DOMAIN so.at :
                               Predecessors(b, i) \subseteq DOMAIN so.at}
                   day == [i \in ready |-> ReadyDay(b, today, so.at, i).day]
                   i == CHOOSE x \in ready :
                           \A y \in ready \ {x} : Before(pinned, day, x, y)
               IN [order |-> Append(so.order, i),
                   at |-> With(so.at, i, Placed(b, today, slots, so.at, i))]
    IN pass[Cardinality(Open(b))]

-----------------------------------------------------------------------------
(* The backward pass, slack and the critical path. *)

\* Mutation of Imposed: a deadline bounds only what nothing waits on.
ImposedOnEnds(b, i) ==
    IF b[i].deadline = NoDate \/ Successors(b, i) # {} THEN {}
    ELSE {WorkingDayOnOrBefore(b[i].deadline)}

Imposed(b, i) ==
    IF b[i].deadline = NoDate THEN {} ELSE {WorkingDayOnOrBefore(b[i].deadline)}

LatestFinish(b, at) ==
    LET ends == {at[i].end : i \in DOMAIN at}
        late[i \in DOMAIN at] ==
          LET bounds == {WorkingDayOnOrBefore(
                           SubtractWorkingDays(late[j], DurationDays[b[j].size] - 1) - 1) :
                           j \in Successors(b, i)}
                         \cup Imposed(b, i)
          IN IF bounds = {} THEN Max(ends) ELSE Min(bounds)
    IN late

\* The longest chain of dependencies among the initiatives of least slack.
LongestChain(b, members) ==
    LET before == [i \in members |-> b[i].deps \cap members]
        best[i \in members] ==
          DurationDays[b[i].size] + Max({0} \cup {best[p] : p \in before[i]})
        Longest(S) == Min({i \in S : \A j \in S : best[j] <= best[i]})
        path[i \in members] ==
          IF before[i] = {} THEN <<i>> ELSE Append(path[Longest(before[i])], i)
    IN IF members = {} THEN <<>> ELSE path[Longest(members)]

\* What is said of a forward pass once it is made.
Measured(b, pass) ==
    LET late == LatestFinish(b, pass.at)
        slack == [i \in Open(b) |-> WorkingDaysBetween(pass.at[i].end, late[i])]
    IN [order |-> pass.order,
        at |-> pass.at,
        slack |-> slack,
        infeasible |-> {i \in Open(b) : /\ b[i].deadline # NoDate
                                        /\ pass.at[i].end > b[i].deadline}]

ComputeSchedule(b, today, slots, pinned) == Measured(b, Forward(b, today, slots, pinned))

\* The open initiatives of least slack, and the longest chain among them.
CriticalPath(b, slack) ==
    LongestChain(b, {i \in Open(b) : \A j \in Open(b) : slack[i] <= slack[j]})

-----------------------------------------------------------------------------
(* One initiative is moved, and the whole schedule is computed again. *)

Compared(b, i, day, before, after) ==
    LET Dates(s, j) == <<s.at[j].start, s.at[j].end>>
    IN [after |-> after,
        actual |-> after.at[i],
        honoured |-> after.at[i].start = WorkingDayOnOrAfter(day),
        shifted |-> {j \in Open(b) : Dates(before, j) # Dates(after, j)},
        broken |-> after.infeasible \ before.infeasible,
        repaired |-> before.infeasible \ after.infeasible]

Replan(b, today, slots, i, day) ==
    Compared(b, i, day,
             ComputeSchedule(b, today, slots, {}),
             ComputeSchedule([b EXCEPT ![i].start = day], today, slots, {i}))
=============================================================================
