-------------------------------- MODULE History --------------------------------
(***************************************************************************)
(* Completion history: `prisme-sync backfill` (apps/sync/src/backfill) and  *)
(* the daily capacity refresh (capacity-refresh.ts) page through what was   *)
(* completed in the task tool, window by window, keep a cursor of what was  *)
(* read, and rebuild from the stored rows the weeks of capacity, the list   *)
(* under them, and the adherence of rituals.                                *)
(*                                                                         *)
(* Every request and every transaction is a step; people complete and       *)
(* un-complete tasks and change mappings in between, and a run may end at   *)
(* any step. Both kinds of run hold the reconciler's lock, so there is one. *)
(*                                                                         *)
(* Time is counted in days. A read covers the day d when it covers the      *)
(* interval from d to d + 1.                                                *)
(***************************************************************************)
EXTENDS Integers, FiniteSetsExt

CONSTANTS
    OneOffs, Habits,    \* tasks; a habit recurs and is a ritual's task
    SliceDays,          \* days in a window of the fetch
    ReadMargin,         \* READ_MARGIN_MS
    Trailing,           \* CAPACITY_WINDOW_WEEKS, in days
    Week,               \* days in a week
    Period,             \* days in the period a ritual's cadence counts over
    Opportunities,      \* how often the cadence offers itself in a period
    Skew,               \* how far the tool's two records of one completion may differ
    LastDay, MaxMade,   \* bounds
    Absent

Tasks == OneOffs \cup Habits

ASSUME SpansAssumption ==
    /\ {SliceDays, Week, Period, Opportunities} \subseteq Nat \ {0}
    /\ {ReadMargin, Trailing, Skew, LastDay, MaxMade} \subseteq Nat
    /\ Trailing <= LastDay
    /\ Skew <= ReadMargin
    /\ OneOffs \cap Habits = {} /\ IsFiniteSet(Tasks)
    /\ Absent \notin Nat /\ Absent \notin [from : Nat, through : Nat]

VARIABLES
    now,
    made,               \* the completions there were: [task, at, logged, taken]
    undone,             \* the un-completions: [task, at]
    mapped,             \* tasks that lie where an area_mapping row points
    history,            \* completion_history: [task, at]
    cursor,             \* backfill_cursor: [from, through], or Absent
    week,               \* capacity_week: completions by first day, 0 for no row
    listed,             \* capacity_completion: [task, at]
    adherence,          \* ritual_adherence by ritual and period, Absent for no row
    run,                \* the run under way
    read,               \* history: the days a recorded window covered
    gap                 \* history: a cause of a gap in the coverage came to pass

tool == <<now, made, undone>>
store == <<history, cursor, week, listed, adherence>>
vars == <<tool, mapped, store, run, read, gap>>

Days == 0 .. LastDay
WeekStart(d) == (d \div Week) * Week
PeriodStart(d) == (d \div Period) * Period
Later(a, b) == IF a >= b THEN a ELSE b
Earlier(a, b) == IF a <= b THEN a ELSE b

Resting == [at |-> "rest", kind |-> Absent, next |-> 0, from |-> 0, to |-> 0, claim |-> 0,
            widens |-> FALSE, recorded |-> FALSE, entries |-> {}, rows |-> {}]

Stages == {"rest", "history", "log", "record", "load", "replace", "adhere"}
Fetching == {"history", "log", "record"}

Completions == [task : Tasks, at : Int]
Stored == [task : Tasks, at : Days]

TypeOK ==
    /\ now \in Days
    /\ made \subseteq [task : Tasks, at : Int, logged : Days, taken : BOOLEAN]
    /\ undone \subseteq [task : Tasks, at : Days]
    /\ mapped \subseteq Tasks
    /\ history \subseteq Stored /\ listed \subseteq Stored
    /\ cursor \in {Absent} \cup [from : Days, through : Days]
    /\ week \in [{WeekStart(d) : d \in Days} -> Nat]
    /\ adherence \in [Habits \X {PeriodStart(d) : d \in Days} -> Nat \cup {Absent}]
    /\ run \in [at : Stages, kind : {Absent, "backfill", "refresh"}, next : Days, from : Days,
                to : Days, claim : Days, widens : BOOLEAN, recorded : BOOLEAN,
                entries : SUBSET Completions, rows : SUBSET Stored]
    /\ read \subseteq Days
    /\ gap \in BOOLEAN

\* The task tool was in use before prisme was.
Init ==
    /\ now = Trailing
    /\ made \in SUBSET {[task |-> t, at |-> d, logged |-> d, taken |-> FALSE] :
                            t \in Tasks, d \in 0 .. Trailing}
    /\ \A c, d \in made : c.task = d.task /\ c.task \in OneOffs => c = d
    /\ undone = {}
    /\ mapped \in SUBSET Tasks
    /\ history = {} /\ cursor = Absent /\ listed = {}
    /\ week = [d \in {WeekStart(d) : d \in Days} |-> 0]
    /\ adherence = [row \in Habits \X {PeriodStart(d) : d \in Days} |-> Absent]
    /\ run = Resting /\ read = {} /\ gap = FALSE

-----------------------------------------------------------------------------
(* People. *)

Standing(t) == {c \in made : c.task = t /\ ~c.taken}

\* All that the log has of t is before.
Follows(t, at) ==
    /\ at >= 0
    /\ \A c \in made : c.task = t => c.logged < at
    /\ \A u \in undone : u.task = t => u.at < at

\* What happens after a run has begun is stamped later than the run's end of range.
Happens == run.at # "rest" => now > run.to

\* A device that was offline reports late: the task is stamped with its own
\* clock, the log with the tool's. A habit's occurrence is only logged.
Complete(t, at) ==
    /\ Happens /\ Cardinality(made) < MaxMade
    /\ at \in (now - Skew) .. now /\ Follows(t, at)
    /\ t \in OneOffs => Standing(t) = {}
    /\ t \in Habits => at = now
    /\ made' = made \cup {[task |-> t, at |-> at, logged |-> now, taken |-> FALSE]}
    /\ UNCHANGED <<now, undone, mapped, store, run, read, gap>>

TakeBack(t) ==
    /\ Happens /\ Follows(t, now)
    /\ \E c \in Standing(t) :
          /\ \A d \in Standing(t) : d.logged <= c.logged
          /\ made' = (made \ {c}) \cup {[c EXCEPT !.taken = TRUE]}
    /\ undone' = undone \cup {[task |-> t, at |-> now]}
    /\ UNCHANGED <<now, mapped, store, run, read, gap>>

\* An area_mapping row comes or goes.
MapPlace(t) ==
    /\ mapped' = IF t \in mapped THEN mapped \ {t} ELSE mapped \cup {t}
    /\ UNCHANGED <<tool, store, run, read, gap>>

Tick ==
    /\ now < LastDay
    /\ now' = now + 1
    /\ UNCHANGED <<made, undone, mapped, store, run, read, gap>>

-----------------------------------------------------------------------------
(* What the tool answers. *)

\* fetchCompletions: a one-off is listed once, where it was completed last.
CompletionHistory(from, to) ==
    {[task |-> c.task, at |-> c.at] :
        c \in {c \in made : c.task \in OneOffs /\ ~c.taken /\ c.at \in from .. to}}

\* fetchCompletionEvents.
ActivityLog(from, to) ==
    {[task |-> c.task, at |-> c.logged, completed |-> TRUE] :
        c \in {c \in made : c.logged \in from .. to}}
      \cup
    {[task |-> u.task, at |-> u.at, completed |-> FALSE] :
        u \in {u \in undone : u.at \in from .. to}}

-----------------------------------------------------------------------------
(* completions.ts: one window out of the two records. *)

\* Rule 1: an un-completion takes back the latest completion before it.
StandingInLog(events) ==
    LET Latest(set) == CHOOSE e \in set : \A d \in set : d.at <= e.at
        Judge(e, open) == IF e.completed THEN open \cup {e.at}
                          ELSE {at \in open : \E later \in open : later > at}
    IN  MapThenFoldSet(Judge, {}, LAMBDA e : e, Latest, events)

\* Rules 2 and 3: the log's standing completions, the latest first, each pair
\* with the latest entry within the margin; those left are completions of
\* their own.
Unpaired(entries, log) ==
    LET Pair(at, out) ==
          LET reach == {e \in out.entries : e <= at + ReadMargin}
              near == {e \in reach : e >= at - ReadMargin}
          IN  IF near # {}
              THEN [out EXCEPT !.entries = reach \ {Max(near)}]
              ELSE [entries |-> reach, alone |-> out.alone \cup {at}]
    IN  MapThenFoldSet(Pair, [entries |-> entries, alone |-> {}], LAMBDA at : at, Min, log).alone

\* Rule 4: every entry of the history stands. Only what is keyed inside the
\* window is returned.
Merged(entries, events, since, until) ==
    {c \in entries \cup
           UNION {{[task |-> t, at |-> at] :
                     at \in Unpaired({e.at : e \in {e \in entries : e.task = t}},
                                     StandingInLog({e \in events : e.task = t}))} : t \in Tasks} :
        c.at \in since .. until}

-----------------------------------------------------------------------------
(* The fetch. *)

\* sliceRange, oldest first: the window in hand ends here.
Until == Earlier(run.next + SliceDays, run.to)

\* Mutation of PlanResume: an earlier start is a resume like any other.
PlanResumeAlways(from, to) ==
    IF cursor = Absent
    THEN [next |-> from, from |-> from, to |-> to, skips |-> FALSE]
    ELSE [next |-> Earlier(Later(cursor.through, from), to), from |-> Earlier(cursor.from, from),
          to |-> Later(to, cursor.through), skips |-> cursor.through < from]

\* What a run asked for from .. to has to fetch and will cover.  A request
\* that starts after the cursor ends skips what lies between.
PlanResume(from, to) ==
    CASE cursor = Absent ->
           [next |-> from, from |-> from, to |-> to, skips |-> FALSE]
      [] cursor # Absent /\ from < cursor.from ->
           [next |-> from, from |-> from, to |-> Later(to, cursor.through), skips |-> FALSE]
      [] OTHER ->
           [next |-> Earlier(Later(cursor.through, from), to), from |-> cursor.from,
            to |-> Later(to, cursor.through), skips |-> cursor.through < from /\ from < to]

Begin(kind, next, claim, from, to) ==
    /\ run.at = "rest"
    /\ run' = [Resting EXCEPT
                 !.at = IF next < to THEN "history" ELSE "load",
                 !.kind = kind, !.next = next, !.claim = claim, !.from = from, !.to = to,
                 !.widens = cursor # Absent /\ claim < (IF cursor = Absent THEN 0 ELSE cursor.from)]
    /\ UNCHANGED <<tool, mapped, store, read>>

\* prisme-sync backfill --from <date>
StartBackfill(asked) ==
    LET plan == PlanResume(asked, now)
    IN  /\ Begin("backfill", plan.next, plan.from, plan.from, plan.to)
        /\ gap' = (gap \/ plan.skips)

\* fetchTrailing: from the window's start, or the end of the cursor if that is earlier.
TrailingStart(from) ==
    IF cursor = Absent THEN from ELSE Earlier(from, cursor.through)

StartRefresh ==
    LET from == now - Trailing
        start == TrailingStart(from)
    IN  /\ Begin("refresh", start, start, from, now)
        /\ UNCHANGED gap

\* Mutation of FetchHistory: the window, and no margin around it.
FetchHistoryExactly ==
    /\ run.at = "history"
    /\ run' = [run EXCEPT !.at = "log", !.entries = CompletionHistory(run.next, Until)]
    /\ UNCHANGED <<tool, mapped, store, read, gap>>

\* Both records are read wider than the window, one after the other.
FetchHistory ==
    /\ run.at = "history"
    /\ run' = [run EXCEPT !.at = "log",
                          !.entries = CompletionHistory(run.next - ReadMargin, Until + ReadMargin)]
    /\ UNCHANGED <<tool, mapped, store, read, gap>>

FetchLog ==
    /\ run.at = "log"
    /\ run' = [run EXCEPT
                 !.at = "record", !.entries = {},
                 !.rows = Merged(run.entries, ActivityLog(run.next - ReadMargin, Until + ReadMargin),
                                 run.next, Until)]
    /\ UNCHANGED <<tool, mapped, store, read, gap>>

\* The cursor's claim only widens.
Widened(claim, through) ==
    IF cursor = Absent THEN [from |-> claim, through |-> through]
    ELSE [from |-> Earlier(cursor.from, claim), through |-> Later(cursor.through, through)]

\* One window's rows and the cursor, in one transaction.
RecordSlice ==
    /\ run.at = "record"
    /\ history' = history \cup run.rows
    /\ cursor' = Widened(run.claim, Until)
    /\ read' = read \cup (run.next .. Until - 1)
    /\ run' = [run EXCEPT !.at = IF Until < run.to THEN "history" ELSE "load",
                          !.next = Until, !.rows = {}, !.recorded = TRUE]
    /\ UNCHANGED <<tool, mapped, week, listed, adherence, gap>>

-----------------------------------------------------------------------------
(* materialise *)

\* Mutation of WeekBounds: from the instant asked for, not the week it is in.
WeekBoundsOfInstants(from, to) == from .. to - 1

\* Whole weeks, by Monday: those that the range touches.
WeekBounds(from, to) ==
    WeekStart(from) .. WeekStart(Later(to - 1, from)) + Week - 1

InWeeks == WeekBounds(run.from, run.to)

\* The three reads, and what is attributed of the rows they bring.
LoadCompletions ==
    /\ run.at = "load"
    /\ run' = [run EXCEPT !.at = "replace",
                          !.rows = {c \in history : c.at \in InWeeks /\ c.task \in mapped}]
    /\ UNCHANGED <<tool, mapped, store, read, gap>>

WeeklyCapacity(rows, start) == Cardinality({c \in rows : WeekStart(c.at) = start})

\* A row the transaction inserts that is there already, in either table.
Collides ==
    \/ \E d \in DOMAIN week : d \notin InWeeks /\ week[d] > 0 /\ WeeklyCapacity(run.rows, d) > 0
    \/ \E c \in listed : c.at \notin InWeeks /\ c \in run.rows

Replaced(rows) == {c \in listed : c.at \notin InWeeks} \cup rows

\* Both tables in one transaction: delete the weeks, insert them anew.
ReplaceMaterialised ==
    /\ run.at = "replace" /\ ~Collides
    /\ week' = [d \in DOMAIN week |->
                  IF d \in InWeeks THEN WeeklyCapacity(run.rows, d)
                  ELSE week[d] + WeeklyCapacity(run.rows, d)]
    /\ listed' = Replaced(run.rows)
    /\ run' = [run EXCEPT !.at = "adhere"]
    /\ UNCHANGED <<tool, mapped, history, cursor, adherence, read, gap>>

\* The periods a range touches, the empty ones too.
PeriodsFor(from, to) ==
    {p \in {PeriodStart(d) : d \in from .. Later(from, to - 1)} : p < to}

\* Mutation of ReconstructAdherence: one count for the range, not one a period.
ReconstructAdherenceAtOnce(ritual, p) ==
    Earlier(Opportunities,
            Cardinality({c \in run.rows : c.task = ritual /\ c.at \in run.from .. run.to - 1}))

\* What was done inside the range, clamped to what the cadence offers.
ReconstructAdherence(ritual, p) ==
    Earlier(Opportunities,
            Cardinality({c \in run.rows : /\ c.task = ritual
                                          /\ c.at \in run.from .. run.to - 1
                                          /\ PeriodStart(c.at) = p}))

RecordAdherence ==
    /\ run.at = "adhere"
    /\ adherence' = [row \in DOMAIN adherence |->
                       IF row[2] \in PeriodsFor(run.from, run.to)
                       THEN ReconstructAdherence(row[1], row[2]) ELSE adherence[row]]
    /\ run' = Resting
    /\ UNCHANGED <<tool, mapped, history, cursor, week, listed, read, gap>>

-----------------------------------------------------------------------------
(* Failures. *)

\* A run that widens the coverage and stops between two windows.
Tears == run.widens /\ run.recorded /\ run.at \in Fetching

\* A request or a transaction fails. The refresh goes on with what is stored.
Fails ==
    /\ run.at # "rest"
    /\ run' = IF run.kind = "refresh" /\ run.at \in Fetching
              THEN [run EXCEPT !.at = "load", !.entries = {}, !.rows = {}] ELSE Resting
    /\ gap' = (gap \/ Tears)
    /\ UNCHANGED <<tool, mapped, store, read>>

\* The process ends.
Dies ==
    /\ run.at # "rest"
    /\ run' = Resting
    /\ gap' = (gap \/ Tears)
    /\ UNCHANGED <<tool, mapped, store, read>>

People ==
    \/ \E t \in Tasks : \/ \E at \in -Skew .. LastDay : Complete(t, at)
                        \/ TakeBack(t)
                        \/ MapPlace(t)

Start == StartRefresh \/ \E asked \in 0 .. now : StartBackfill(asked)

Step ==
    \/ FetchHistory \/ FetchLog \/ RecordSlice
    \/ LoadCompletions \/ ReplaceMaterialised \/ RecordAdherence

Next == People \/ Tick \/ Start \/ Step \/ Fails \/ Dies

Spec == Init /\ [][Next]_vars

-----------------------------------------------------------------------------
(* What makes it correct. *)

\* One completion is one row: the tool stamps it twice, and no two windows,
\* runs or failures leave it in completion_history under both instants (ADR-0040
\* rule 4). One that was taken back is left out: a read that begins after the
\* completion and ends before the un-completion cannot pair them.
StoredOnce ==
    \A c \in made :
       c.at # c.logged /\ ~c.taken
       => ~({[task |-> c.task, at |-> c.at], [task |-> c.task, at |-> c.logged]} \subseteq history)

\* The days the cursor claims that no window was read over.
Unread == IF cursor = Absent THEN {} ELSE (cursor.from .. cursor.through - 1) \ read

\* The cursor claims a day nobody read only while a run that widens it is still
\* reading, or for one of two reasons: such a run stopped half way, or a
\* backfill was asked to start after the end of what was covered.
GapsHaveACause ==
    gap \/ Unread \subseteq
             (IF run.widens /\ run.at \in Fetching THEN run.next .. run.to - 1 ELSE {})

\* A run that got as far as its rewrite is not refused by a row it should have
\* deleted, and leaves every week it touched whole: of one task's completions in
\* one week all are in the list or none, those before the range's first day too.
\* A week's total is at all times the length of the list under it.
RewriteIsWhole ==
    /\ run.at = "replace" => ~Collides
    /\ run.at = "adhere" =>
          \A c, d \in history :
             /\ c.task = d.task /\ WeekStart(c.at) = WeekStart(d.at)
             /\ WeekStart(c.at) \in {WeekStart(k) : k \in run.from .. Later(run.from, run.to - 1)}
             => (c \in listed <=> d \in listed)
    /\ \A d \in DOMAIN week : week[d] = WeeklyCapacity(listed, d)

Itemised(ritual, p, before) ==
    Cardinality({c \in listed : c.task = ritual /\ PeriodStart(c.at) = p /\ c.at < before})

\* What a run records of a ritual's period is what its list holds for it, unless
\* the run's range began inside the period: then the days before are forgotten.
AdherenceMatchesTheList ==
    [][\A row \in DOMAIN adherence :
          adherence'[row] # adherence[row] /\ row[2] >= run.from
             => adherence'[row] = Earlier(Opportunities, Itemised(row[1], row[2], run.to))]_vars

=============================================================================
