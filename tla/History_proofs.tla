---------------------------- MODULE History_proofs ---------------------------
(***************************************************************************)
(* Proofs about History, for every number of tasks, days, windows and runs. *)
(*                                                                         *)
(* The coverage: a run that fetches starts where its claim does or inside  *)
(* what the cursor covers, and the cursor ends no later than the run does; *)
(* so a window's transaction claims what the window read, what was covered *)
(* before, and, if the run widens the coverage, what it is still to read.  *)
(*                                                                         *)
(* The rewrite: its bounds hold whole weeks, so that what it deletes and   *)
(* what it inserts share no week with what it leaves.                      *)
(*                                                                         *)
(* The merge: of a task that does not recur the log alternates completions *)
(* and un-completions, so that of any stretch of it one completion stands   *)
(* at most; a late report's entry in the completion history is within the   *)
(* margin of it, was read before, and takes the log's instant with it.      *)
(***************************************************************************)
EXTENDS History, FiniteSetTheorems, TLAPS

-----------------------------------------------------------------------------
(* Weeks and periods. *)

\* What div leaves of a day is within its unit.
LEMMA DivBounds ==
  ASSUME NEW n \in Nat \ {0}, NEW d \in Int
  PROVE  /\ d \div n \in Int
         /\ (d \div n) * n <= d
         /\ d < (d \div n) * n + n
OBVIOUS

\* A later day is in no earlier unit.
LEMMA DivMonotone ==
  ASSUME NEW n \in Nat \ {0}, NEW a \in Int, NEW b \in Int, a <= b
  PROVE  (a \div n) * n <= (b \div n) * n
<1> DEFINE p == a \div n
           q == b \div n
<1>1. p \in Int /\ q \in Int /\ p * n <= a /\ b < q * n + n
  BY DivBounds
<1> HIDE DEF p, q
<1>2. p * n < (q + 1) * n
  BY <1>1
<1>3. p < q + 1
  BY <1>1, <1>2
<1>4. p <= q
  BY <1>1, <1>3
<1>5. p * n <= q * n
  BY <1>1, <1>4
<1> QED
  BY <1>5 DEF p, q

\* All the days of a unit begin it where its first day does.
LEMMA DivInside ==
  ASSUME NEW n \in Nat \ {0}, NEW a \in Int, NEW k \in 0 .. n - 1
  PROVE  (((a \div n) * n + k) \div n) * n = (a \div n) * n
<1> DEFINE p == a \div n
           b == p * n + k
           q == b \div n
<1>1. p \in Int
  BY DivBounds
<1> HIDE DEF p
<1>2. b \in Int
  BY <1>1
<1>3. q \in Int /\ q * n <= b /\ b < q * n + n
  BY <1>2, DivBounds
<1> HIDE DEF q
<1>4. q * n < (p + 1) * n /\ p * n < (q + 1) * n
  BY <1>1, <1>3
<1>5. q < p + 1 /\ p < q + 1
  BY <1>1, <1>3, <1>4
<1>6. q = p
  BY <1>1, <1>3, <1>5
<1> QED
  BY <1>6 DEF q, p

\* A week's first day is at or before each of its days, and less than a week
\* before.
LEMMA WeekStartFacts ==
  ASSUME NEW d \in Int
  PROVE  /\ WeekStart(d) \in Int
         /\ WeekStart(d) <= d
         /\ d < WeekStart(d) + Week
<1>1. Week \in Nat \ {0}
  BY SpansAssumption
<1>2. /\ d \div Week \in Int
      /\ (d \div Week) * Week <= d
      /\ d < (d \div Week) * Week + Week
  BY <1>1, DivBounds
<1> QED
  BY <1>1, <1>2 DEF WeekStart

\* Later days are in later weeks.
LEMMA WeekStartMonotone ==
  ASSUME NEW a \in Int, NEW b \in Int, a <= b
  PROVE  WeekStart(a) <= WeekStart(b)
<1>1. Week \in Nat \ {0}
  BY SpansAssumption
<1> QED
  BY <1>1, DivMonotone DEF WeekStart

\* The days of a week have its first day.
LEMMA WeekStartInside ==
  ASSUME NEW a \in Int, NEW k \in 0 .. Week - 1
  PROVE  WeekStart(WeekStart(a) + k) = WeekStart(a)
<1>1. Week \in Nat \ {0}
  BY SpansAssumption
<1> QED
  BY <1>1, DivInside DEF WeekStart

\* A period's first day is at or before each of its days.
LEMMA PeriodStartFacts ==
  ASSUME NEW d \in Int
  PROVE  /\ PeriodStart(d) \in Int
         /\ PeriodStart(d) <= d
<1>1. Period \in Nat \ {0}
  BY SpansAssumption
<1>2. /\ d \div Period \in Int
      /\ (d \div Period) * Period <= d
  BY <1>1, DivBounds
<1> QED
  BY <1>1, <1>2 DEF PeriodStart

\* The bounds of a rewrite hold whole weeks: a day is inside when its week's
\* first day is.
LEMMA WholeWeeks ==
  ASSUME NEW from \in Int, NEW to \in Int, NEW d \in Int
  PROVE  d \in WeekBounds(from, to) <=> WeekStart(d) \in WeekBounds(from, to)
<1> DEFINE last == Later(to - 1, from)
           A == WeekStart(from)
           B == WeekStart(last)
           s == WeekStart(d)
<1>0. Week \in Nat \ {0}
  BY SpansAssumption
<1>1. last \in Int /\ from <= last
  BY DEF Later
<1> HIDE DEF last
<1>2. A \in Int /\ B \in Int /\ A <= B
  BY <1>1, WeekStartFacts, WeekStartMonotone
<1>3. s \in Int /\ s <= d /\ d < s + Week
  BY WeekStartFacts
<1>4. WeekStart(A + 0) = A
  BY <1>0, WeekStartInside
<1>5. WeekStart(A) = A
  BY <1>2, <1>4
<1>6. WeekStart(s + 0) = s
  BY <1>0, WeekStartInside
<1>7. WeekStart(s) = s
  BY <1>3, <1>6
<1>8. WeekStart(B + (Week - 1)) = B
  BY <1>0, <1>1, WeekStartInside
<1>9. ASSUME A <= d PROVE A <= s
  <2>1. WeekStart(A) <= WeekStart(d)
    BY <1>2, <1>9, WeekStartMonotone
  <2> QED
    BY <2>1, <1>5
<1>10. ASSUME s <= B + (Week - 1) PROVE d <= B + (Week - 1)
  <2>1. B + (Week - 1) \in Int
    BY <1>0, <1>2
  <2>2. WeekStart(s) <= WeekStart(B + (Week - 1))
    BY <1>3, <1>10, <2>1, WeekStartMonotone
  <2>3. s <= B
    BY <2>2, <1>7, <1>8
  <2> QED
    BY <1>0, <1>2, <1>3, <2>3
<1>11. WeekBounds(from, to) = A .. B + Week - 1
  BY DEF WeekBounds, last
<1> HIDE DEF A, B, s
<1>12. d \in A .. B + Week - 1 <=> s \in A .. B + Week - 1
  BY <1>0, <1>2, <1>3, <1>9, <1>10
<1> QED
  BY <1>11, <1>12 DEF s

\* The days asked for, and their weeks, are inside.
LEMMA AskedIsInside ==
  ASSUME NEW from \in Int, NEW to \in Int, NEW k \in from .. Later(from, to - 1)
  PROVE  k \in WeekBounds(from, to)
<1> DEFINE last == Later(to - 1, from)
<1>1. last \in Int /\ k \in Int /\ from <= k /\ k <= last
  BY DEF Later
<1> HIDE DEF last
<1>2. WeekStart(from) \in Int /\ WeekStart(from) <= from
  BY WeekStartFacts
<1>3. WeekStart(last) \in Int /\ last < WeekStart(last) + Week
  BY <1>1, WeekStartFacts
<1>4. Week \in Nat
  BY SpansAssumption
<1>5. k \in WeekStart(from) .. WeekStart(last) + Week - 1
  BY <1>1, <1>2, <1>3, <1>4
<1> QED
  BY <1>5 DEF WeekBounds, last

-----------------------------------------------------------------------------
(* The invariant. *)

\* The clock and the cursor: nothing is claimed that has not been.
ClockInv ==
    /\ Trailing <= now
    /\ run.at # "rest" => run.to <= now
    /\ cursor # Absent =>
          /\ cursor.from <= cursor.through
          /\ cursor.through <= (IF run.at = "rest" THEN now ELSE run.to)

\* A run that fetches starts where it claims to, or inside what is covered.
FetchInv ==
    run.at \in Fetching =>
       /\ run.next < run.to
       /\ \/ cursor = Absent /\ run.next = run.claim /\ ~run.widens
          \/ /\ cursor # Absent
             /\ cursor.from <= run.claim \/ (run.next = run.claim /\ run.widens)

\* Without a cause of a gap, a run reads on from inside the coverage, and until
\* its first window is recorded there is no day unread.
ReachInv ==
    gap \/
       /\ run.at \in Fetching /\ cursor # Absent => run.next <= cursor.through
       /\ ~run.recorded => Unread = {}

\* A rewrite holds what was stored of some tasks, and leaves just that in the
\* list; the totals are the list's.
RewriteInv ==
    /\ run.at \in {"replace", "adhere"} =>
          \E attributed \in SUBSET Tasks :
             run.rows = {c \in history : c.at \in InWeeks /\ c.task \in attributed}
    /\ run.at = "adhere" => {c \in listed : c.at \in InWeeks} = run.rows
    /\ \A d \in DOMAIN week : week[d] = WeeklyCapacity(listed, d)

CoverageInv ==
    /\ TypeOK
    /\ ClockInv
    /\ FetchInv
    /\ ReachInv
    /\ GapsHaveACause

HistoryInv ==
    /\ CoverageInv
    /\ RewriteInv

RunType ==
    [at : Stages, kind : {Absent, "backfill", "refresh"}, next : Days, from : Days,
     to : Days, claim : Days, widens : BOOLEAN, recorded : BOOLEAN,
     entries : SUBSET Completions, rows : SUBSET Stored]

WeekFirsts == {WeekStart(d) : d \in Days}
PeriodFirsts == {PeriodStart(d) : d \in Days}

-----------------------------------------------------------------------------
(* Types. *)

\* The days of a run are numbers.
LEMMA DaysAreInstants ==
  /\ LastDay \in Nat
  /\ 0 \in Days
  /\ \A d \in Days : d \in Int /\ 0 <= d /\ d <= LastDay
BY SpansAssumption DEF Days

\* The earlier and the later of two days are days.
LEMMA EarlierLater ==
  ASSUME NEW a \in Days, NEW b \in Days
  PROVE  Earlier(a, b) \in Days /\ Later(a, b) \in Days
BY DEF Earlier, Later

\* A run at rest has the type of a run.
LEMMA RestingTyped == Resting \in RunType
BY DaysAreInstants DEF Resting, RunType, Stages

\* A window ends in the range, and after it begins.
LEMMA UntilTyped ==
  ASSUME TypeOK
  PROVE  /\ Until \in Days
         /\ Until <= run.to
         /\ run.next < run.to => run.next < Until
<1>1. run.next \in Days /\ run.to \in Days
  BY DEF TypeOK
<1>2. SliceDays \in Nat \ {0}
  BY SpansAssumption
<1> QED
  BY <1>1, <1>2, DaysAreInstants DEF Until, Earlier, Days

\* Sets of stored rows are finite.
LEMMA StoredIsFinite ==
  ASSUME NEW rows \in SUBSET Stored
  PROVE  IsFiniteSet(rows) /\ Cardinality(rows) \in Nat
<1>1. IsFiniteSet(Days)
  BY DaysAreInstants, FS_Interval DEF Days
<1>2. IsFiniteSet(Tasks)
  BY SpansAssumption
<1>3. IsFiniteSet(Tasks \X Days)
  BY <1>1, <1>2, FS_Product
<1> DEFINE f == [p \in Tasks \X Days |-> [task |-> p[1], at |-> p[2]]]
<1>4. f \in Surjection(Tasks \X Days, Stored)
  <2>1. f \in [Tasks \X Days -> Stored]
    BY DEF Stored
  <2>2. ASSUME NEW c \in Stored PROVE \E p \in Tasks \X Days : f[p] = c
    <3>1. c.task \in Tasks /\ c.at \in Days /\ c = [task |-> c.task, at |-> c.at]
      BY DEF Stored
    <3>2. f[<<c.task, c.at>>] = c
      BY <3>1
    <3> QED
      BY <3>1, <3>2
  <2> QED
    BY <2>1, <2>2 DEF Surjection
<1>5. IsFiniteSet(Stored)
  BY <1>3, <1>4, FS_Surjection
<1>6. IsFiniteSet(rows)
  BY <1>5, FS_Subset
<1> QED
  BY <1>6, FS_CardinalityType

\* What a run begins with.
LEMMA BeginTyped ==
  ASSUME TypeOK, NEW kind \in {"backfill", "refresh"}, NEW next \in Days, NEW claim \in Days,
         NEW from \in Days, NEW to \in Days, Begin(kind, next, claim, from, to)
  PROVE  /\ run' \in RunType
         /\ run'.at \in {"history", "load"}
         /\ run'.at = "history" <=> next < to
         /\ run'.next = next /\ run'.claim = claim /\ run'.from = from /\ run'.to = to
         /\ run'.widens <=> cursor # Absent /\ claim < cursor.from
         /\ ~run'.recorded
<1> DEFINE stage == IF next < to THEN "history" ELSE "load"
           wide == cursor # Absent /\ claim < (IF cursor = Absent THEN 0 ELSE cursor.from)
<1>1. stage \in Stages /\ stage \in {"history", "load"} /\ (stage = "history" <=> next < to)
  BY DEF Stages
<1>2. wide \in BOOLEAN /\ (wide <=> cursor # Absent /\ claim < cursor.from)
  OBVIOUS
<1>3. run' = [Resting EXCEPT !.at = stage, !.kind = kind, !.next = next, !.claim = claim,
                             !.from = from, !.to = to, !.widens = wide]
  BY DEF Begin
<1> HIDE DEF stage, wide
<1>4. Resting \in RunType /\ ~Resting.recorded
  BY RestingTyped DEF Resting
<1> QED
  BY <1>1, <1>2, <1>3, <1>4 DEF RunType

\* A cursor that is there has its two days.
LEMMA CursorTyped ==
  ASSUME TypeOK, cursor # Absent
  PROVE  /\ cursor \in [from : Days, through : Days]
         /\ cursor.from \in Days /\ cursor.through \in Days
<1>1. cursor \in [from : Days, through : Days]
  BY DEF TypeOK
<1> QED
  BY <1>1

\* What was planned for a backfill or a refresh is between the first day and now.
LEMMA PlanTyped ==
  ASSUME TypeOK, NEW asked \in 0 .. now
  PROVE  LET plan == PlanResume(asked, now)
         IN  plan.next \in Days /\ plan.from \in Days /\ plan.to \in Days
<1>0. now \in Days /\ asked \in Days
  BY DaysAreInstants DEF TypeOK, Days
<1>1. CASE cursor = Absent
  <2>1. PlanResume(asked, now)
          = [next |-> asked, from |-> asked, to |-> now, skips |-> FALSE]
    BY <1>1, Zenon DEF PlanResume
  <2> QED
    BY <1>0, <2>1
<1>2. CASE cursor # Absent /\ asked < cursor.from
  <2>1. PlanResume(asked, now)
          = [next |-> asked, from |-> asked, to |-> Later(now, cursor.through), skips |-> FALSE]
    BY <1>2, Zenon DEF PlanResume
  <2>2. Later(now, cursor.through) \in Days
    BY <1>0, <1>2, CursorTyped, EarlierLater
  <2> QED
    BY <1>0, <1>2, <2>1, <2>2
<1>3. CASE cursor # Absent /\ ~(asked < cursor.from)
  <2>1. PlanResume(asked, now)
          = [next |-> Earlier(Later(cursor.through, asked), now), from |-> cursor.from,
             to |-> Later(now, cursor.through),
             skips |-> cursor.through < asked /\ asked < now]
    BY <1>3, Zenon DEF PlanResume
  <2>2. cursor.from \in Days /\ cursor.through \in Days
    BY <1>3, CursorTyped
  <2>3. /\ Earlier(Later(cursor.through, asked), now) \in Days
        /\ Later(now, cursor.through) \in Days
    BY <1>0, <2>2, EarlierLater
  <2> QED
    BY <1>0, <1>3, <2>1, <2>2, <2>3
<1> QED
  BY <1>1, <1>2, <1>3

\* Whatever the pairing leaves, a window's rows are stored completions inside it.
LEMMA MergedTyped ==
  ASSUME NEW since \in Days, NEW until \in Days, NEW entries \in SUBSET Completions, NEW events
  PROVE  \A c \in Merged(entries, events, since, until) :
            c \in Stored /\ c.at \in since .. until
<1> SUFFICES ASSUME NEW c \in Merged(entries, events, since, until)
             PROVE  c \in Stored /\ c.at \in since .. until
  OBVIOUS
<1>1. since .. until \subseteq Days
  BY DaysAreInstants DEF Days
<1>2. c.at \in since .. until
  BY DEF Merged
<1>3. CASE c \in entries
  BY <1>1, <1>2, <1>3 DEF Completions, Stored
<1>4. CASE c \notin entries
  <2>1. PICK t \in Tasks :
          c \in {[task |-> t, at |-> at] :
                    at \in Unpaired({e.at : e \in {e \in entries : e.task = t}},
                                   StandingInLog({e \in events : e.task = t}))}
    BY <1>4 DEF Merged
  <2>2. PICK at : c = [task |-> t, at |-> at]
    BY <2>1
  <2> QED
    BY <1>1, <1>2, <2>2 DEF Stored
<1> QED
  BY <1>3, <1>4

\* A week's capacity is a number, of finitely many rows.
LEMMA CapacityTyped ==
  ASSUME NEW rows \in SUBSET Stored, NEW d
  PROVE  WeeklyCapacity(rows, d) \in Nat
<1>1. {c \in rows : WeekStart(c.at) = d} \in SUBSET Stored
  OBVIOUS
<1> QED
  BY <1>1, StoredIsFinite DEF WeeklyCapacity

\* A ritual's adherence is a number.
LEMMA AdherenceTyped ==
  ASSUME TypeOK, NEW ritual, NEW p
  PROVE  ReconstructAdherence(ritual, p) \in Nat
<1> DEFINE S == {c \in run.rows : /\ c.task = ritual
                                  /\ c.at \in run.from .. run.to - 1
                                  /\ PeriodStart(c.at) = p}
<1>1. S \in SUBSET Stored
  BY DEF TypeOK
<1>2. Cardinality(S) \in Nat
  BY <1>1, StoredIsFinite
<1>3. Opportunities \in Nat
  BY SpansAssumption
<1>4. ReconstructAdherence(ritual, p) = Earlier(Opportunities, Cardinality(S))
  BY DEF ReconstructAdherence
<1> QED
  BY <1>2, <1>3, <1>4 DEF Earlier

\* Each step leaves the types right.
LEMMA PeopleTyped ==
  ASSUME TypeOK, People \/ Tick
  PROVE  TypeOK'
<1>1. ASSUME NEW t \in Tasks, NEW at \in -Skew .. LastDay, Complete(t, at)
      PROVE  TypeOK'
  <2>1. now \in Days /\ at \in Int
    BY SpansAssumption DEF TypeOK
  <2>2. [task |-> t, at |-> at, logged |-> now, taken |-> FALSE]
          \in [task : Tasks, at : Int, logged : Days, taken : BOOLEAN]
    BY <2>1
  <2>3. made' \subseteq [task : Tasks, at : Int, logged : Days, taken : BOOLEAN]
    BY <1>1, <2>2 DEF TypeOK, Complete
  <2>4. UNCHANGED <<now, undone, mapped, store, run, read, gap>>
    BY <1>1 DEF Complete
  <2> QED
    BY <2>3, <2>4 DEF TypeOK, store
<1>2. ASSUME NEW t \in Tasks, TakeBack(t)
      PROVE  TypeOK'
  <2> DEFINE Made == [task : Tasks, at : Int, logged : Days, taken : BOOLEAN]
  <2>1. PICK c \in made : made' = (made \ {c}) \cup {[c EXCEPT !.taken = TRUE]}
    BY <1>2 DEF TakeBack, Standing
  <2>2. made \in SUBSET Made
    BY DEF TypeOK
  <2>3. [c EXCEPT !.taken = TRUE] \in Made
    BY <2>2
  <2>4. made' \in SUBSET Made
    BY <2>1, <2>2, <2>3
  <2>5. undone' \in SUBSET [task : Tasks, at : Days]
    BY <1>2 DEF TypeOK, TakeBack
  <2> QED
    BY <1>2, <2>4, <2>5 DEF TypeOK, TakeBack, store
<1>3. ASSUME NEW t \in Tasks, MapPlace(t)
      PROVE  TypeOK'
  BY <1>3 DEF TypeOK, MapPlace, tool, store
<1>4. CASE Tick
  <2>1. now' \in Days
    BY <1>4, DaysAreInstants DEF Tick, TypeOK, Days
  <2> QED
    BY <1>4, <2>1 DEF TypeOK, Tick, store
<1> QED
  BY <1>1, <1>2, <1>3, <1>4 DEF People

\* A run began: what it began with, and of what.
LEMMA StartFacts ==
  ASSUME TypeOK, ClockInv, Start
  PROVE  \E kind \in {"backfill", "refresh"}, next, claim, from, to \in Days :
            Begin(kind, next, claim, from, to)
<1>0. now \in Days /\ Trailing \in Nat /\ Trailing <= now
  BY SpansAssumption DEF TypeOK, ClockInv
<1>1. CASE StartRefresh
  <2>1. now - Trailing \in Days
    BY <1>0, DaysAreInstants DEF Days
  <2>2. TrailingStart(now - Trailing) \in Days
    BY <2>1, CursorTyped, EarlierLater DEF TrailingStart
  <2>3. Begin("refresh", TrailingStart(now - Trailing), TrailingStart(now - Trailing),
              now - Trailing, now)
    BY <1>1 DEF StartRefresh
  <2> QED
    BY <1>0, <2>1, <2>2, <2>3
<1>2. ASSUME NEW asked \in 0 .. now, StartBackfill(asked)
      PROVE  \E kind \in {"backfill", "refresh"}, next, claim, from, to \in Days :
                Begin(kind, next, claim, from, to)
  <2> DEFINE plan == PlanResume(asked, now)
  <2>1. plan.next \in Days /\ plan.from \in Days /\ plan.to \in Days
    BY PlanTyped
  <2>2. Begin("backfill", plan.next, plan.from, plan.from, plan.to)
    BY <1>2 DEF StartBackfill
  <2> HIDE DEF plan
  <2> QED
    BY <2>1, <2>2
<1> QED
  BY <1>1, <1>2 DEF Start

\* A run started keeps every type.
LEMMA StartTyped ==
  ASSUME TypeOK, ClockInv, Start
  PROVE  TypeOK'
<1>1. PICK kind \in {"backfill", "refresh"}, next, claim, from, to \in Days :
         Begin(kind, next, claim, from, to)
  BY StartFacts
<1>2. run' \in RunType
  BY <1>1, BeginTyped
<1>3. gap' \in BOOLEAN
  BY DEF Start, StartRefresh, StartBackfill, TypeOK
<1>4. UNCHANGED <<tool, mapped, store, read>>
  BY <1>1 DEF Begin
<1> QED
  BY <1>2, <1>3, <1>4 DEF TypeOK, RunType, tool, store

\* So does each of its steps.
LEMMA StepTyped ==
  ASSUME TypeOK, Step
  PROVE  TypeOK'
<1>0. run \in RunType /\ history \in SUBSET Stored /\ listed \in SUBSET Stored
  BY DEF TypeOK, RunType
<1>1. CASE FetchHistory
  <2>1. CompletionHistory(run.next - ReadMargin, Until + ReadMargin) \in SUBSET Completions
    BY DEF CompletionHistory, TypeOK, Completions
  <2>2. run' \in RunType
    BY <1>0, <1>1, <2>1 DEF FetchHistory, RunType, Stages
  <2> QED
    BY <1>1, <2>2 DEF TypeOK, RunType, FetchHistory, tool, store
<1>2. CASE FetchLog
  <2> DEFINE rows == Merged(run.entries,
                            ActivityLog(run.next - ReadMargin, Until + ReadMargin),
                            run.next, Until)
  <2>1. run.next \in Days /\ Until \in Days /\ run.entries \in SUBSET Completions
    BY <1>0, UntilTyped DEF RunType
  <2>2. rows \in SUBSET Stored
    BY <2>1, MergedTyped
  <2>3. run' = [run EXCEPT !.at = "record", !.entries = {}, !.rows = rows]
    BY <1>2 DEF FetchLog
  <2> HIDE DEF rows
  <2>4. run' \in RunType
    BY <1>0, <2>2, <2>3 DEF RunType, Stages
  <2> QED
    BY <1>2, <2>4 DEF TypeOK, RunType, FetchLog, tool, store
<1>3. CASE RecordSlice
  <2>1. run.next \in Days /\ Until \in Days /\ run.claim \in Days
        /\ run.rows \in SUBSET Stored
    BY <1>0, UntilTyped DEF RunType
  <2>2. Widened(run.claim, Until) \in [from : Days, through : Days]
    <3>1. CASE cursor = Absent
      BY <2>1, <3>1 DEF Widened
    <3>2. CASE cursor # Absent
      <4>1. cursor.from \in Days /\ cursor.through \in Days
        BY <3>2, CursorTyped
      <4>2. /\ Earlier(cursor.from, run.claim) \in Days
            /\ Later(cursor.through, Until) \in Days
        BY <2>1, <4>1, EarlierLater
      <4> QED
        BY <3>2, <4>2 DEF Widened
    <3> QED
      BY <3>1, <3>2
  <2>3. cursor' \in {Absent} \cup [from : Days, through : Days]
    BY <1>3, <2>2 DEF RecordSlice
  <2>4. history' \subseteq Stored
    BY <1>0, <1>3, <2>1 DEF RecordSlice
  <2>5. run.next .. Until - 1 \subseteq Days
    BY <2>1, DaysAreInstants DEF Days
  <2>6. read' \subseteq Days
    BY <1>3, <2>5 DEF RecordSlice, TypeOK
  <2> DEFINE stage == IF Until < run.to THEN "history" ELSE "load"
             end == Until
  <2>7. stage \in Stages
    BY DEF Stages
  <2>8. run' = [run EXCEPT !.at = stage, !.next = end, !.rows = {}, !.recorded = TRUE]
    BY <1>3 DEF RecordSlice
  <2>9. end \in Days
    BY <2>1
  <2> HIDE DEF stage, end
  <2>10. run' \in RunType
    BY <1>0, <2>7, <2>8, <2>9 DEF RunType
  <2>11. UNCHANGED <<tool, mapped, week, listed, adherence, gap>>
    BY <1>3 DEF RecordSlice
  <2> QED
    BY <2>3, <2>4, <2>6, <2>10, <2>11 DEF TypeOK, RunType, tool
<1>4. CASE LoadCompletions
  <2> DEFINE rows == {c \in history : c.at \in InWeeks /\ c.task \in mapped}
  <2>1. rows \in SUBSET Stored
    BY <1>0
  <2>2. run' = [run EXCEPT !.at = "replace", !.rows = rows]
    BY <1>4 DEF LoadCompletions
  <2> HIDE DEF rows
  <2>3. run' \in RunType
    BY <1>0, <2>1, <2>2 DEF RunType, Stages
  <2> QED
    BY <1>4, <2>3 DEF TypeOK, RunType, LoadCompletions, tool, store
<1>5. CASE ReplaceMaterialised
  <2>1. run.rows \in SUBSET Stored
    BY <1>0 DEF RunType
  <2>2. week \in [WeekFirsts -> Nat]
    BY DEF TypeOK, WeekFirsts
  <2>3. \A d : WeeklyCapacity(run.rows, d) \in Nat
    BY <2>1, CapacityTyped
  <2>4. week' = [d \in DOMAIN week |->
                   IF d \in InWeeks THEN WeeklyCapacity(run.rows, d)
                   ELSE week[d] + WeeklyCapacity(run.rows, d)]
    BY <1>5 DEF ReplaceMaterialised
  <2>5. week' \in [WeekFirsts -> Nat]
    BY <2>2, <2>3, <2>4
  <2>6. listed' \subseteq Stored
    BY <1>0, <1>5, <2>1 DEF ReplaceMaterialised, Replaced
  <2>7. run' \in RunType
    BY <1>0, <1>5 DEF ReplaceMaterialised, RunType, Stages
  <2> QED
    BY <1>5, <2>5, <2>6, <2>7
       DEF TypeOK, RunType, WeekFirsts, ReplaceMaterialised, tool
<1>6. CASE RecordAdherence
  <2>1. adherence \in [Habits \X PeriodFirsts -> Nat \cup {Absent}]
    BY DEF TypeOK, PeriodFirsts
  <2>2. \A ritual, p : ReconstructAdherence(ritual, p) \in Nat
    BY AdherenceTyped
  <2>3. adherence' = [row \in DOMAIN adherence |->
                        IF row[2] \in PeriodsFor(run.from, run.to)
                        THEN ReconstructAdherence(row[1], row[2]) ELSE adherence[row]]
    BY <1>6 DEF RecordAdherence
  <2>4. adherence' \in [Habits \X PeriodFirsts -> Nat \cup {Absent}]
    BY <2>1, <2>2, <2>3
  <2>5. run' \in RunType
    BY <1>6, RestingTyped DEF RecordAdherence
  <2> QED
    BY <1>6, <2>4, <2>5 DEF TypeOK, RunType, PeriodFirsts, RecordAdherence, tool
<1> QED
  BY <1>1, <1>2, <1>3, <1>4, <1>5, <1>6 DEF Step

\* So does its end at any point.
LEMMA StopTyped ==
  ASSUME TypeOK, Fails \/ Dies
  PROVE  TypeOK'
<1>1. run \in RunType
  BY DEF TypeOK, RunType
<1>2. [run EXCEPT !.at = "load", !.entries = {}, !.rows = {}] \in RunType
  BY <1>1 DEF RunType, Stages
<1>3. run' \in RunType
  BY <1>2, RestingTyped DEF Fails, Dies
<1>4. gap' \in BOOLEAN
  BY DEF Fails, Dies, TypeOK
<1>5. UNCHANGED <<tool, mapped, store, read>>
  BY DEF Fails, Dies
<1> QED
  BY <1>3, <1>4, <1>5 DEF TypeOK, RunType, tool, store

\* So does every step there is.
LEMMA TypeStep ==
  ASSUME TypeOK, ClockInv, [Next]_vars
  PROVE  TypeOK'
<1>1. CASE UNCHANGED vars
  BY <1>1 DEF TypeOK, vars, tool, store
<1> QED
  BY <1>1, PeopleTyped, StartTyped, StepTyped, StopTyped DEF Next

-----------------------------------------------------------------------------
(* The coverage. *)

\* Outside a fetch nothing is left unread without a cause.
LEMMA ReadAtRest ==
  ASSUME GapsHaveACause, ~gap, run.at \notin Fetching \/ ~run.widens
  PROVE  Unread = {}
BY DEF GapsHaveACause

\* Time passes, or people act: the coverage is what it was.
LEMMA CoverageKept ==
  ASSUME CoverageInv, TypeOK', now' >= now, UNCHANGED <<cursor, run, read, gap>>
  PROVE  CoverageInv'
<1>1. now \in Int /\ now' \in Int /\ Trailing \in Int
  BY SpansAssumption, DaysAreInstants DEF CoverageInv, TypeOK
<1>2. run.to \in Int
  BY DaysAreInstants DEF CoverageInv, TypeOK
<1>3. cursor # Absent => cursor.through \in Int
  BY CursorTyped, DaysAreInstants DEF CoverageInv
<1>4. Unread' = Unread
  BY DEF Unread
<1>5. ClockInv'
  BY <1>1, <1>2, <1>3 DEF CoverageInv, ClockInv
<1>6. FetchInv' /\ ReachInv' /\ GapsHaveACause'
  BY <1>4 DEF CoverageInv, FetchInv, ReachInv, GapsHaveACause
<1> QED
  BY <1>5, <1>6 DEF CoverageInv

\* A run begins up to now, from where it claims or from inside what is covered.
LEMMA BeginCovers ==
  ASSUME CoverageInv, TypeOK',
         NEW kind \in {"backfill", "refresh"}, NEW next \in Days, NEW claim \in Days,
         NEW from \in Days, Begin(kind, next, claim, from, now),
         cursor = Absent => next = claim,
         cursor # Absent => cursor.from <= claim \/ next = claim,
         cursor # Absent /\ next < now => gap' \/ next <= cursor.through,
         gap => gap'
  PROVE  CoverageInv'
<1>0. TypeOK /\ now \in Days
  BY DEF CoverageInv, TypeOK
<1>1. /\ run' \in RunType
      /\ run'.at \in {"history", "load"}
      /\ run'.at = "history" <=> next < now
      /\ run'.next = next /\ run'.claim = claim /\ run'.from = from /\ run'.to = now
      /\ run'.widens <=> cursor # Absent /\ claim < cursor.from
      /\ ~run'.recorded
  BY <1>0, BeginTyped
<1>2. run.at = "rest" /\ UNCHANGED <<now, cursor, read>>
  BY DEF Begin, tool, store
<1>3. now \in Int /\ next \in Int /\ claim \in Int
  BY <1>0, DaysAreInstants
<1>4. cursor # Absent => cursor.through \in Int /\ cursor.from \in Int
  BY <1>0, CursorTyped, DaysAreInstants
<1>5. Unread' = Unread
  BY <1>2 DEF Unread
<1>6. ~gap' => Unread = {}
  BY <1>2, ReadAtRest DEF CoverageInv, Fetching
<1>7. ClockInv'
  BY <1>1, <1>2, <1>3, <1>4 DEF CoverageInv, ClockInv
<1>8. FetchInv'
  BY <1>1, <1>2, <1>3, <1>4 DEF FetchInv, Fetching
<1>9. ReachInv'
  BY <1>1, <1>2, <1>5, <1>6 DEF ReachInv, Fetching
<1>10. GapsHaveACause'
  BY <1>5, <1>6 DEF GapsHaveACause
<1> QED
  BY <1>7, <1>8, <1>9, <1>10 DEF CoverageInv

\* A run started claims nothing yet, and a gap it opens is of a cause named.
LEMMA StartCovers ==
  ASSUME CoverageInv, Start
  PROVE  CoverageInv'
<1>0. TypeOK /\ ClockInv /\ TypeOK' /\ now \in Days /\ now \in Int
  BY StartTyped, DaysAreInstants DEF CoverageInv, TypeOK
<1>1. Trailing \in Nat /\ Trailing <= now
  BY <1>0, SpansAssumption DEF ClockInv
<1>2. cursor # Absent =>
         /\ cursor.from \in Days /\ cursor.through \in Days
         /\ cursor.from \in Int /\ cursor.through \in Int
         /\ cursor.from <= cursor.through
  BY <1>0, CursorTyped, DaysAreInstants DEF ClockInv
<1>3. CASE StartRefresh
  <2> DEFINE start == TrailingStart(now - Trailing)
  <2>1. now - Trailing \in Days
    BY <1>0, <1>1, DaysAreInstants DEF Days
  <2>2. start \in Days
    BY <1>2, <2>1, EarlierLater DEF TrailingStart
  <2>3. Begin("refresh", start, start, now - Trailing, now) /\ UNCHANGED gap
    BY <1>3 DEF StartRefresh
  <2>4. cursor # Absent => start <= cursor.through
    BY <1>2, <2>1, DaysAreInstants DEF TrailingStart, Earlier
  <2> HIDE DEF start
  <2> QED
    BY <1>0, <2>1, <2>2, <2>3, <2>4, BeginCovers
<1>4. ASSUME NEW asked \in 0 .. now, StartBackfill(asked)
      PROVE  CoverageInv'
  <2> DEFINE plan == PlanResume(asked, now)
  <2>1. asked \in Int /\ plan.next \in Days /\ plan.from \in Days
    BY <1>0, PlanTyped
  <2>2. Begin("backfill", plan.next, plan.from, plan.from, plan.to) /\ gap' = (gap \/ plan.skips)
    BY <1>4 DEF StartBackfill
  <2>3. run.at = "rest"
    BY <2>2 DEF Begin
  <2>4. cursor # Absent => Later(now, cursor.through) = now
    BY <1>0, <1>2, <2>3 DEF ClockInv, Later
  <2>5. CASE cursor = Absent
    <3>1. plan = [next |-> asked, from |-> asked, to |-> now, skips |-> FALSE]
      BY <2>5, Zenon DEF PlanResume
    <3>2. plan.next = plan.from /\ plan.to = now
      BY <3>1
    <3> HIDE DEF plan
    <3> QED
      BY <1>0, <2>1, <2>2, <2>5, <3>2, BeginCovers
  <2>6. CASE cursor # Absent /\ asked < cursor.from
    <3>1. plan = [next |-> asked, from |-> asked, to |-> Later(now, cursor.through),
                  skips |-> FALSE]
      BY <2>6, Zenon DEF PlanResume
    <3>2. plan.next = plan.from /\ plan.to = now /\ plan.next <= cursor.through
      BY <1>2, <2>1, <2>4, <2>6, <3>1
    <3> HIDE DEF plan
    <3> QED
      BY <1>0, <2>1, <2>2, <2>6, <3>2, BeginCovers
  <2>7. CASE cursor # Absent /\ ~(asked < cursor.from)
    <3> DEFINE skips == cursor.through < asked /\ asked < now
    <3>1. plan = [next |-> Earlier(Later(cursor.through, asked), now), from |-> cursor.from,
                  to |-> Later(now, cursor.through), skips |-> skips]
      BY <2>7, Zenon DEF PlanResume
    <3> HIDE DEF skips
    <3>2. plan.from = cursor.from /\ plan.to = now
      BY <2>4, <2>7, <3>1
    <3>3. plan.next = Earlier(Later(cursor.through, asked), now) /\ plan.skips = skips
      BY <3>1
    <3>4. plan.skips <=> cursor.through < asked /\ asked < now
      BY <3>3 DEF skips
    <3>5. plan.next < now => plan.skips \/ plan.next <= cursor.through
      BY <1>0, <1>2, <2>1, <2>7, <3>3, <3>4 DEF Earlier, Later
    <3> HIDE DEF plan
    <3>6. cursor.from <= plan.from
      BY <1>2, <2>7, <3>2
    <3>7. plan.next < now => gap' \/ plan.next <= cursor.through
      BY <2>2, <3>5
    <3>8. gap => gap'
      BY <2>2
    <3> QED
      BY <1>0, <2>1, <2>2, <2>7, <3>2, <3>6, <3>7, <3>8, BeginCovers
  <2> QED
    BY <2>5, <2>6, <2>7
<1> QED
  BY <1>3, <1>4 DEF Start

\* A window's transaction widens the claim by what it read, and by what the run
\* is still to read.
LEMMA RecordCovers ==
  ASSUME CoverageInv, RecordSlice
  PROVE  CoverageInv'
<1> DEFINE end == Until
           start == run.next
           claim == run.claim
           to == run.to
           stage == IF Until < run.to THEN "history" ELSE "load"
<1>1. TypeOK /\ TypeOK'
  BY StepTyped DEF CoverageInv, Step
<1>2. run.at = "record" /\ run \in RunType
  BY <1>1 DEF RecordSlice, TypeOK, RunType
<1>3. start < to
  BY <1>2 DEF CoverageInv, FetchInv, Fetching
<1>4. start \in Int /\ end \in Int /\ claim \in Int /\ to \in Int /\ claim \in Days /\ end \in Days
  BY <1>1, <1>2, UntilTyped, DaysAreInstants DEF RunType
<1>5. start < end /\ end <= to
  BY <1>1, <1>3, UntilTyped
<1>6. run' = [run EXCEPT !.at = stage, !.next = end, !.rows = {}, !.recorded = TRUE]
  BY DEF RecordSlice
<1>7. stage \in {"history", "load"} /\ (stage = "history" <=> end < to)
  OBVIOUS
<1>8. cursor' = Widened(claim, end) /\ read' = read \cup (start .. end - 1) /\ gap' = gap
      /\ now' = now
  BY DEF RecordSlice, tool
<1> HIDE DEF end, stage
<1>9. /\ run'.at = stage /\ run'.next = end /\ run'.to = to /\ run'.claim = claim
      /\ run'.widens = run.widens
      /\ run'.recorded
  BY <1>2, <1>6 DEF RunType
<1> HIDE DEF start, claim, to
<1>10. cursor' \in [from : Days, through : Days] /\ cursor' # Absent
  <2>1. Widened(claim, end) \in [from : Days, through : Days]
    <3>1. CASE cursor = Absent
      BY <1>4, <3>1 DEF Widened
    <3>2. CASE cursor # Absent
      <4>1. cursor.from \in Days /\ cursor.through \in Days
        BY <1>1, <3>2, CursorTyped
      <4>2. Earlier(cursor.from, claim) \in Days /\ Later(cursor.through, end) \in Days
        BY <1>4, <4>1, EarlierLater
      <4> QED
        BY <3>2, <4>2 DEF Widened
    <3> QED
      BY <3>1, <3>2
  <2>2. Days \subseteq Nat
    BY DaysAreInstants
  <2>3. Widened(claim, end) \in [from : Nat, through : Nat]
    BY <2>1, <2>2
  <2>4. Absent \notin [from : Nat, through : Nat]
    BY SpansAssumption
  <2> QED
    BY <1>8, <2>1, <2>3, <2>4
<1>11. cursor = Absent =>
         start = claim /\ cursor'.from = claim /\ cursor'.through = end /\ ~run.widens
  <2> SUFFICES ASSUME cursor = Absent
               PROVE  start = claim /\ cursor'.from = claim /\ cursor'.through = end
                      /\ ~run.widens
    OBVIOUS
  <2>1. start = claim /\ ~run.widens
    BY <1>2 DEF CoverageInv, FetchInv, Fetching, start, claim
  <2>2. cursor' = [from |-> claim, through |-> end]
    BY <1>8 DEF Widened
  <2> QED
    BY <2>1, <2>2
<1>12. cursor # Absent =>
         /\ cursor.from \in Int /\ cursor.through \in Int
         /\ cursor.from <= cursor.through /\ cursor.through <= to
         /\ cursor'.from = Earlier(cursor.from, claim)
         /\ cursor'.through = Later(cursor.through, end)
         /\ cursor.from <= claim \/ (start = claim /\ run.widens)
         /\ gap \/ start <= cursor.through
  <2> SUFFICES ASSUME cursor # Absent
               PROVE  /\ cursor.from \in Int /\ cursor.through \in Int
                      /\ cursor.from <= cursor.through /\ cursor.through <= to
                      /\ cursor'.from = Earlier(cursor.from, claim)
                      /\ cursor'.through = Later(cursor.through, end)
                      /\ cursor.from <= claim \/ (start = claim /\ run.widens)
                      /\ gap \/ start <= cursor.through
    OBVIOUS
  <2>1. cursor.from \in Int /\ cursor.through \in Int
    BY <1>1, CursorTyped, DaysAreInstants
  <2>2. cursor.from <= cursor.through /\ cursor.through <= to
    BY <1>2 DEF CoverageInv, ClockInv, to
  <2>3. cursor' = [from |-> Earlier(cursor.from, claim), through |-> Later(cursor.through, end)]
    BY <1>8 DEF Widened
  <2>4. cursor.from <= claim \/ (start = claim /\ run.widens)
    BY <1>2 DEF CoverageInv, FetchInv, Fetching, start, claim
  <2>5. gap \/ start <= cursor.through
    BY <1>2 DEF CoverageInv, ReachInv, Fetching, start
  <2> QED
    BY <2>1, <2>2, <2>3, <2>4, <2>5
<1>13. ClockInv'
  <2>1. Trailing <= now /\ to <= now
    BY <1>2 DEF CoverageInv, ClockInv, to
  <2>2. cursor'.from <= cursor'.through
    BY <1>4, <1>5, <1>11, <1>12 DEF Earlier, Later
  <2>3. cursor'.through <= to
    BY <1>4, <1>5, <1>11, <1>12 DEF Later
  <2> QED
    BY <1>7, <1>8, <1>9, <2>1, <2>2, <2>3 DEF ClockInv
<1>14. FetchInv'
  <2>1. cursor'.from <= claim
    BY <1>4, <1>11, <1>12 DEF Earlier
  <2>2. stage = "history" => end < to
    BY <1>7
  <2> QED
    BY <1>7, <1>9, <1>10, <2>1, <2>2 DEF FetchInv, Fetching
<1>15. ASSUME ~gap, NEW d \in Unread'
       PROVE  run.widens /\ d \in end .. to - 1
  <2>1. d \in cursor'.from .. cursor'.through - 1 /\ d \notin read /\ d \notin start .. end - 1
    BY <1>8, <1>10, <1>15 DEF Unread
  <2>2. cursor'.from \in Int /\ cursor'.through \in Int
    BY <1>10, DaysAreInstants
  <2>3. d \in Int /\ cursor'.from <= d /\ d < cursor'.through /\ (d < start \/ end <= d)
    BY <1>4, <2>1, <2>2
  <2>4. cursor # Absent
    BY <1>4, <1>5, <1>11, <2>3
  <2>5. start <= cursor.through
    BY <1>12, <1>15, <2>4
  <2>6. CASE d < cursor.from
    BY <1>4, <1>5, <1>12, <2>3, <2>4, <2>6 DEF Earlier, Later
  <2>7. CASE cursor.from <= d /\ d < cursor.through
    <3>1. d \in Unread
      BY <1>12, <2>1, <2>3, <2>4, <2>7 DEF Unread
    <3>2. run.widens /\ d \in start .. to - 1
      BY <1>15, <3>1 DEF CoverageInv, GapsHaveACause, start, to
    <3> QED
      BY <1>4, <2>3, <3>2
  <2>8. CASE cursor.through <= d
    BY <1>4, <1>5, <1>12, <2>3, <2>4, <2>5, <2>8 DEF Later
  <2> QED
    BY <1>12, <2>3, <2>4, <2>6, <2>7, <2>8
<1>16. ReachInv'
  <2>1. gap \/ end <= cursor'.through
    BY <1>4, <1>11, <1>12 DEF Later
  <2> QED
    BY <1>8, <1>9, <2>1 DEF ReachInv
<1>17. GapsHaveACause'
  <2> SUFFICES ASSUME ~gap
               PROVE  Unread' \subseteq (IF run'.widens /\ run'.at \in Fetching
                                         THEN run'.next .. run'.to - 1 ELSE {})
    BY <1>8 DEF GapsHaveACause
  <2>1. CASE stage = "history"
    BY <1>9, <1>15, <2>1 DEF Fetching
  <2>2. CASE stage = "load"
    <3>1. end = to
      BY <1>4, <1>5, <1>7, <2>2
    <3>2. Unread' = {}
      BY <1>4, <1>15, <3>1
    <3> QED
      BY <3>2
  <2> QED
    BY <1>7, <2>1, <2>2
<1> QED
  BY <1>1, <1>13, <1>14, <1>16, <1>17 DEF CoverageInv

\* Between two windows, and after the last, a run leaves the coverage alone.
LEMMA WorkCovers ==
  ASSUME CoverageInv, FetchHistory \/ FetchLog \/ LoadCompletions \/ ReplaceMaterialised
  PROVE  CoverageInv'
<1>1. TypeOK /\ TypeOK' /\ run \in RunType
  BY StepTyped DEF CoverageInv, Step, TypeOK, RunType
<1>2. UNCHANGED <<now, cursor, read, gap>>
  BY DEF FetchHistory, FetchLog, LoadCompletions, ReplaceMaterialised, tool, store
<1>3. Unread' = Unread
  BY <1>2 DEF Unread
<1>4. /\ run'.next = run.next /\ run'.to = run.to /\ run'.claim = run.claim
      /\ run'.widens = run.widens /\ run'.recorded = run.recorded
      /\ run.at # "rest" /\ run'.at # "rest"
      /\ run.at \in Fetching <=> run'.at \in Fetching
  <2>1. CASE FetchHistory
    <3> DEFINE e == CompletionHistory(run.next - ReadMargin, Until + ReadMargin)
    <3>1. run.at = "history" /\ run' = [run EXCEPT !.at = "log", !.entries = e]
      BY <2>1 DEF FetchHistory
    <3> HIDE DEF e
    <3> QED
      BY <1>1, <3>1 DEF RunType, Fetching
  <2>2. CASE FetchLog
    <3> DEFINE rows == Merged(run.entries,
                              ActivityLog(run.next - ReadMargin, Until + ReadMargin),
                              run.next, Until)
    <3>1. run.at = "log" /\ run' = [run EXCEPT !.at = "record", !.entries = {}, !.rows = rows]
      BY <2>2 DEF FetchLog
    <3> HIDE DEF rows
    <3> QED
      BY <1>1, <3>1 DEF RunType, Fetching
  <2>3. CASE LoadCompletions
    <3> DEFINE rows == {c \in history : c.at \in InWeeks /\ c.task \in mapped}
    <3>1. run.at = "load" /\ run' = [run EXCEPT !.at = "replace", !.rows = rows]
      BY <2>3 DEF LoadCompletions
    <3> HIDE DEF rows
    <3> QED
      BY <1>1, <3>1 DEF RunType, Fetching
  <2>4. CASE ReplaceMaterialised
    BY <1>1, <2>4 DEF ReplaceMaterialised, RunType, Fetching
  <2> QED
    BY <2>1, <2>2, <2>3, <2>4
<1>5. ClockInv'
  BY <1>2, <1>4 DEF CoverageInv, ClockInv
<1>6. FetchInv' /\ ReachInv' /\ GapsHaveACause'
  BY <1>2, <1>3, <1>4 DEF CoverageInv, FetchInv, ReachInv, GapsHaveACause
<1> QED
  BY <1>1, <1>5, <1>6 DEF CoverageInv

\* A run ends: there is no day unread that it did not leave a cause for.
LEMMA EndCovers ==
  ASSUME CoverageInv, TypeOK', run.at # "rest",
         UNCHANGED <<now, cursor, read>>, gap => gap',
         ~gap' => Unread = {},
         \/ run' = Resting
         \/ /\ run'.at = "load" /\ run'.to = run.to
            /\ run'.recorded = run.recorded
  PROVE  CoverageInv'
<1>1. Unread' = Unread
  BY DEF Unread
<1>2. run'.at \in {"rest", "load"} /\ (run'.at = "load" => run'.to = run.to)
  BY DEF Resting
<1>3. now \in Int /\ run.to \in Int /\ (cursor # Absent => cursor.through \in Int)
  BY CursorTyped, DaysAreInstants DEF CoverageInv, TypeOK
<1>4. ClockInv'
  BY <1>2, <1>3 DEF CoverageInv, ClockInv
<1>5. FetchInv' /\ ReachInv' /\ GapsHaveACause'
  BY <1>1, <1>2 DEF FetchInv, ReachInv, GapsHaveACause, Fetching
<1> QED
  BY <1>4, <1>5 DEF CoverageInv

\* A run that stops while it widens has torn a gap; else all that is claimed is read.
LEMMA StopCovers ==
  ASSUME CoverageInv, Fails \/ Dies
  PROVE  CoverageInv'
<1>1. TypeOK /\ TypeOK' /\ run \in RunType
  BY StopTyped DEF CoverageInv, TypeOK, RunType
<1>2. run.at # "rest" /\ UNCHANGED <<now, cursor, read>> /\ gap' = (gap \/ Tears)
  BY DEF Fails, Dies, tool, store
<1>3. ~gap' => Unread = {}
  <2> SUFFICES ASSUME ~gap, ~Tears PROVE Unread = {}
    BY <1>2
  <2>1. CASE run.at \in Fetching /\ run.widens
    BY <2>1 DEF CoverageInv, ReachInv, Tears
  <2> QED
    BY <2>1, ReadAtRest DEF CoverageInv
<1>4. \/ run' = Resting
      \/ /\ run'.at = "load" /\ run'.to = run.to
         /\ run'.recorded = run.recorded
  <2> DEFINE onward == [run EXCEPT !.at = "load", !.entries = {}, !.rows = {}]
  <2>1. onward.at = "load" /\ onward.to = run.to /\ onward.recorded = run.recorded
    BY <1>1 DEF RunType
  <2>2. run' = Resting \/ run' = onward
    BY DEF Fails, Dies
  <2> HIDE DEF onward
  <2> QED
    BY <2>1, <2>2
<1> QED
  BY <1>1, <1>2, <1>3, <1>4, EndCovers

\* A run's last step leaves what is claimed and what is read.
LEMMA AdhereCovers ==
  ASSUME CoverageInv, RecordAdherence
  PROVE  CoverageInv'
<1>1. TypeOK' /\ run.at = "adhere" /\ run' = Resting /\ UNCHANGED <<now, cursor, read, gap>>
  BY StepTyped DEF CoverageInv, Step, RecordAdherence, tool
<1>2. ~gap => Unread = {}
  BY <1>1, ReadAtRest DEF CoverageInv, Fetching
<1> QED
  BY <1>1, <1>2, EndCovers

\* Every step keeps the claim covered.
LEMMA CoverageStep ==
  ASSUME CoverageInv, [Next]_vars
  PROVE  CoverageInv'
<1>1. TypeOK /\ TypeOK' /\ now \in Int
  BY TypeStep, DaysAreInstants DEF CoverageInv, TypeOK
<1>2. CASE People \/ Tick \/ UNCHANGED vars
  <2>1. UNCHANGED <<cursor, run, read, gap>> /\ now' >= now
    BY <1>1, <1>2 DEF People, Complete, TakeBack, MapPlace, Tick, vars, tool, store
  <2> QED
    BY <1>1, <2>1, CoverageKept
<1> QED
  BY <1>2, StartCovers, RecordCovers, WorkCovers, AdhereCovers, StopCovers DEF Next, Step

\* The claim is covered at the start.
LEMMA CoverageInit ==
  ASSUME Init
  PROVE  CoverageInv
<1>1. Trailing \in Days /\ Trailing \in Nat
  BY SpansAssumption DEF Days
<1>2. TypeOK
  <2>1. made \subseteq [task : Tasks, at : Int, logged : Days, taken : BOOLEAN]
    <3>1. SUFFICES ASSUME NEW c \in made
                   PROVE  c \in [task : Tasks, at : Int, logged : Days, taken : BOOLEAN]
      OBVIOUS
    <3>2. PICK t \in Tasks, d \in 0 .. Trailing :
             c = [task |-> t, at |-> d, logged |-> d, taken |-> FALSE]
      BY DEF Init
    <3>3. d \in Int /\ d \in Days
      BY <1>1, DaysAreInstants DEF Days
    <3> QED
      BY <3>2, <3>3
  <2>2. run \in RunType
    BY RestingTyped DEF Init
  <2>3. /\ week \in [{WeekStart(d) : d \in Days} -> Nat]
        /\ adherence \in [Habits \X {PeriodStart(d) : d \in Days} -> Nat \cup {Absent}]
    BY DEF Init
  <2>4. /\ now \in Days /\ undone = {} /\ mapped \in SUBSET Tasks /\ history = {} /\ listed = {}
        /\ cursor = Absent /\ read = {} /\ gap = FALSE
    BY <1>1 DEF Init
  <2> QED
    BY <2>1, <2>2, <2>3, <2>4 DEF TypeOK, RunType
<1>3. Unread = {} /\ run = Resting /\ Resting.at = "rest"
  BY DEF Init, Unread, Resting
<1>4. ClockInv /\ FetchInv /\ ReachInv /\ GapsHaveACause
  BY <1>1, <1>3 DEF Init, ClockInv, FetchInv, ReachInv, GapsHaveACause, Fetching
<1> QED
  BY <1>2, <1>4 DEF CoverageInv

\* A backfill and a refresh keep their types: rows lie on days of the model, in
\* the list as in completion_history, and a week's count is a number.
THEOREM TypeCorrect == Spec => []TypeOK
<1>1. CoverageInv /\ [Next]_vars => CoverageInv'
  BY CoverageStep
<1>2. Init => CoverageInv
  BY CoverageInit
<1>3. CoverageInv => TypeOK
  BY DEF CoverageInv
<1> QED
  BY <1>1, <1>2, <1>3, PTL DEF Spec

\* The cursor claims no day that was not read, but while a run that widens it is
\* reading, or after such a run stopped half way or a backfill skipped days.
THEOREM GapsAreCaused == Spec => []GapsHaveACause
<1>1. CoverageInv /\ [Next]_vars => CoverageInv'
  BY CoverageStep
<1>2. Init => CoverageInv
  BY CoverageInit
<1>3. CoverageInv => GapsHaveACause
  BY DEF CoverageInv
<1> QED
  BY <1>1, <1>2, <1>3, PTL DEF Spec

-----------------------------------------------------------------------------
(* The rewrite. *)

\* What is outside the weeks of a run counts into none of them, and the reverse.
LEMMA InWeeksAreWhole ==
  ASSUME TypeOK, NEW d \in Int
  PROVE  d \in InWeeks <=> WeekStart(d) \in InWeeks
<1>1. run.from \in Int /\ run.to \in Int
  BY DaysAreInstants DEF TypeOK
<1> QED
  BY <1>1, WholeWeeks DEF InWeeks

\* What is stored has a day and a task.
LEMMA StoredAt ==
  ASSUME NEW c \in Stored
  PROVE  c.at \in Days /\ c.at \in Int /\ c.task \in Tasks
BY DaysAreInstants DEF Stored

\* Weeks outside the range rewritten have nothing of it.
LEMMA NoneOfOtherWeeks ==
  ASSUME TypeOK, NEW rows \in SUBSET Stored, \A c \in rows : c.at \in InWeeks,
         NEW d, d \notin InWeeks
  PROVE  WeeklyCapacity(rows, d) = 0
<1>1. {c \in rows : WeekStart(c.at) = d} = {}
  BY InWeeksAreWhole, StoredAt
<1> QED
  BY <1>1, FS_EmptySet DEF WeeklyCapacity

\* The list's count in a week after a rewrite.
LEMMA ReplacedCapacity ==
  ASSUME TypeOK, \A c \in run.rows : c.at \in InWeeks, NEW d
  PROVE  WeeklyCapacity(Replaced(run.rows), d)
           = (IF d \in InWeeks THEN WeeklyCapacity(run.rows, d) ELSE WeeklyCapacity(listed, d))
<1>1. listed \in SUBSET Stored /\ run.rows \in SUBSET Stored
  BY DEF TypeOK
<1>2. \A c \in Stored : c.at \in InWeeks <=> WeekStart(c.at) \in InWeeks
  BY InWeeksAreWhole, StoredAt
<1>3. CASE d \in InWeeks
  <2>1. {c \in Replaced(run.rows) : WeekStart(c.at) = d} = {c \in run.rows : WeekStart(c.at) = d}
    BY <1>1, <1>2, <1>3 DEF Replaced
  <2> QED
    BY <1>3, <2>1 DEF WeeklyCapacity
<1>4. CASE d \notin InWeeks
  <2>1. {c \in Replaced(run.rows) : WeekStart(c.at) = d} = {c \in listed : WeekStart(c.at) = d}
    BY <1>1, <1>2, <1>4 DEF Replaced
  <2> QED
    BY <1>4, <2>1 DEF WeeklyCapacity
<1> QED
  BY <1>3, <1>4

\* What a run has loaded lies in the weeks it rewrites.
LEMMA RowsInside ==
  ASSUME RewriteInv, run.at \in {"replace", "adhere"}
  PROVE  \A c \in run.rows : c.at \in InWeeks
BY DEF RewriteInv

\* Every step keeps the weeks and the list in agreement with each other.
LEMMA RewriteStep ==
  ASSUME TypeOK, ClockInv, RewriteInv, [Next]_vars
  PROVE  RewriteInv'
<1>0. run \in RunType
  BY DEF TypeOK, RunType
<1>1. CASE UNCHANGED <<history, week, listed, run>>
  <2>1. InWeeks' = InWeeks
    BY <1>1 DEF InWeeks
  <2> QED
    BY <1>1, <2>1 DEF RewriteInv, WeeklyCapacity
<1>2. CASE UNCHANGED <<week, listed>> /\ run'.at \notin {"replace", "adhere"}
  BY <1>2 DEF RewriteInv, WeeklyCapacity
<1>3. CASE LoadCompletions
  <2> DEFINE rows == {c \in history : c.at \in InWeeks /\ c.task \in mapped}
  <2>1. run' = [run EXCEPT !.at = "replace", !.rows = rows] /\ UNCHANGED <<history, week, listed>>
    BY <1>3 DEF LoadCompletions, store
  <2> HIDE DEF rows
  <2>2. run'.at = "replace" /\ run'.rows = rows /\ run'.from = run.from /\ run'.to = run.to
    BY <1>0, <2>1 DEF RunType
  <2>3. InWeeks' = InWeeks
    BY <2>2 DEF InWeeks
  <2>4. mapped \in SUBSET Tasks
    BY DEF TypeOK
  <2>5. run'.rows = {c \in history' : c.at \in InWeeks' /\ c.task \in mapped}
    BY <2>1, <2>2, <2>3 DEF rows
  <2> QED
    BY <2>1, <2>2, <2>4, <2>5 DEF RewriteInv, WeeklyCapacity
<1>4. CASE ReplaceMaterialised
  <2>1. /\ run.at = "replace"
        /\ run'.at = "adhere" /\ run'.rows = run.rows
        /\ run'.from = run.from /\ run'.to = run.to
        /\ history' = history /\ listed' = Replaced(run.rows)
    BY <1>0, <1>4 DEF ReplaceMaterialised, RunType
  <2>2. InWeeks' = InWeeks
    BY <2>1 DEF InWeeks
  <2>3. \A c \in run.rows : c.at \in InWeeks
    BY <2>1, RowsInside
  <2>4. PICK attributed \in SUBSET Tasks :
          run.rows = {c \in history : c.at \in InWeeks /\ c.task \in attributed}
    BY <2>1 DEF RewriteInv
  <2>5. run'.rows = {c \in history' : c.at \in InWeeks' /\ c.task \in attributed}
    BY <2>1, <2>2, <2>4
  <2>6. {c \in listed' : c.at \in InWeeks'} = run'.rows
    BY <2>1, <2>2, <2>3 DEF Replaced
  <2>7. ASSUME NEW d \in DOMAIN week'
        PROVE  week'[d] = WeeklyCapacity(Replaced(run.rows), d)
    <3>1. /\ d \in DOMAIN week
          /\ week'[d] = (IF d \in InWeeks THEN WeeklyCapacity(run.rows, d)
                         ELSE week[d] + WeeklyCapacity(run.rows, d))
      BY <1>4 DEF ReplaceMaterialised
    <3>2. week[d] = WeeklyCapacity(listed, d) /\ week[d] \in Nat
      BY <3>1 DEF RewriteInv, TypeOK
    <3>3. run.rows \in SUBSET Stored
      BY <1>0 DEF RunType
    <3>4. d \notin InWeeks => WeeklyCapacity(run.rows, d) = 0
      BY <2>3, <3>3, NoneOfOtherWeeks
    <3>5. week'[d] = (IF d \in InWeeks THEN WeeklyCapacity(run.rows, d)
                      ELSE WeeklyCapacity(listed, d))
      BY <3>1, <3>2, <3>4
    <3> QED
      BY <2>3, <3>5, ReplacedCapacity
  <2> QED
    BY <2>1, <2>5, <2>6, <2>7 DEF RewriteInv, WeeklyCapacity
<1>5. CASE People \/ Tick \/ UNCHANGED vars
  BY <1>1, <1>5 DEF People, Complete, TakeBack, MapPlace, Tick, vars, store
<1>6. CASE Start
  <2>1. PICK kind \in {"backfill", "refresh"}, next, claim, from, to \in Days :
           Begin(kind, next, claim, from, to)
    BY <1>6, StartFacts
  <2>2. run'.at \in {"history", "load"}
    BY <2>1, BeginTyped
  <2>3. UNCHANGED <<week, listed>>
    BY <2>1 DEF Begin, store
  <2> QED
    BY <1>2, <2>2, <2>3
<1>7. CASE FetchHistory \/ FetchLog \/ RecordSlice \/ RecordAdherence
  <2>1. CASE FetchHistory
    <3> DEFINE e == CompletionHistory(run.next - ReadMargin, Until + ReadMargin)
    <3>1. run' = [run EXCEPT !.at = "log", !.entries = e]
      BY <2>1 DEF FetchHistory
    <3> HIDE DEF e
    <3>2. run'.at = "log" /\ UNCHANGED <<week, listed>>
      BY <1>0, <2>1, <3>1 DEF RunType, FetchHistory, store
    <3> QED
      BY <1>2, <3>2
  <2>2. CASE FetchLog
    <3> DEFINE rows == Merged(run.entries,
                              ActivityLog(run.next - ReadMargin, Until + ReadMargin),
                              run.next, Until)
    <3>1. run' = [run EXCEPT !.at = "record", !.entries = {}, !.rows = rows]
      BY <2>2 DEF FetchLog
    <3> HIDE DEF rows
    <3>2. run'.at = "record" /\ UNCHANGED <<week, listed>>
      BY <1>0, <2>2, <3>1 DEF RunType, FetchLog, store
    <3> QED
      BY <1>2, <3>2
  <2>3. CASE RecordSlice
    <3> DEFINE stage == IF Until < run.to THEN "history" ELSE "load"
               end == Until
    <3>1. run' = [run EXCEPT !.at = stage, !.next = end, !.rows = {}, !.recorded = TRUE]
      BY <2>3 DEF RecordSlice
    <3>2. stage \in {"history", "load"}
      OBVIOUS
    <3> HIDE DEF stage, end
    <3>3. run'.at \in {"history", "load"} /\ UNCHANGED <<week, listed>>
      BY <1>0, <2>3, <3>1, <3>2 DEF RunType, RecordSlice
    <3> QED
      BY <1>2, <3>3
  <2>4. CASE RecordAdherence
    BY <1>2, <2>4 DEF RecordAdherence, Resting
  <2> QED
    BY <1>7, <2>1, <2>2, <2>3, <2>4
<1>8. CASE Fails \/ Dies
  <2> DEFINE onward == [run EXCEPT !.at = "load", !.entries = {}, !.rows = {}]
  <2>1. onward.at = "load" /\ Resting.at = "rest"
    BY <1>0 DEF RunType, Resting
  <2>2. run' = Resting \/ run' = onward
    BY <1>8 DEF Fails, Dies
  <2>3. UNCHANGED <<week, listed>>
    BY <1>8 DEF Fails, Dies, store
  <2> HIDE DEF onward
  <2> QED
    BY <1>2, <2>1, <2>2, <2>3
<1> QED
  BY <1>3, <1>4, <1>5, <1>6, <1>7, <1>8 DEF Next, Step

\* The invariant as a whole is kept by every step ...
LEMMA HistoryStep ==
  ASSUME HistoryInv, [Next]_vars
  PROVE  HistoryInv'
BY CoverageStep, RewriteStep DEF HistoryInv, CoverageInv

\* ... and holds at the start.
LEMMA HistoryInit ==
  ASSUME Init
  PROVE  HistoryInv
<1>1. run.at = "rest"
  BY DEF Init, Resting
<1>2. \A d : WeeklyCapacity({}, d) = 0
  <2>1. \A d : {c \in {} : WeekStart(c.at) = d} = {}
    OBVIOUS
  <2> QED
    BY <2>1, FS_EmptySet DEF WeeklyCapacity
<1>3. listed = {} /\ \A d \in DOMAIN week : week[d] = 0
  BY DEF Init
<1>4. RewriteInv
  BY <1>1, <1>2, <1>3 DEF RewriteInv
<1> QED
  BY <1>4, CoverageInit DEF HistoryInv

\* The whole invariant, of every number of tasks, days and runs.
THEOREM HistoryIsInvariant == Spec => []HistoryInv
<1>1. Init => HistoryInv
  BY HistoryInit
<1>2. HistoryInv /\ [Next]_vars => HistoryInv'
  BY HistoryStep
<1> QED
  BY <1>1, <1>2, PTL DEF Spec

\* A rewrite is never refused by a row of its own weeks or of others', and what
\* it leaves is whole: all of one task's completions in a week or none of them,
\* and totals that are the lengths of the lists.
LEMMA RewriteSafe ==
  ASSUME HistoryInv
  PROVE  RewriteIsWhole
<1>0. TypeOK /\ RewriteInv
  BY DEF HistoryInv, CoverageInv
<1>1. run.from \in Int /\ run.to \in Int
  BY <1>0, DaysAreInstants DEF TypeOK
<1>2. run.rows \in SUBSET Stored /\ history \in SUBSET Stored
  BY <1>0 DEF TypeOK
<1>3. ASSUME run.at = "replace" PROVE ~Collides
  <2>1. \A c \in run.rows : c.at \in InWeeks
    BY <1>0, <1>3, RowsInside
  <2>2. \A d : d \notin InWeeks => WeeklyCapacity(run.rows, d) = 0
    BY <1>0, <1>2, <2>1, NoneOfOtherWeeks
  <2> QED
    BY <2>1, <2>2 DEF Collides
<1>4. ASSUME run.at = "adhere", NEW c \in history, NEW d \in history,
             c.task = d.task, WeekStart(c.at) = WeekStart(d.at),
             WeekStart(c.at) \in {WeekStart(k) : k \in run.from .. Later(run.from, run.to - 1)}
      PROVE  c \in listed <=> d \in listed
  <2>1. PICK k \in run.from .. Later(run.from, run.to - 1) : WeekStart(c.at) = WeekStart(k)
    BY <1>4
  <2>2. k \in Int /\ k \in InWeeks
    BY <1>1, AskedIsInside DEF InWeeks, Later
  <2>3. c.at \in Int /\ d.at \in Int
    BY <1>2, StoredAt
  <2>4. c.at \in InWeeks /\ d.at \in InWeeks
    BY <1>0, <1>4, <2>1, <2>2, <2>3, InWeeksAreWhole
  <2>5. PICK attributed \in SUBSET Tasks :
          run.rows = {r \in history : r.at \in InWeeks /\ r.task \in attributed}
    BY <1>0, <1>4 DEF RewriteInv
  <2>6. {r \in listed : r.at \in InWeeks} = run.rows
    BY <1>0, <1>4 DEF RewriteInv
  <2> QED
    BY <1>4, <2>4, <2>5, <2>6
<1>5. \A d \in DOMAIN week : week[d] = WeeklyCapacity(listed, d)
  BY <1>0 DEF RewriteInv
<1> QED
  BY <1>3, <1>4, <1>5 DEF RewriteIsWhole

\* materialise's transaction meets no row it should have deleted and leaves every
\* week it touched whole, whatever the range it was asked for.
THEOREM RewritesAreWhole == Spec => []RewriteIsWhole
BY HistoryIsInvariant, RewriteSafe, PTL

\* What a run counts of a period inside its range is what the list holds.
LEMMA ReconstructsTheList ==
  ASSUME HistoryInv, run.at = "adhere", NEW ritual, NEW p \in Int, p >= run.from
  PROVE  ReconstructAdherence(ritual, p)
           = Earlier(Opportunities, Itemised(ritual, p, run.to))
<1> DEFINE S == {c \in run.rows : /\ c.task = ritual
                                  /\ c.at \in run.from .. run.to - 1
                                  /\ PeriodStart(c.at) = p}
           L == {c \in listed : c.task = ritual /\ PeriodStart(c.at) = p /\ c.at < run.to}
<1>0. TypeOK /\ RewriteInv
  BY DEF HistoryInv, CoverageInv
<1>1. run.from \in Int /\ run.to \in Int
  BY <1>0, DaysAreInstants DEF TypeOK
<1>2. run.rows \in SUBSET Stored /\ listed \in SUBSET Stored
  BY <1>0 DEF TypeOK
<1>3. {c \in listed : c.at \in InWeeks} = run.rows
  BY <1>0 DEF RewriteInv
<1>4. ASSUME NEW c \in L PROVE c \in S
  <2>1. c.at \in Int /\ c.at < run.to /\ PeriodStart(c.at) = p
    BY <1>2, StoredAt
  <2>2. p <= c.at
    BY <2>1, PeriodStartFacts
  <2>3. c.at \in run.from .. run.to - 1
    BY <1>1, <2>1, <2>2
  <2>4. c.at \in run.from .. Later(run.from, run.to - 1)
    BY <1>1, <2>3 DEF Later
  <2>5. c.at \in InWeeks
    BY <1>1, <2>4, AskedIsInside DEF InWeeks
  <2> QED
    BY <1>3, <2>1, <2>3, <2>5
<1>5. ASSUME NEW c \in S PROVE c \in L
  <2>1. c.at \in run.from .. run.to - 1 /\ c \in listed
    BY <1>3
  <2> QED
    BY <1>1, <2>1
<1>6. S = L
  BY <1>4, <1>5
<1>7. ReconstructAdherence(ritual, p) = Earlier(Opportunities, Cardinality(S))
  BY DEF ReconstructAdherence
<1>8. Itemised(ritual, p, run.to) = Cardinality(L)
  BY DEF Itemised
<1> QED
  BY <1>6, <1>7, <1>8

\* The adherence a run records for a period its range holds the beginning of is
\* what the list has of it.
THEOREM AdherenceIsTheLists == Spec => AdherenceMatchesTheList
<1> DEFINE A == \A row \in DOMAIN adherence :
                   adherence'[row] # adherence[row] /\ row[2] >= run.from
                      => adherence'[row]
                           = Earlier(Opportunities, Itemised(row[1], row[2], run.to))
<1>1. HistoryInv /\ [Next]_vars => [A]_vars
  <2> SUFFICES ASSUME HistoryInv, Next,
                      NEW row \in DOMAIN adherence,
                      adherence'[row] # adherence[row], row[2] >= run.from
               PROVE  adherence'[row]
                        = Earlier(Opportunities, Itemised(row[1], row[2], run.to))
    OBVIOUS
  <2>1. RecordAdherence
    BY DEF Next, Start, StartRefresh, StartBackfill, Begin, People, Complete, TakeBack, MapPlace,
           Tick, Step, FetchHistory, FetchLog, RecordSlice, LoadCompletions,
           ReplaceMaterialised, Fails, Dies, store
  <2>2. row[2] \in Int
    <3>1. adherence \in [Habits \X PeriodFirsts -> Nat \cup {Absent}]
      BY DEF HistoryInv, CoverageInv, TypeOK, PeriodFirsts
    <3>2. PICK d \in Days : row[2] = PeriodStart(d)
      BY <3>1 DEF PeriodFirsts
    <3> QED
      BY <3>2, DaysAreInstants, PeriodStartFacts
  <2>3. adherence'[row] = ReconstructAdherence(row[1], row[2]) /\ run.at = "adhere"
    BY <2>1 DEF RecordAdherence
  <2> QED
    BY <2>2, <2>3, ReconstructsTheList
<1> QED
  BY <1>1, HistoryIsInvariant, PTL DEF Spec, AdherenceMatchesTheList

-----------------------------------------------------------------------------
(* One completion is one row. A merge is two folds: that a fold over a finite *)
(* set is what its definition says comes first.                              *)

\* A set with 0 and the successor of each of its numbers has them all: one that
\* left n out would inject what it has up to n into the same without 0.
LEMMA Induction ==
  ASSUME NEW S, 0 \in S, \A k \in Nat : k \in S => k + 1 \in S
  PROVE  Nat \subseteq S
<1> SUFFICES ASSUME NEW n \in Nat, n \notin S PROVE FALSE
  OBVIOUS
<1> DEFINE T == S \cap (0 .. n)
<1>1. IsFiniteSet(T) /\ Cardinality(T) \in Nat
  <2>1. IsFiniteSet(0 .. n)
    BY FS_Interval
  <2>2. T \in SUBSET (0 .. n)
    OBVIOUS
  <2> QED
    BY <2>1, <2>2, FS_Subset, FS_CardinalityType
<1>2. 0 \in T
  OBVIOUS
<1>3. IsFiniteSet(T \ {0}) /\ Cardinality(T \ {0}) = Cardinality(T) - 1
  BY <1>1, <1>2, FS_RemoveElement
<1> DEFINE f == [k \in T |-> k + 1]
<1>4. f \in [T -> T \ {0}]
  <2> SUFFICES ASSUME NEW k \in T PROVE k + 1 \in T \ {0}
    OBVIOUS
  <2>1. k \in Nat /\ k <= n /\ k # n /\ k + 1 \in S
    OBVIOUS
  <2> QED
    BY <2>1
<1>5. \A x, y \in T : f[x] = f[y] => x = y
  OBVIOUS
<1> HIDE DEF T, f
<1>6. Cardinality(T \ {0}) < Cardinality(T)
  BY <1>1, <1>3
<1>7. \E x, y \in T : x # y /\ f[x] = f[y]
  BY <1>1, <1>3, <1>4, <1>6, FS_PigeonHole
<1> QED
  BY <1>5, <1>7

\* Of some of the numbers up to n, one is the greatest.
LEMMA Greatest ==
  ASSUME NEW n \in Nat, NEW S \in SUBSET (0 .. n), S # {}
  PROVE  \E x \in S : \A y \in S : y <= x
<1> DEFINE Has(T) == \E x \in T : \A y \in T : y <= x
           N == {m \in Nat : \A T \in SUBSET (0 .. m) : T # {} => Has(T)}
<1>1. 0 \in N
  <2> SUFFICES ASSUME NEW T \in SUBSET (0 .. 0), T # {} PROVE Has(T)
    OBVIOUS
  <2>1. PICK x \in T : TRUE
    OBVIOUS
  <2>2. x \in T /\ \A y \in T : y = 0 /\ x = 0
    OBVIOUS
  <2> QED
    BY <2>2
<1>2. ASSUME NEW m \in Nat, m \in N PROVE m + 1 \in N
  <2> SUFFICES ASSUME NEW T \in SUBSET (0 .. m + 1), T # {} PROVE Has(T)
    OBVIOUS
  <2>1. CASE m + 1 \in T
    BY <2>1
  <2>2. CASE m + 1 \notin T
    <3>1. T \in SUBSET (0 .. m)
      BY <2>2
    <3> QED
      BY <1>2, <3>1
  <2> QED
    BY <2>1, <2>2
<1> HIDE DEF N
<1>3. n \in N
  BY <1>1, <1>2, Induction
<1> QED
  BY <1>3 DEF N

\* What a fold over a set satisfies, if it picks from each set the element it takes last.
IsFold(g, D, base, f, pick) ==
    \A t \in SUBSET D : g[t] = IF t = {} THEN base ELSE f[<<g[t \ {pick[t]}], pick[t]>>]

\* What a fold over a finite set defines by recursion exists.
LEMMA FoldExists ==
  ASSUME NEW D, IsFiniteSet(D), NEW V, NEW base \in V, NEW f \in [V \X D -> V],
         NEW pick, \A t \in SUBSET D : t # {} => pick[t] \in t
  PROVE  \E g \in [SUBSET D -> V] : IsFold(g, D, base, f, pick)
<1> DEFINE Folds(g, t) == g[t] = IF t = {} THEN base ELSE f[<<g[t \ {pick[t]}], pick[t]>>]
           N == {n \in Nat : \E g \in [SUBSET D -> V] :
                                \A t \in SUBSET D : Cardinality(t) <= n => Folds(g, t)}
<1>1. \A t \in SUBSET D : IsFiniteSet(t) /\ Cardinality(t) \in Nat
  BY FS_Subset, FS_CardinalityType
<1>2. \A t \in SUBSET D : Cardinality(t) = 0 <=> t = {}
  BY <1>1, FS_EmptySet
<1>3. 0 \in N
  <2>1. PICK g : g = [t \in SUBSET D |-> base]
    OBVIOUS
  <2>2. g \in [SUBSET D -> V]
    BY <2>1
  <2>3. \A t \in SUBSET D : Cardinality(t) <= 0 => t = {}
    BY <1>1, <1>2
  <2> QED
    BY <2>1, <2>2, <2>3
<1>4. ASSUME NEW n \in Nat, n \in N PROVE n + 1 \in N
  <2>1. PICK g \in [SUBSET D -> V] : \A t \in SUBSET D : Cardinality(t) <= n => Folds(g, t)
    BY <1>4
  <2> DEFINE h == [t \in SUBSET D |-> IF Cardinality(t) <= n THEN g[t]
                                      ELSE f[<<g[t \ {pick[t]}], pick[t]>>]]
  <2>2. ASSUME NEW t \in SUBSET D, t # {}
        PROVE  /\ pick[t] \in D /\ t \ {pick[t]} \in SUBSET D
               /\ Cardinality(t \ {pick[t]}) = Cardinality(t) - 1
    <3>1. pick[t] \in t
      BY <2>2
    <3> QED
      BY <1>1, <3>1, FS_RemoveElement
  <2>3. h \in [SUBSET D -> V]
    <3> SUFFICES ASSUME NEW t \in SUBSET D PROVE h[t] \in V
      OBVIOUS
    <3>1. CASE Cardinality(t) <= n
      BY <3>1
    <3>2. CASE ~(Cardinality(t) <= n)
      <4>1. t # {}
        BY <1>2, <3>2
      <4>2. <<g[t \ {pick[t]}], pick[t]>> \in V \X D
        BY <2>2, <4>1
      <4> QED
        BY <3>2, <4>2
    <3> QED
      BY <3>1, <3>2
  <2>4. ASSUME NEW t \in SUBSET D, Cardinality(t) <= n + 1 PROVE Folds(h, t)
    <3>1. CASE t = {}
      BY <1>2, <2>1, <3>1
    <3>2. CASE t # {}
      <4>1. h[t \ {pick[t]}] = g[t \ {pick[t]}]
        BY <1>1, <2>2, <2>4, <3>2
      <4>2. h[t] = f[<<g[t \ {pick[t]}], pick[t]>>]
        BY <2>1, <3>2
      <4> QED
        BY <3>2, <4>1, <4>2
    <3> QED
      BY <3>1, <3>2
  <2> HIDE DEF h, Folds
  <2> QED
    BY <2>3, <2>4
<1> HIDE DEF N
<1>5. Cardinality(D) \in N
  <2>1. Cardinality(D) \in Nat
    BY <1>1
  <2> QED
    BY <1>3, <1>4, <2>1, Induction
<1>6. PICK g \in [SUBSET D -> V] : \A t \in SUBSET D : Cardinality(t) <= Cardinality(D) => Folds(g, t)
  BY <1>5 DEF N
<1>7. \A t \in SUBSET D : Cardinality(t) <= Cardinality(D)
  BY FS_Subset
<1> QED
  BY <1>6, <1>7 DEF IsFold

\* Reading the log, an event at a time, the latest last.
Reads(g, latest, E) ==
    /\ g[{}] = {}
    /\ \A t \in SUBSET E : t # {} =>
          /\ latest[t] \in t /\ \A d \in t : d.at <= latest[t].at
          /\ g[t] = IF latest[t].completed THEN g[t \ {latest[t]}] \cup {latest[t].at}
                    ELSE {at \in g[t \ {latest[t]}] :
                             \E later \in g[t \ {latest[t]}] : later > at}

LEMMA StandingIsRead ==
  ASSUME NEW E, IsFiniteSet(E), \A t \in SUBSET E : t # {} => \E e \in t : \A d \in t : d.at <= e.at
  PROVE  \E g, latest : Reads(g, latest, E) /\ StandingInLog(E) = g[E]
<1> DEFINE V == SUBSET {e.at : e \in E}
           Latest(t) == CHOOSE e \in t : \A d \in t : d.at <= e.at
           Judge(e, open) == IF e.completed THEN open \cup {e.at}
                             ELSE {at \in open : \E later \in open : later > at}
           Eq(iter) == iter = [t \in SUBSET E |->
               IF t = {} THEN {} ELSE Judge(Latest(t), iter[t \ {Latest(t)}])]
           pick == [t \in SUBSET E |-> Latest(t)]
           f == [q \in V \X E |-> Judge(q[2], q[1])]
<1>1. ASSUME NEW t \in SUBSET E, t # {}
      PROVE  pick[t] = Latest(t) /\ pick[t] \in t /\ \A d \in t : d.at <= pick[t].at
  <2>1. \E e \in t : \A d \in t : d.at <= e.at
    BY <1>1
  <2> QED
    BY <2>1, Zenon
<1>2. f \in [V \X E -> V] /\ {} \in V
  <2> SUFFICES ASSUME NEW q \in V \X E PROVE Judge(q[2], q[1]) \in V
    OBVIOUS
  <2> QED
    OBVIOUS
<1>3. \A s \in V, e \in E : f[<<s, e>>] = Judge(e, s)
  OBVIOUS
<1> HIDE DEF V, f, pick, Judge, Latest
<1>4. PICK g \in [SUBSET E -> V] : IsFold(g, E, {}, f, pick)
  BY <1>1, <1>2, FoldExists
<1>5. ASSUME NEW t \in SUBSET E, t # {}
      PROVE  g[t] = Judge(pick[t], g[t \ {pick[t]}])
  <2>1. g[t \ {pick[t]}] \in V /\ pick[t] \in E
    BY <1>1, <1>5
  <2> QED
    BY <1>3, <1>4, <1>5, <2>1 DEF IsFold
<1>6. g[{}] = {}
  BY <1>4 DEF IsFold
<1>7. Eq(g)
  <2>1. \A t \in SUBSET E : g[t] = IF t = {} THEN {} ELSE Judge(Latest(t), g[t \ {Latest(t)}])
    BY <1>1, <1>5, <1>6
  <2> QED
    BY <2>1
<1>8. PICK iter : iter = CHOOSE v : Eq(v)
  OBVIOUS
<1>9. Eq(iter)
  <2> HIDE DEF Eq
  <2> QED
    BY <1>7, <1>8, Zenon
<1>a. StandingInLog(E) = iter[E]
  BY <1>8, Zenon DEF StandingInLog, MapThenFoldSet, Judge, Latest
<1>b. iter[{}] = {} /\ \A t \in SUBSET E : t # {} =>
                          iter[t] = Judge(pick[t], iter[t \ {pick[t]}])
  BY <1>1, <1>9
<1> HIDE DEF Eq
<1>c. Reads(iter, pick, E)
  BY <1>1, <1>b DEF Reads, Judge
<1> QED
  BY <1>a, <1>c

\* Of no completion nothing is left, and one is left unless an entry is near it.
LEMMA UnpairedOfNone ==
  ASSUME NEW entries
  PROVE  Unpaired(entries, {}) = {}
<1> DEFINE base == [entries |-> entries, alone |-> {}]
           Pair(at, out) ==
              LET reach == {e \in out.entries : e <= at + ReadMargin}
                  near == {e \in reach : e >= at - ReadMargin}
              IN  IF near # {}
                  THEN [out EXCEPT !.entries = reach \ {Max(near)}]
                  ELSE [entries |-> reach, alone |-> out.alone \cup {at}]
           Eq(iter) == iter = [s \in SUBSET {} |->
               IF s = {} THEN base ELSE Pair(Min(s), iter[s \ {Min(s)}])]
<1>1. PICK g : g = [s \in SUBSET {} |-> base]
  OBVIOUS
<1>2. Eq(g)
  <2>1. \A s \in SUBSET {} : s = {}
    OBVIOUS
  <2> HIDE DEF base, Pair
  <2> QED
    BY <1>1, <2>1
<1>3. PICK iter : iter = CHOOSE v : Eq(v)
  OBVIOUS
<1>4. Eq(iter)
  <2> HIDE DEF Eq
  <2> QED
    BY <1>2, <1>3, Zenon
<1>5. Unpaired(entries, {}) = iter[{}].alone
  BY <1>3, Zenon DEF Unpaired, MapThenFoldSet
<1> HIDE DEF Pair
<1> QED
  BY <1>4, <1>5

LEMMA UnpairedOfOne ==
  ASSUME NEW entries, NEW x \in Int
  PROVE  /\ Unpaired(entries, {x}) \subseteq {x}
         /\ (\E e \in entries : e <= x + ReadMargin /\ e >= x - ReadMargin)
               => Unpaired(entries, {x}) = {}
<1> DEFINE base == [entries |-> entries, alone |-> {}]
           Pair(at, out) ==
              LET reach == {e \in out.entries : e <= at + ReadMargin}
                  near == {e \in reach : e >= at - ReadMargin}
              IN  IF near # {}
                  THEN [out EXCEPT !.entries = reach \ {Max(near)}]
                  ELSE [entries |-> reach, alone |-> out.alone \cup {at}]
           Eq(iter) == iter = [s \in SUBSET {x} |->
               IF s = {} THEN base ELSE Pair(Min(s), iter[s \ {Min(s)}])]
<1>1. Min({x}) = x
  BY DEF Min
<1>2. \A s \in SUBSET {x} : s = {} \/ s = {x}
  OBVIOUS
<1>3. PICK g : g = [s \in SUBSET {x} |-> IF s = {} THEN base ELSE Pair(x, base)]
  OBVIOUS
<1>4. Eq(g)
  <2> HIDE DEF base, Pair
  <2>1. g[{}] = base /\ g[{x}] = Pair(x, base) /\ {x} \ {x} = {}
    BY <1>3
  <2>2. \A s \in SUBSET {x} : g[s] = IF s = {} THEN base ELSE Pair(Min(s), g[s \ {Min(s)}])
    BY <1>1, <1>2, <2>1
  <2> QED
    BY <1>3, <2>2
<1>5. PICK iter : iter = CHOOSE v : Eq(v)
  OBVIOUS
<1>6. Eq(iter)
  <2> HIDE DEF Eq
  <2> QED
    BY <1>4, <1>5, Zenon
<1>7. Unpaired(entries, {x}) = iter[{x}].alone
  BY <1>5, Zenon DEF Unpaired, MapThenFoldSet
<1>8. iter[{x}] = Pair(x, base)
  <2> HIDE DEF base, Pair
  <2>1. {} \in SUBSET {x} /\ {x} \in SUBSET {x} /\ {x} \ {x} = {} /\ {x} # {}
    OBVIOUS
  <2>2. iter[{}] = base
    BY <1>6, <2>1
  <2>3. iter[{x}] = Pair(Min({x}), iter[{x} \ {Min({x})}])
    BY <1>6, <2>1
  <2> QED
    BY <1>1, <2>1, <2>2, <2>3
<1> HIDE DEF Eq
<1> DEFINE reach == {e \in entries : e <= x + ReadMargin}
           near == {e \in reach : e >= x - ReadMargin}
<1>9. iter[{x}].alone = IF near # {} THEN {} ELSE {x}
  <2>1. base.entries = entries /\ base.alone = {}
    OBVIOUS
  <2>2. CASE near # {}
    <3>1. Pair(x, base) = [base EXCEPT !.entries = reach \ {Max(near)}]
      BY <2>1, <2>2
    <3> HIDE DEF near, reach, Pair
    <3> QED
      BY <1>8, <2>2, <3>1
  <2>3. CASE near = {}
    <3>1. Pair(x, base) = [entries |-> reach, alone |-> {x}]
      BY <2>1, <2>3
    <3> HIDE DEF near, reach, Pair, base
    <3> QED
      BY <1>8, <2>3, <3>1
  <2> QED
    BY <2>2, <2>3
<1> HIDE DEF Pair, base
<1>a. Unpaired(entries, {x}) = IF near # {} THEN {} ELSE {x}
  BY <1>7, <1>9
<1>b. (\E e \in entries : e <= x + ReadMargin /\ e >= x - ReadMargin) => near # {}
  OBVIOUS
<1> HIDE DEF near, reach
<1> QED
  BY <1>a, <1>b

-----------------------------------------------------------------------------
(* The two records. *)

\* A one-off task completed before it was completed again was taken back in between.
TakenBefore(c, d) ==
    \E u \in undone : u.task = c.task /\ c.logged < u.at /\ u.at < d.at

\* The tool's two records of a completion are close, and of a task that does not
\* recur they alternate with its un-completions.
RecordsInv ==
    /\ \A c \in made :
          /\ c.at <= c.logged /\ c.logged - c.at <= Skew
          /\ c.task \in Habits => c.at = c.logged
          /\ c.taken /\ c.task \in OneOffs =>
                \E u \in undone : u.task = c.task /\ c.logged < u.at
    /\ \A c, d \in made :
          c.task = d.task /\ c.task \in OneOffs /\ c # d => TakenBefore(c, d) \/ TakenBefore(d, c)

\* What a run read in the completion history of a window and its margins: of
\* what was completed before the run began, all that still stands.
EntriesInv ==
    run.at = "log" =>
       /\ \A e \in run.entries : \E c \in made : c.task = e.task /\ c.at = e.at
       /\ \A c \in made :
             /\ c.task \in OneOffs /\ ~c.taken /\ c.logged <= run.to
             /\ run.next - ReadMargin <= c.at /\ c.at <= Until + ReadMargin
             => [task |-> c.task, at |-> c.at] \in run.entries

\* What is stored, or about to be, of a task that does not recur was completed;
\* and of a late report that stands the log's instant is not among it.
RowsInv ==
    /\ \A row \in history \cup run.rows :
          row.task \in OneOffs =>
             \E c \in made : c.task = row.task /\ row.at \in {c.at, c.logged}
    /\ \A c \in made :
          c.at # c.logged /\ ~c.taken
             => [task |-> c.task, at |-> c.logged] \notin history \cup run.rows

OnceInv == RecordsInv /\ EntriesInv /\ RowsInv

\* Of the log of a task that does not recur, read from one day to another, at
\* most one completion stands.
LEMMA OneStands ==
  ASSUME TypeOK, RecordsInv, NEW t \in OneOffs, NEW from \in Int, NEW to \in Int
  PROVE  LET E == {e \in ActivityLog(from, to) : e.task = t}
         IN  \/ StandingInLog(E) = {}
             \/ \E c \in made : c.task = t /\ StandingInLog(E) = {c.logged}
<1> DEFINE E == {e \in ActivityLog(from, to) : e.task = t}
           Happened == [task : {t}, at : Days, completed : BOOLEAN]
<1>1. \A e \in E : /\ e \in Happened
                   /\ e.completed => \E c \in made : c.task = t /\ c.logged = e.at
                   /\ e.at \in from .. to
  <2>1. /\ \A c \in made : c.logged \in Days
        /\ \A u \in undone : u.at \in Days
    BY DEF TypeOK
  <2>2. ASSUME NEW e \in E
        PROVE  /\ e.task = t
               /\ \/ \E c \in made : /\ c.logged \in from .. to
                                      /\ e = [task |-> c.task, at |-> c.logged, completed |-> TRUE]
                  \/ \E u \in undone : /\ u.at \in from .. to
                                        /\ e = [task |-> u.task, at |-> u.at, completed |-> FALSE]
    BY DEF ActivityLog
  <2> HIDE DEF E
  <2>3. ASSUME NEW e \in E PROVE e.at \in from .. to /\ e \in Happened
    <3>1. ASSUME NEW at \in Days, at \in from .. to, NEW done \in BOOLEAN,
                 e = [task |-> t, at |-> at, completed |-> done]
          PROVE  e.at \in from .. to /\ e \in Happened
      BY <3>1
    <3> HIDE DEF Happened
    <3>2. ASSUME NEW c \in made, c.logged \in from .. to,
                 e = [task |-> c.task, at |-> c.logged, completed |-> TRUE]
          PROVE  e.at \in from .. to /\ e \in Happened
      <4>1. e.task = t /\ e.task = c.task
        BY <2>2, <3>2
      <4> QED
        BY <2>1, <3>1, <3>2, <4>1
    <3>3. ASSUME NEW u \in undone, u.at \in from .. to,
                 e = [task |-> u.task, at |-> u.at, completed |-> FALSE]
          PROVE  e.at \in from .. to /\ e \in Happened
      <4>1. e.task = t /\ e.task = u.task
        BY <2>2, <3>3
      <4> QED
        BY <2>1, <3>1, <3>3, <4>1
    <3> QED
      BY <2>2, <3>2, <3>3
  <2>4. \A e \in E : e.completed => \E c \in made : c.task = t /\ c.logged = e.at
    BY <2>2
  <2> QED
    BY <2>3, <2>4
<1>2. \A u \in undone : u.task = t /\ u.at \in from .. to =>
         \E e \in E : ~e.completed /\ e.at = u.at
  <2> SUFFICES ASSUME NEW u \in undone, u.task = t, u.at \in from .. to
               PROVE  \E e \in E : ~e.completed /\ e.at = u.at
    OBVIOUS
  <2>1. PICK e : e = [task |-> u.task, at |-> u.at, completed |-> FALSE]
    OBVIOUS
  <2>2. e \in ActivityLog(from, to)
    BY <2>1 DEF ActivityLog
  <2>3. e.task = t /\ ~e.completed /\ e.at = u.at
    BY <2>1
  <2> QED
    BY <2>2, <2>3
<1>3. IsFiniteSet(E)
  <2>1. IsFiniteSet(Days) /\ IsFiniteSet(BOOLEAN)
    <3>1. IsFiniteSet(Days)
      BY DaysAreInstants, FS_Interval DEF Days
    <3>2. BOOLEAN = {TRUE} \cup {FALSE}
      OBVIOUS
    <3>3. IsFiniteSet({TRUE}) /\ IsFiniteSet({FALSE})
      BY FS_Singleton
    <3>4. IsFiniteSet({TRUE} \cup {FALSE})
      BY <3>3, FS_Union
    <3> QED
      BY <3>1, <3>2, <3>4
  <2>2. IsFiniteSet(Days \X BOOLEAN)
    BY <2>1, FS_Product
  <2> DEFINE f == [p \in Days \X BOOLEAN |-> [task |-> t, at |-> p[1], completed |-> p[2]]]
  <2>3. f \in Surjection(Days \X BOOLEAN, Happened)
    <3>1. f \in [Days \X BOOLEAN -> Happened]
      OBVIOUS
    <3>2. ASSUME NEW e \in Happened PROVE \E p \in Days \X BOOLEAN : f[p] = e
      <4>1. e.at \in Days /\ e.completed \in BOOLEAN
            /\ e = [task |-> t, at |-> e.at, completed |-> e.completed]
        OBVIOUS
      <4>2. f[<<e.at, e.completed>>] = e
        BY <4>1
      <4> QED
        BY <4>1, <4>2
    <3> QED
      BY <3>1, <3>2 DEF Surjection
  <2>4. IsFiniteSet(Happened)
    BY <2>2, <2>3, FS_Surjection
  <2>5. E \in SUBSET Happened
    BY <1>1
  <2> HIDE DEF E, Happened
  <2> QED
    BY <2>4, <2>5, FS_Subset
<1>4. \A s \in SUBSET E : s # {} => \E e \in s : \A d \in s : d.at <= e.at
  <2> SUFFICES ASSUME NEW s \in SUBSET E, s # {} PROVE \E e \in s : \A d \in s : d.at <= e.at
    OBVIOUS
  <2> DEFINE T == {e.at : e \in s}
  <2>1. T \in SUBSET (0 .. LastDay) /\ T # {}
    <3>1. \A e \in s : e.at \in 0 .. LastDay
      BY <1>1 DEF Days
    <3> HIDE DEF E
    <3> QED
      BY <3>1
  <2>2. \E x \in T : \A y \in T : y <= x
    <3> HIDE DEF T
    <3> QED
      BY <2>1, DaysAreInstants, Greatest
  <2> QED
    BY <2>2
\* Two completions are of different instants, and an un-completion is between.
<1>5. ASSUME NEW e \in E, NEW d \in E, e.completed, d.completed, e # d, d.at <= e.at
      PROVE  \E u \in E : ~u.completed /\ d.at < u.at /\ u.at < e.at
  <2>1. PICK a \in made, b \in made :
          a.task = t /\ b.task = t /\ a.logged = d.at /\ b.logged = e.at
    BY <1>1, <1>5
  <2>2. e \in Happened /\ d \in Happened
    BY <1>1
  <2>3. e.at # d.at
    BY <1>5, <2>2
  <2>4. /\ a # b
        /\ a.at \in Int /\ a.logged \in Days /\ b.at \in Int /\ b.logged \in Days
        /\ a.at <= a.logged /\ b.at <= b.logged
    BY <2>1, <2>3 DEF TypeOK, RecordsInv
  <2>5. PICK u \in undone : u.task = t /\ \/ a.logged < u.at /\ u.at < b.at
                                          \/ b.logged < u.at /\ u.at < a.at
    BY <2>1, <2>4 DEF RecordsInv, TakenBefore
  <2>6. u.at \in Int /\ \A k \in Days : k \in Int
    BY DaysAreInstants DEF TypeOK, Days
  <2>7. a.logged < u.at /\ u.at < b.at
    BY <1>5, <2>1, <2>4, <2>5, <2>6
  <2>8. d.at < u.at /\ u.at < e.at
    BY <2>1, <2>4, <2>6, <2>7
  <2>9. u.at \in from .. to
    BY <1>1, <2>6, <2>8
  <2> QED
    BY <1>2, <2>5, <2>8, <2>9
<1>6. PICK g, latest : Reads(g, latest, E) /\ StandingInLog(E) = g[E]
  <2> HIDE DEF E
  <2> QED
    BY <1>3, <1>4, StandingIsRead
<1>7. \A e \in E : e.at \in Int /\ e.completed \in BOOLEAN
  BY <1>1, DaysAreInstants DEF Days
<1>8. \A e \in E : e.completed => \E c \in made : c.task = t /\ c.logged = e.at
  BY <1>1
<1> HIDE DEF E, Happened
<1> DEFINE Early(s) == \A e \in s, d \in E : d.at < e.at => d \in s
           One(s) == \/ g[s] = {}
                     \/ \E e \in s : /\ e.completed /\ g[s] = {e.at}
                                     /\ \A d \in s : ~d.completed => d.at <= e.at
           N == {n \in Nat : \A s \in SUBSET E : Cardinality(s) = n /\ Early(s) => One(s)}
<1>9. \A s \in SUBSET E : /\ IsFiniteSet(s) /\ Cardinality(s) \in Nat
                          /\ Cardinality(s) = 0 <=> s = {}
  BY <1>3, FS_Subset, FS_CardinalityType, FS_EmptySet
<1>a. 0 \in N
  BY <1>6, <1>9 DEF Reads
<1>b. ASSUME NEW n \in Nat, n \in N PROVE n + 1 \in N
  <2> SUFFICES ASSUME NEW s \in SUBSET E, Cardinality(s) = n + 1, Early(s) PROVE One(s)
    OBVIOUS
  <2>1. s # {}
    BY <1>9
  <2>2. PICK e \in s : /\ \A d \in s : d.at <= e.at
                       /\ g[s] = IF e.completed THEN g[s \ {e}] \cup {e.at}
                                 ELSE {at \in g[s \ {e}] : \E later \in g[s \ {e}] : later > at}
    BY <1>6, <2>1 DEF Reads
  <2>3. PICK r : r = s \ {e}
    OBVIOUS
  <2>4. r \in SUBSET E /\ Cardinality(r) = n
    <3>1. Cardinality(s \ {e}) = Cardinality(s) - 1
      BY <1>9, FS_RemoveElement
    <3> QED
      BY <2>3, <3>1
  <2>5. Early(r)
    BY <1>7, <2>2, <2>3
  <2>6. One(r)
    BY <1>b, <2>4, <2>5
  <2>7. CASE ~e.completed
    <3>1. \A x \in g[r], y \in g[r] : ~(y > x)
      BY <1>7, <2>4, <2>6
    <3>2. g[s] = {at \in g[r] : \E later \in g[r] : later > at}
      BY <2>2, <2>3, <2>7
    <3>3. g[s] = {}
      BY <3>1, <3>2
    <3> QED
      BY <3>3
  <2>8. CASE e.completed
    <3>1. g[r] = {}
      <4> SUFFICES ASSUME NEW d \in r, d.completed, \A x \in r : ~x.completed => x.at <= d.at
                   PROVE FALSE
        BY <2>6
      <4>1. d \in E /\ d # e /\ d.at <= e.at
        BY <2>2, <2>3
      <4>2. PICK u \in E : ~u.completed /\ d.at < u.at /\ u.at < e.at
        BY <1>5, <2>8, <4>1
      <4>3. u \in r
        BY <2>3, <2>8, <4>2
      <4> QED
        BY <1>7, <4>1, <4>2, <4>3
    <3>2. g[s] = {e.at}
      BY <2>2, <2>3, <2>8, <3>1
    <3> QED
      BY <2>2, <2>8, <3>2
  <2> QED
    BY <2>7, <2>8
<1>c. One(E)
  <2>1. Cardinality(E) \in N
    <3> HIDE DEF N
    <3> QED
      BY <1>9, <1>a, <1>b, Induction
  <2> QED
    BY <2>1
<1> QED
  BY <1>6, <1>8, <1>c DEF E

\* People keep the records as they are: a new completion follows all there was,
\* and what is taken back is taken back after it.
LEMMA CompletionKeeps ==
  ASSUME TypeOK, OnceInv, NEW t \in Tasks, NEW at \in Int, Complete(t, at)
  PROVE  OnceInv'
<1> DEFINE new == [task |-> t, at |-> at, logged |-> now, taken |-> FALSE]
<1>0. UNCHANGED <<undone, history, run>> /\ made' = made \cup {new} /\ Until' = Until
  BY DEF Complete, store, Until
<1>1. /\ now \in Int /\ at <= now /\ now - at <= Skew /\ Skew \in Nat
      /\ t \in OneOffs => Standing(t) = {}
      /\ t \in Habits => at = now
      /\ Follows(t, at)
  BY SpansAssumption, DaysAreInstants DEF Complete, TypeOK
<1>2. /\ new.task = t /\ new.at = at /\ new.logged = now /\ ~new.taken
      /\ \A c \in made : c.task \in Tasks /\ c.at \in Int /\ c.logged \in Int /\ c.at <= c.logged
      /\ \A u \in undone : u.at \in Int
  BY DaysAreInstants DEF TypeOK, OnceInv, RecordsInv
<1> HIDE DEF new
<1>3. RecordsInv'
  <2>1. ASSUME NEW c \in made, c.task = t, t \in OneOffs
        PROVE  TakenBefore(c, new)
    <3>1. c.taken
      BY <1>1, <2>1 DEF Standing
    <3>2. PICK u \in undone : u.task = c.task /\ c.logged < u.at
      BY <2>1, <3>1 DEF OnceInv, RecordsInv
    <3> QED
      BY <1>1, <1>2, <2>1, <3>2 DEF TakenBefore, Follows
  <2>2. \A c, d \in made' : c.task = d.task /\ c.task \in OneOffs /\ c # d =>
           TakenBefore(c, d) \/ TakenBefore(d, c)
    BY <1>0, <1>2, <2>1 DEF OnceInv, RecordsInv
  <2>3. \A c \in made' :
           /\ c.at <= c.logged /\ c.logged - c.at <= Skew
           /\ c.task \in Habits => c.at = c.logged
           /\ c.taken /\ c.task \in OneOffs =>
                 \E u \in undone : u.task = c.task /\ c.logged < u.at
    BY <1>0, <1>1, <1>2 DEF OnceInv, RecordsInv
  <2> QED
    BY <1>0, <2>2, <2>3 DEF RecordsInv, TakenBefore
<1>4. EntriesInv'
  <2> SUFFICES ASSUME run.at = "log" PROVE EntriesInv'
    BY <1>0 DEF EntriesInv
  <2>1. now > run.to /\ run.to \in Int
    BY DaysAreInstants DEF Complete, Happens, TypeOK
  <2> QED
    BY <1>0, <1>1, <1>2, <2>1 DEF OnceInv, EntriesInv
<1>5. RowsInv'
  <2>1. \A row \in history \cup run.rows :
           row.task \in OneOffs =>
              \E c \in made' : c.task = row.task /\ row.at \in {c.at, c.logged}
    BY <1>0 DEF OnceInv, RowsInv
  <2>2. ASSUME new.at # new.logged
        PROVE  [task |-> t, at |-> now] \notin history \cup run.rows
    <3>1. t \in OneOffs
      BY <1>1, <1>2, <2>2 DEF Tasks
    <3>2. SUFFICES ASSUME [task |-> t, at |-> now] \in history \cup run.rows PROVE FALSE
      OBVIOUS
    <3>3. PICK c \in made : c.task = t /\ now \in {c.at, c.logged}
      BY <3>1, <3>2 DEF OnceInv, RowsInv
    <3> QED
      BY <1>1, <1>2, <3>3 DEF Follows
  <2> QED
    BY <1>0, <1>2, <2>1, <2>2 DEF OnceInv, RowsInv
<1> QED
  BY <1>3, <1>4, <1>5 DEF OnceInv

\* An un-completion marks the one completion that stands and comes after it.
LEMMA TakingBackKeeps ==
  ASSUME TypeOK, OnceInv, NEW t \in Tasks, TakeBack(t)
  PROVE  OnceInv'
<1>0. UNCHANGED <<now, history, run>> /\ Until' = Until /\ now \in Int
      /\ undone' = undone \cup {[task |-> t, at |-> now]} /\ Follows(t, now)
  BY DaysAreInstants DEF TakeBack, store, Until, TypeOK
<1>o. PICK old \in made : /\ old.task = t /\ ~old.taken
                          /\ made' = (made \ {old}) \cup {[old EXCEPT !.taken = TRUE]}
  BY DEF TakeBack, Standing
<1>n. PICK new : new = [old EXCEPT !.taken = TRUE]
  OBVIOUS
<1>1. /\ old.task = t /\ ~old.taken /\ new = [old EXCEPT !.taken = TRUE]
      /\ made' = (made \ {old}) \cup {new}
  BY <1>o, <1>n
<1>2. /\ new.task = t /\ new.at = old.at /\ new.logged = old.logged /\ new.taken
      /\ \A c \in made : c.at \in Int /\ c.logged \in Int
      /\ \A u \in undone : u.at \in Int
  BY <1>1, DaysAreInstants DEF TypeOK
\* What each completion was before.
<1>3. ASSUME NEW c \in made'
      PROVE  \E b \in made : /\ b.task = c.task /\ b.at = c.at /\ b.logged = c.logged
                             /\ c.taken \/ ~b.taken
                             /\ IF c = new THEN b = old ELSE b = c
  BY <1>1, <1>2, <1>3
<1>s. \A c \in made' : c # new => c # old
  BY <1>1
<1>4. \A b \in made : \E c \in made' : b.task = c.task /\ b.at = c.at /\ b.logged = c.logged
  BY <1>1, <1>2
<1>5. RecordsInv'
  <2>1. ASSUME NEW c \in made'
        PROVE  /\ c.at <= c.logged /\ c.logged - c.at <= Skew
               /\ c.task \in Habits => c.at = c.logged
               /\ c.taken /\ c.task \in OneOffs =>
                     \E u \in undone' : u.task = c.task /\ c.logged < u.at
    <3>1. PICK b \in made : /\ b.task = c.task /\ b.at = c.at /\ b.logged = c.logged
                            /\ IF c = new THEN b = old ELSE b = c
      BY <1>3
    <3>2. CASE c = new
      <4>1. PICK u \in undone' : u.task = t /\ u.at = now
        <5>1. PICK u : u = [task |-> t, at |-> now]
          OBVIOUS
        <5>2. u \in undone'
          BY <1>0, <5>1
        <5>3. u.task = t /\ u.at = now
          BY <5>1
        <5> QED
          BY <5>2, <5>3
      <4>2. old.logged < now
        BY <1>0, <1>1 DEF Follows
      <4>3. /\ old.at <= old.logged /\ old.logged - old.at <= Skew
            /\ old.task = t
            /\ old.task \in Habits => old.at = old.logged
        BY <1>1 DEF OnceInv, RecordsInv
      <4>4. c.task = t /\ c.at = old.at /\ c.logged = old.logged
        BY <3>1, <3>2, <4>3
      <4>5. u.task = c.task /\ c.logged < u.at
        BY <4>1, <4>2, <4>4
      <4>6. c.at <= c.logged /\ c.logged - c.at <= Skew /\ (c.task \in Habits => c.at = c.logged)
        BY <4>3, <4>4
      <4> QED
        BY <4>1, <4>5, <4>6
    <3>3. CASE c # new
      BY <1>0, <3>1, <3>3 DEF OnceInv, RecordsInv
    <3> QED
      BY <3>2, <3>3
  <2>2. ASSUME NEW c \in made', NEW d \in made', c.task = d.task, c.task \in OneOffs, c # d
        PROVE  (TakenBefore(c, d) \/ TakenBefore(d, c))'
    <3>1. PICK b \in made : /\ b.task = c.task /\ b.at = c.at /\ b.logged = c.logged
                            /\ IF c = new THEN b = old ELSE b = c
      BY <1>3
    <3>2. PICK e \in made : /\ e.task = d.task /\ e.at = d.at /\ e.logged = d.logged
                            /\ IF d = new THEN e = old ELSE e = d
      BY <1>3
    <3>3. b # e
      BY <1>s, <2>2, <3>1, <3>2
    <3>4. TakenBefore(b, e) \/ TakenBefore(e, b)
      BY <2>2, <3>1, <3>2, <3>3 DEF OnceInv, RecordsInv
    <3> QED
      BY <1>0, <3>1, <3>2, <3>4 DEF TakenBefore
  <2> QED
    BY <2>1, <2>2 DEF RecordsInv
<1>6. EntriesInv'
  <2> SUFFICES ASSUME run.at = "log" PROVE EntriesInv'
    BY <1>0 DEF EntriesInv
  <2>1. \A e \in run.entries : \E c \in made' : c.task = e.task /\ c.at = e.at
    BY <1>4 DEF OnceInv, EntriesInv
  <2>2. ASSUME NEW c \in made', c.task \in OneOffs, ~c.taken, c.logged <= run.to,
               run.next - ReadMargin <= c.at, c.at <= Until + ReadMargin
        PROVE  [task |-> c.task, at |-> c.at] \in run.entries
    <3>1. c \in made
      BY <1>1, <1>2, <2>2
    <3> QED
      BY <2>2, <3>1 DEF OnceInv, EntriesInv
  <2> QED
    BY <1>0, <2>1, <2>2 DEF EntriesInv
<1>7. RowsInv'
  <2>1. \A row \in history \cup run.rows :
           row.task \in OneOffs =>
              \E c \in made' : c.task = row.task /\ row.at \in {c.at, c.logged}
    BY <1>4 DEF OnceInv, RowsInv
  <2>2. \A c \in made' : ~c.taken => c \in made
    BY <1>1, <1>2
  <2> QED
    BY <1>0, <2>1, <2>2 DEF OnceInv, RowsInv
<1> QED
  BY <1>5, <1>6, <1>7 DEF OnceInv

\* A window's rows name no completion by the log that is named by the history.
LEMMA MergingKeeps ==
  ASSUME TypeOK, OnceInv, FetchLog
  PROVE  OnceInv'
<1> DEFINE from == run.next - ReadMargin
           to == Until + ReadMargin
           log == ActivityLog(from, to)
           rows == Merged(run.entries, log, run.next, Until)
           Logged(t) == StandingInLog({e \in log : e.task = t})
           Listed(t) == {e.at : e \in {e \in run.entries : e.task = t}}
<1>0. /\ run.at = "log" /\ run' = [run EXCEPT !.at = "record", !.entries = {}, !.rows = rows]
      /\ UNCHANGED <<tool, history>>
  BY DEF FetchLog, store
<1>1. run'.at = "record" /\ run'.rows = rows
  <2>1. run \in RunType
    BY DEF TypeOK, RunType
  <2> HIDE DEF rows
  <2> QED
    BY <1>0, <2>1 DEF RunType
<1>2. /\ run.next \in Int /\ Until \in Int /\ ReadMargin \in Nat /\ Skew \in Nat
      /\ Until <= run.to /\ run.to \in Int /\ Skew <= ReadMargin
      /\ from \in Int /\ to \in Int
  <2>1. run.next \in Days /\ Until \in Days /\ Until <= run.to /\ run.to \in Days
    BY UntilTyped DEF TypeOK
  <2> QED
    BY <2>1, SpansAssumption, DaysAreInstants
<1>3. \A row \in rows : /\ row.at \in run.next .. Until
                        /\ \/ row \in run.entries
                           \/ \E t \in Tasks : \E at \in Unpaired(Listed(t), Logged(t)) :
                                 row = [task |-> t, at |-> at]
  <2> HIDE DEF Logged, log
  <2> SUFFICES ASSUME NEW row \in Merged(run.entries, log, run.next, Until)
               PROVE  /\ row.at \in run.next .. Until
                      /\ \/ row \in run.entries
                         \/ \E t \in Tasks : \E at \in Unpaired(Listed(t), Logged(t)) :
                               row = [task |-> t, at |-> at]
    OBVIOUS
  <2> QED
    BY DEF Merged, Logged
<1>4. /\ \A c \in made : c.task \in Tasks /\ c.at \in Int /\ c.logged \in Int /\ c.at <= c.logged
                         /\ c.logged - c.at <= Skew
      /\ \A u \in undone : u.at \in Int
  BY DaysAreInstants DEF TypeOK, OnceInv, RecordsInv
<1>5. ASSUME NEW t \in OneOffs, NEW at \in Unpaired(Listed(t), Logged(t))
      PROVE  \E c \in made :
                /\ c.task = t /\ at = c.logged
                /\ ~\E e \in Listed(t) : e <= at + ReadMargin /\ e >= at - ReadMargin
  <2>1. \/ Logged(t) = {}
        \/ \E c \in made : c.task = t /\ Logged(t) = {c.logged}
    <3> HIDE DEF from, to
    <3> QED
      BY <1>2, OneStands DEF OnceInv
  <2> HIDE DEF Logged, Listed
  <2>2. PICK c \in made : c.task = t /\ Logged(t) = {c.logged}
    BY <1>5, <2>1, UnpairedOfNone
  <2>3. c.logged \in Int
    BY <1>4
  <2>4. at = c.logged
    BY <1>5, <2>2, <2>3, UnpairedOfOne
  <2> QED
    BY <1>5, <2>2, <2>3, <2>4, UnpairedOfOne
<1> HIDE DEF log, rows, Logged
<1>6. RecordsInv' /\ EntriesInv'
  BY <1>0, <1>1 DEF tool, OnceInv, RecordsInv, TakenBefore, EntriesInv
<1>7. ASSUME NEW row \in rows, row.task \in OneOffs
      PROVE  \E c \in made : c.task = row.task /\ row.at \in {c.at, c.logged}
  <2>1. CASE row \in run.entries
    BY <1>0, <2>1 DEF OnceInv, EntriesInv
  <2>2. CASE row \notin run.entries
    <3>1. PICK t \in Tasks : \E at \in Unpaired(Listed(t), Logged(t)) :
                                row = [task |-> t, at |-> at]
      BY <1>3, <2>2
    <3>2. PICK at \in Unpaired(Listed(t), Logged(t)) : row = [task |-> t, at |-> at]
      BY <3>1
    <3>3. t = row.task /\ at = row.at
      BY <3>2
    <3> QED
      BY <1>5, <1>7, <3>3
  <2> QED
    BY <2>1, <2>2
<1>8. ASSUME NEW c \in made, c.at # c.logged, ~c.taken,
             [task |-> c.task, at |-> c.logged] \in rows
      PROVE  FALSE
  <2>1. c.task \in OneOffs
    BY <1>4, <1>8 DEF OnceInv, RecordsInv, Tasks
  <2>2. PICK row \in rows : row = [task |-> c.task, at |-> c.logged]
    BY <1>8
  <2>3. row.task = c.task /\ row.at = c.logged
    BY <2>2
  <2>4. CASE row \in run.entries
    <3>1. PICK d \in made : d.task = c.task /\ d.at = c.logged
      BY <1>0, <2>3, <2>4 DEF OnceInv, EntriesInv
    <3>2. d # c
      BY <1>8, <3>1
    <3>3. PICK u \in undone : \/ c.logged < u.at /\ u.at < d.at
                              \/ d.logged < u.at /\ u.at < c.at
      BY <2>1, <3>1, <3>2 DEF OnceInv, RecordsInv, TakenBefore
    <3> QED
      BY <1>4, <3>1, <3>3
  <2>5. CASE row \notin run.entries
    <3>1. PICK t \in Tasks : \E at \in Unpaired(Listed(t), Logged(t)) :
                                row = [task |-> t, at |-> at]
      BY <1>3, <2>5
    <3>p. PICK at \in Unpaired(Listed(t), Logged(t)) : row = [task |-> t, at |-> at]
      BY <3>1
    <3>2. t = c.task /\ at = c.logged
      BY <2>3, <3>p
    <3>3. /\ ~\E e \in Listed(t) : e <= at + ReadMargin /\ e >= at - ReadMargin
      BY <1>5, <2>1, <3>2
    <3>4. c.logged <= Until /\ run.next <= c.logged
      BY <1>2, <1>3, <1>4, <2>3
    <3>5. [task |-> c.task, at |-> c.at] \in run.entries
      <4>1. c.logged <= run.to
        BY <1>2, <1>4, <3>4
      <4>2. run.next - ReadMargin <= c.at /\ c.at <= Until + ReadMargin
        BY <1>2, <1>4, <3>4
      <4> QED
        BY <1>0, <1>8, <2>1, <4>1, <4>2 DEF OnceInv, EntriesInv
    <3>6. c.at \in Listed(t)
      BY <3>2, <3>5
    <3>7. c.at <= at + ReadMargin /\ c.at >= at - ReadMargin
      BY <1>2, <1>4, <3>2
    <3> QED
      BY <3>3, <3>6, <3>7
  <2> QED
    BY <2>4, <2>5
<1>9. RowsInv'
  BY <1>0, <1>1, <1>7, <1>8 DEF tool, OnceInv, RowsInv
<1> QED
  BY <1>6, <1>9 DEF OnceInv

\* A run reads all that stands of a window, stores what it merged, and forgets it.
LEMMA WorkKeeps ==
  ASSUME TypeOK, OnceInv, FetchHistory \/ RecordSlice \/ LoadCompletions
  PROVE  OnceInv'
<1>0. run \in RunType /\ UNCHANGED tool
  BY DEF TypeOK, RunType, FetchHistory, RecordSlice, LoadCompletions
<1>1. RecordsInv'
  BY <1>0 DEF OnceInv, RecordsInv, TakenBefore, tool
<1>2. CASE FetchHistory
  <2> DEFINE entries == CompletionHistory(run.next - ReadMargin, Until + ReadMargin)
  <2>1. /\ run' = [run EXCEPT !.at = "log", !.entries = entries]
        /\ UNCHANGED history
    BY <1>2 DEF FetchHistory, store
  <2>2. \A c \in made : c.at \in Int
    BY DEF TypeOK
  <2>3. /\ run.next - ReadMargin \in Int /\ Until + ReadMargin \in Int
    <3>1. run.next \in Days /\ Until \in Days
      BY UntilTyped DEF TypeOK
    <3> QED
      BY <3>1, SpansAssumption, DaysAreInstants
  <2>4. /\ \A e \in entries : \E c \in made : c.task = e.task /\ c.at = e.at
        /\ \A c \in made :
              /\ c.task \in OneOffs /\ ~c.taken
              /\ run.next - ReadMargin <= c.at /\ c.at <= Until + ReadMargin
              => [task |-> c.task, at |-> c.at] \in entries
    <3>1. ASSUME NEW e \in entries PROVE \E c \in made : c.task = e.task /\ c.at = e.at
      BY DEF CompletionHistory
    <3>2. ASSUME NEW c \in made, c.task \in OneOffs, ~c.taken,
                 run.next - ReadMargin <= c.at, c.at <= Until + ReadMargin
          PROVE  [task |-> c.task, at |-> c.at] \in entries
      <4>1. c.at \in run.next - ReadMargin .. Until + ReadMargin
        BY <2>2, <2>3, <3>2
      <4> QED
        BY <3>2, <4>1 DEF CompletionHistory
    <3> QED
      BY <3>1, <3>2
  <2> HIDE DEF entries
  <2>5. /\ run'.entries = entries /\ run'.rows = run.rows /\ run'.next = run.next
        /\ run'.to = run.to
    BY <1>0, <2>1 DEF RunType
  <2>6. Until' = Until
    BY <2>5 DEF Until
  <2>7. EntriesInv' /\ RowsInv'
    BY <1>0, <2>1, <2>4, <2>5, <2>6 DEF tool, OnceInv, EntriesInv, RowsInv
  <2> QED
    BY <1>1, <2>7 DEF OnceInv
<1>3. CASE RecordSlice
  <2>1. history' = history \cup run.rows
    BY <1>3 DEF RecordSlice
  <2>2. run'.rows = {} /\ run'.at # "log"
    BY <1>0, <1>3 DEF RecordSlice, RunType
  <2> QED
    BY <1>0, <1>1, <2>1, <2>2 DEF tool, OnceInv, EntriesInv, RowsInv
<1>4. CASE LoadCompletions
  <2> DEFINE rows == {c \in history : c.at \in InWeeks /\ c.task \in mapped}
  <2>1. run' = [run EXCEPT !.at = "replace", !.rows = rows] /\ UNCHANGED history
    BY <1>4 DEF LoadCompletions, store
  <2>2. rows \subseteq history
    OBVIOUS
  <2> HIDE DEF rows
  <2>3. run'.rows = rows /\ run'.at # "log"
    BY <1>0, <2>1 DEF RunType
  <2> QED
    BY <1>0, <1>1, <2>1, <2>2, <2>3 DEF tool, OnceInv, EntriesInv, RowsInv
<1> QED
  BY <1>2, <1>3, <1>4

LEMMA OnceStep ==
  ASSUME TypeOK, ClockInv, OnceInv, [Next]_vars
  PROVE  OnceInv'
\* What leaves the records and the history alone and brings no row or entry.
<1>1. ASSUME UNCHANGED <<made, undone, history>>,
             run' = run \/ (run'.at # "log" /\ run'.rows \subseteq run.rows)
      PROVE  OnceInv'
  <2>1. RecordsInv'
    BY <1>1 DEF OnceInv, RecordsInv, TakenBefore
  <2>2. EntriesInv'
    BY <1>1 DEF OnceInv, EntriesInv, Until
  <2>3. RowsInv'
    BY <1>1 DEF OnceInv, RowsInv
  <2> QED
    BY <2>1, <2>2, <2>3 DEF OnceInv
<1>2. CASE UNCHANGED vars
  BY <1>1, <1>2 DEF vars, tool, store
<1>3. CASE People
  <2>1. ASSUME NEW t \in Tasks, NEW at \in -Skew .. LastDay, Complete(t, at) PROVE OnceInv'
    <3>1. at \in Int
      BY SpansAssumption
    <3> QED
      BY <2>1, <3>1, CompletionKeeps
  <2>2. ASSUME NEW t \in Tasks, MapPlace(t) PROVE OnceInv'
    BY <1>1, <2>2 DEF MapPlace, tool, store
  <2> QED
    BY <1>3, <2>1, <2>2, TakingBackKeeps DEF People
<1>4. CASE Tick
  BY <1>1, <1>4 DEF Tick, store
<1>5. CASE Start
  <2>1. PICK kind \in {"backfill", "refresh"}, next, claim, from, to \in Days :
           Begin(kind, next, claim, from, to)
    BY <1>5, StartFacts
  <2>2. run'.at # "log"
    BY <2>1, BeginTyped
  <2>3. run'.rows = {}
    BY <2>1 DEF Begin, Resting
  <2>4. UNCHANGED <<made, undone, history>>
    BY <2>1 DEF Begin, tool, store
  <2> QED
    BY <1>1, <2>2, <2>3, <2>4
<1>6. CASE Step
  <2>1. run \in RunType
    BY DEF TypeOK, RunType
  <2>2. CASE ReplaceMaterialised
    <3>1. run'.at # "log" /\ run'.rows = run.rows
      BY <2>1, <2>2 DEF ReplaceMaterialised, RunType
    <3> QED
      BY <1>1, <2>2, <3>1 DEF ReplaceMaterialised, tool
  <2>3. CASE RecordAdherence
    BY <1>1, <2>3 DEF RecordAdherence, Resting, tool
  <2> QED
    BY <1>6, <2>2, <2>3, WorkKeeps, MergingKeeps DEF Step
<1>7. CASE Fails \/ Dies
  <2>1. run \in RunType
    BY DEF TypeOK, RunType
  <2>2. \/ run' = [run EXCEPT !.at = "load", !.entries = {}, !.rows = {}]
        \/ run' = Resting
    BY <1>7 DEF Fails, Dies
  <2>3. run'.at # "log" /\ run'.rows = {}
    <3>1. CASE run' = Resting
      BY <3>1 DEF Resting
    <3>2. CASE run' = [run EXCEPT !.at = "load", !.entries = {}, !.rows = {}]
      BY <2>1, <3>2 DEF RunType
    <3> QED
      BY <2>2, <3>1, <3>2
  <2> QED
    BY <1>1, <1>7, <2>3 DEF Fails, Dies, tool, store
<1> QED
  BY <1>2, <1>3, <1>4, <1>5, <1>6, <1>7 DEF Next

LEMMA OnceInit ==
  ASSUME Init
  PROVE  OnceInv
<1>1. Trailing \in Nat /\ Skew \in Nat /\ OneOffs \cap Habits = {}
  BY SpansAssumption
<1>2. \A c \in made : /\ \E t \in Tasks, d \in 0 .. Trailing :
                            c = [task |-> t, at |-> d, logged |-> d, taken |-> FALSE]
  BY DEF Init
<1>3. \A c \in made : c.at = c.logged /\ c.at \in Int /\ ~c.taken
  BY <1>1, <1>2
<1>4. \A c, d \in made : c.task = d.task /\ c.task \in OneOffs => c = d
  BY DEF Init
<1>5. RecordsInv
  BY <1>1, <1>3, <1>4 DEF RecordsInv
<1>6. run.at = "rest" /\ run.rows = {} /\ history = {}
  BY DEF Init, Resting
<1> QED
  BY <1>5, <1>6 DEF OnceInv, EntriesInv, RowsInv

\* One completion is one row: whatever the spans of windows and margins, as long
\* as the tool's two stamps lie no further apart than the margin, no order of
\* reads, failures, crashes and late reports stores it under both.
THEOREM CompletionsAreStoredOnce == Spec => []StoredOnce
<1>1. Init => HistoryInv /\ OnceInv
  BY HistoryInit, OnceInit
<1>2. HistoryInv /\ OnceInv /\ [Next]_vars => (HistoryInv /\ OnceInv)'
  BY HistoryStep, OnceStep DEF HistoryInv, CoverageInv
<1>3. OnceInv => StoredOnce
  BY DEF OnceInv, RowsInv, StoredOnce
<1> QED
  BY <1>1, <1>2, <1>3, PTL DEF Spec

=============================================================================
