-------------------------------- MODULE Board --------------------------------
(***************************************************************************)
(* The initiatives of one instance as people edit them, and what the       *)
(* ranking, the selection and the schedule say of them day after day.      *)
(* Requests are taken one at a time here: ToolCalls and Adoption are about *)
(* those that overlap.                                                     *)
(***************************************************************************)
EXTENDS Ranking

CONSTANTS
    Initial,        \* the boards to start from
    Statuses,       \* the statuses people give
    Starts,         \* the starts they give, NoDate among them
    Deadlines,      \* the deadlines they give, NoDate among them
    Projects,
    Minutes,        \* the lengths of completions, NoDate among them
    LastDay         \* the bound of the clock

\* The initiative rows on a board of these ids.
BoardRows(ids) ==
    [area : DOMAIN Areas, status : Statuses, value : Int, timeCriticality : Int, risk : Int,
     size : DOMAIN DurationDays, start : Starts, deadline : Deadlines, deps : SUBSET ids,
     estimated : BOOLEAN, project : Projects \cup {NoDate}]

\* A date is a day or none, a length minutes or none, and a board starts with
\* rows people can give and without a cycle.
ASSUME BoardAssumption ==
    /\ \A d \in Starts \cup Deadlines \cup Minutes : d = NoDate \/ d \in Int
    /\ \A b \in Initial : /\ DOMAIN b \subseteq Int
                         /\ IsFiniteSet(DOMAIN b)
                         /\ b \in [DOMAIN b -> BoardRows(DOMAIN b)]
                         /\ Acyclic(b)

VARIABLES
    board,          \* the initiative rows
    active,         \* the projects whose status is active
    done,           \* the tasks completed
    today

boardVars == <<board, active, done, today>>

Ids == DOMAIN board

BoardInit ==
    /\ board \in Initial
    /\ active = Projects
    /\ done = {}
    /\ today = 0

Transition(i, s) ==
    /\ s # board[i].status
    /\ board' = [board EXCEPT ![i].status = s]
    /\ UNCHANGED <<active, done, today>>

\* update: a start, a deadline, and whether anyone has estimated it
Update(i, start, deadline) ==
    /\ board' = [board EXCEPT ![i].start = start, ![i].deadline = deadline]
    /\ UNCHANGED <<active, done, today>>

Estimate(i) ==
    /\ board' = [board EXCEPT ![i].estimated = TRUE]
    /\ UNCHANGED <<active, done, today>>

ReplaceDependencies(i, deps) ==
    LET prospective == [board EXCEPT ![i].deps = deps]
    IN /\ AssertAcyclic(prospective)
       /\ board' = prospective
       /\ UNCHANGED <<active, done, today>>

SetProjectStatus(p) ==
    /\ active' = IF p \in active THEN active \ {p} ELSE active \cup {p}
    /\ UNCHANGED <<board, done, today>>

Complete(a, minutes) ==
    /\ done' = done \cup {[id |-> Cardinality(done), area |-> a,
                           day |-> today, minutes |-> minutes]}
    /\ UNCHANGED <<board, active, today>>

NextDay ==
    /\ today < LastDay
    /\ today' = today + 1
    /\ UNCHANGED <<board, active, done>>

Edit ==
    \/ \E i \in Ids, s \in Statuses : Transition(i, s)
    \/ \E i \in Ids, start \in Starts, deadline \in Deadlines : Update(i, start, deadline)
    \/ \E i \in Ids : Estimate(i)
    \/ \E i \in Ids, deps \in SUBSET Ids : ReplaceDependencies(i, deps)
    \/ \E p \in Projects : SetProjectStatus(p)

BoardNext ==
    \/ Edit
    \/ \E a \in DOMAIN Areas, m \in Minutes : Complete(a, m)
    \/ NextDay

BoardSpec == BoardInit /\ [][BoardNext]_boardVars

-----------------------------------------------------------------------------
(* What the pages read. *)

Selection(b) == SelectNowSet(b, ComputeScores(b, done, today), today, active)

Slots ==
    LET weights == ResolveWeights(YearOf(today))
    IN [a \in DOMAIN Areas |-> IF a \in DOMAIN weights THEN SlotsForWeight(weights[a]) ELSE 1]

Plan == ComputeSchedule(board, today, Slots, {})

Moved(i, day) == Replan(board, today, Slots, i, day)

-----------------------------------------------------------------------------
(* Selection (docs/12-scoring.md section 5). *)

\* The board once a review has accepted every proposal of the selection.
Reviewed(s) ==
    [i \in Ids |-> IF i \in s.now THEN [board[i] EXCEPT !.status = "now"] ELSE board[i]]

\* A selection, and the one made again once it is accepted.
Stands(s, again) ==
    LET taken == s.now
        Held(i) == CASE s.reason[i] = "wip_full" -> Cardinality(taken) >= MaxNow
                     [] s.reason[i] = "area_at_cap" ->
                          Cardinality(InArea(board, taken, board[i].area)) >= MaxNowPerArea
                     [] s.reason[i] = "selected" ->
                          /\ Cardinality(taken) <= MaxNow
                          /\ Cardinality(InArea(board, taken, board[i].area)) <= MaxNowPerArea
                     [] OTHER -> TRUE
    IN /\ \A i \in DOMAIN s.reason : Held(i)
       /\ again.now = taken
       /\ \A i \in DOMAIN s.reason \ taken :
             \/ again.reason[i] = s.reason[i]
             \/ {again.reason[i], s.reason[i]} \subseteq {"wip_full", "area_at_cap"}

\* Every reason the selection gives is still true of the set it ends with, and
\* a selection accepted as it stands proposes nothing more and frees nobody: the
\* pass that fills the slots counts what it takes, in an order that later takes
\* do not contradict.
SelectionStands == Stands(Selection(board), Selection(Reviewed(Selection(board))))

-----------------------------------------------------------------------------
(* The schedule. *)

Fits(b, plan) ==
    /\ \A i \in Open(b), d \in today .. Max({plan.at[j].end : j \in Open(b)}) :
          IsWorkingDay(d) => Occupied(Peers(b, plan.at, i), d) <= Slots[b[i].area]
    /\ \A k \in DOMAIN plan.order :
          LET i == plan.order[k]
              earlier == {plan.at[j] : j \in {plan.order[m] : m \in 1 .. k - 1}}
              peers == {p \in earlier : b[p.id].area = b[i].area}
          IN /\ \A d \in plan.at[i].ready .. plan.at[i].start - 1 :
                   IsWorkingDay(d) =>
                      ~IsFree(peers, Slots[b[i].area], d, DurationDays[b[i].size])
             /\ \A j \in Predecessors(b, i) : plan.at[j].end < plan.at[i].start
             /\ b[i].start # NoDate => plan.at[i].start >= b[i].start

\* No working day holds more of an area's placements than its slots, each start
\* is the first day on or after the ready day with a slot for the whole span
\* given what was placed before, among all days and not only those tried, and
\* nothing starts before what it waits on has ended, on the board as it is and
\* after any move.
PlanFits ==
    /\ Fits(board, Plan)
    /\ \A i \in Open(board), d \in Starts \ {NoDate} :
          Fits([board EXCEPT ![i].start = d], Moved(i, d).after)

Tells(plan) ==
    LET Downstream[i \in Open(board)] ==
            {i} \cup UNION {Downstream[j] : j \in Successors(board, i)}
        path == CriticalPath(board, plan.slack)
    IN /\ \A i \in Open(board) :
             plan.slack[i] < 0 => Downstream[i] \cap plan.infeasible # {}
       /\ \A i \in plan.infeasible : plan.slack[i] < 0
       /\ \A k \in 2 .. Len(path) : path[k - 1] \in board[path[k]].deps
       /\ plan.infeasible # {} => plan.slack[path[1]] < 0

\* "Negative slack is a deadline that cannot be met, propagated backwards":
\* slack is negative only where work downstream, or the initiative itself, ends
\* after its deadline, every such end shows as negative slack of its own, and
\* then the critical path begins with negative slack and follows dependencies.
SlackIsAboutDeadlines == Tells(Plan)

Explained(i, d, r) ==
    LET asked == WorkingDayOnOrAfter(d)
        past == asked < WorkingDayOnOrAfter(today)
    IN /\ Predecessors(board, i) = {} /\ ~past => r.honoured
       /\ ~r.honoured /\ ~past =>
             /\ r.actual.boundBy \in {"dependency", "capacity"}
             /\ r.actual.by # {}
             /\ \A j \in r.actual.by :
                   NextWorkingDay(r.after.at[j].end) = r.actual.start
       /\ i \notin r.shifted => r.shifted = {}

\* "A move is a request": an open initiative that waits on nothing open starts
\* on the day asked for unless it has passed, a move that is refused names what
\* refused it, each thing named ending the working day before, and a move that
\* leaves its initiative where it was leaves every other there too.
MoveIsHonouredOrExplained ==
    \A i \in Open(board), d \in Starts \ {NoDate} : Explained(i, d, Moved(i, d))

\* The gate refuses exactly the graphs that have a cycle, and names one.
CycleIsReal ==
    \A i \in Ids, deps \in SUBSET Ids :
       LET b == [board EXCEPT ![i].deps = deps]
           Reach[n \in 0 .. Cardinality(Ids)] ==
             IF n = 0 THEN deps ELSE Reach[n - 1] \cup UNION {b[j].deps : j \in Reach[n - 1]}
           c == FindCycle(b)
       IN /\ c = <<>> <=> i \notin Reach[Cardinality(Ids)]
          /\ \A k \in 1 .. Len(c) - 1 : c[k + 1] \in b[c[k]].deps
          /\ c # <<>> => c[1] = c[Len(c)] /\ i \in Range(c)
=============================================================================
