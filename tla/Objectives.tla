------------------------------- MODULE Objectives -------------------------------
(***************************************************************************)
(* Objectives and their pages. A pass of the reconciler (apps/sync/src/     *)
(* objective-success, objective-windows, objective-pages, in that order)    *)
(* reads the success figure of each linked page, moves each open objective  *)
(* to the status its window gives it, and writes each objective's period    *)
(* into its page's date column. Meanwhile people judge objectives, move     *)
(* their period, link them to other pages and edit the pages.               *)
(*                                                                         *)
(* Every request, statement and transaction is a step, and so is each half  *)
(* of a change of period, which reads the objective before it writes it.    *)
(* The pass is one that applies with writes enabled, under the lock.        *)
(***************************************************************************)
EXTENDS Integers, Sequences

CONSTANTS
    Objectives,         \* ids, which a pass goes through in order
    Pages,
    Periods,            \* the periods that are written the way their type says
    Unwritten,          \* one that is not
    StartsOn, EndsOn, JudgeBy,  \* objectiveWindowOf, for each of Periods
    Figures,            \* what a page's success column can hold
    DateColumns, SuccessColumns,  \* the store's columns of either kind
    LastDay,            \* bound
    None

ASSUME WindowsAssumption ==
    /\ Objectives \subseteq Nat /\ LastDay \in Nat
    /\ {StartsOn, EndsOn, JudgeBy} \subseteq [Periods -> Int]
    /\ \A p \in Periods : StartsOn[p] <= EndsOn[p] /\ EndsOn[p] <= JudgeBy[p]
    /\ Unwritten \notin Periods
    /\ None \notin Pages /\ None \notin Figures /\ None \notin Periods
    /\ None \notin DateColumns /\ None \notin SuccessColumns

VARIABLES
    today,
    objective,          \* the objective table
    page,               \* the objectives store: [held, dates, success]
    chosen,             \* columns chosen on Settings: [dates, success]
    lastApplied,        \* last_applied of objective_page, by page
    moving,             \* changes of period between their read and their write
    pass,               \* the pass under way
    edited,             \* history: page and date column a person changed after prisme's last write there
    written,            \* history: the date column prisme wrote last, by page
    unrecorded          \* history: pages whose last write by prisme is not in last_applied

people == <<objective, page, chosen>>
vars == <<today, people, lastApplied, moving, pass, edited, written, unrecorded>>

Open == {"draft", "active"}
Statuses == Open \cup {"met", "missed", "dropped"}
Dates == Periods \cup {None}

Choices == [dates : DateColumns \cup {None}, success : SuccessColumns \cup {None}]

Stages == {"rest", "success", "record", "windows", "step", "pages", "entries", "write", "note", "ledger"}

Idle == [at |-> "rest", column |-> None, linked |-> <<>>, figures |-> <<>>, todo |-> {}]

TypeOK ==
    /\ today \in 0 .. LastDay
    /\ objective \in [Objectives -> [status : Statuses, period : Periods \cup {Unwritten},
                                     page : Pages \cup {None}, figure : Figures \cup {None}]]
    /\ page \in [Pages -> [held : {"store", "trash", "elsewhere"},
                           dates : [DateColumns -> Dates],
                           success : [SuccessColumns -> Figures \cup {None}]]]
    /\ chosen \in Choices
    /\ lastApplied \in [Pages -> Dates]
    /\ moving \subseteq [id : Objectives, period : Periods, status : Statuses \cup {None}]
    /\ pass.at \in Stages
    /\ edited \subseteq Pages \X DateColumns /\ unrecorded \subseteq Pages
    /\ written \in [Pages -> DateColumns \cup {None}]

Init ==
    /\ today = 0
    /\ objective \in [Objectives -> [status : {"draft", "active"}, period : Periods \cup {Unwritten},
                                     page : Pages \cup {None}, figure : {None}]]
    /\ page \in [Pages -> [held : {"store"}, dates : [DateColumns -> Dates],
                              success : [SuccessColumns -> Figures \cup {None}]]]
    /\ chosen \in Choices
    /\ lastApplied = [g \in Pages |-> None]
    /\ moving = {}
    /\ pass = Idle
    /\ edited = {} /\ unrecorded = {}
    /\ written = [g \in Pages |-> None]

-----------------------------------------------------------------------------
(* People. *)

\* PATCH of the status alone: any status may be set.
Judge(o, status) ==
    /\ objective' = [objective EXCEPT ![o].status = status]
    /\ UNCHANGED <<today, page, chosen, lastApplied, moving, pass, edited, written, unrecorded>>

\* PATCH of the period, and of the status with it or not (None): the objective
\* is read and must be open.
AskMove(o, period, status) ==
    /\ objective[o].status \in Open
    /\ moving' = moving \cup {[id |-> o, period |-> period, status |-> status]}
    /\ UNCHANGED <<today, people, lastApplied, pass, edited, written, unrecorded>>

\* The update asks for nothing.
Move(m) ==
    /\ LET status == IF m.status = None THEN objective[m.id].status ELSE m.status
       IN  objective' = [objective EXCEPT ![m.id] = [@ EXCEPT !.period = m.period,
                                                              !.status = status]]
    /\ moving' = moving \ {m}
    /\ UNCHANGED <<today, page, chosen, lastApplied, pass, edited, written, unrecorded>>

\* A link to another page, or to none, clears the figure.
Relink(o, g) ==
    /\ objective' = [objective EXCEPT ![o] = [@ EXCEPT !.page = g, !.figure = None]]
    /\ UNCHANGED <<today, page, chosen, lastApplied, moving, pass, edited, written, unrecorded>>

EditDates(g, column, dates) ==
    /\ page[g].dates[column] # dates
    /\ page' = [page EXCEPT ![g].dates[column] = dates]
    /\ edited' = edited \cup {<<g, column>>}
    /\ UNCHANGED <<today, objective, chosen, lastApplied, moving, pass, written, unrecorded>>

EditSuccess(g, column, figure) ==
    /\ page' = [page EXCEPT ![g].success[column] = figure]
    /\ UNCHANGED <<today, objective, chosen, lastApplied, moving, pass, edited, written, unrecorded>>

\* To the trash, out of the store, and back.
HoldPage(g, held) ==
    /\ page' = [page EXCEPT ![g].held = held]
    /\ UNCHANGED <<today, objective, chosen, lastApplied, moving, pass, edited, written, unrecorded>>

\* Another column, or none. What was written into the one before stays recorded.
ChooseDates(column) ==
    /\ chosen' = [chosen EXCEPT !.dates = column]
    /\ UNCHANGED <<today, objective, page, lastApplied, moving, pass, edited, written, unrecorded>>

ChooseSuccess(column) ==
    /\ chosen' = [chosen EXCEPT !.success = column]
    /\ UNCHANGED <<today, objective, page, lastApplied, moving, pass, edited, written, unrecorded>>

NextDay ==
    /\ today < LastDay
    /\ today' = today + 1
    /\ UNCHANGED <<people, lastApplied, moving, pass, edited, written, unrecorded>>

-----------------------------------------------------------------------------
(* The success figure. *)

Linked == [o \in {o \in Objectives : objective[o].page # None} |-> objective[o].page]

\* The column and the links. Without a column every figure is cleared.
StartPass ==
    /\ pass.at = "rest"
    /\ IF chosen.success # None
       THEN /\ pass' = IF Linked = <<>> THEN [Idle EXCEPT !.at = "windows"]
                       ELSE [Idle EXCEPT !.at = "success", !.column = chosen.success,
                                         !.linked = Linked]
            /\ UNCHANGED objective
       ELSE /\ objective' = [o \in Objectives |-> [objective[o] EXCEPT !.figure = None]]
            /\ pass' = [Idle EXCEPT !.at = "windows"]
    /\ UNCHANGED <<today, page, chosen, lastApplied, moving, edited, written, unrecorded>>

\* Mutation of Figure: only a page that holds a figure is answered for.
FigureIfAny(o) ==
    IF page[pass.linked[o]].held = "store" /\ page[pass.linked[o]].success[pass.column] # None
    THEN page[pass.linked[o]].success[pass.column] ELSE objective[o].figure

\* null for a page that is gone, in the trash or empty.
Figure(o) ==
    IF page[pass.linked[o]].held = "store" THEN page[pass.linked[o]].success[pass.column]
    ELSE None

ReadFigures ==
    /\ pass.at = "success"
    /\ pass' = [Idle EXCEPT !.at = "record",
                            !.figures = [o \in DOMAIN pass.linked |-> Figure(o)]]
    /\ UNCHANGED <<today, people, lastApplied, moving, edited, written, unrecorded>>

\* One transaction, by the objective's id alone.
RecordFigures ==
    /\ pass.at = "record"
    /\ objective' = [o \in Objectives |->
                       IF o \in DOMAIN pass.figures
                       THEN [objective[o] EXCEPT !.figure = pass.figures[o]] ELSE objective[o]]
    /\ pass' = [Idle EXCEPT !.at = "windows"]
    /\ UNCHANGED <<today, page, chosen, lastApplied, moving, edited, written, unrecorded>>

-----------------------------------------------------------------------------
(* The windows. *)

Phase(period) ==
    CASE today < StartsOn[period] -> "upcoming"
      [] StartsOn[period] <= today /\ today <= EndsOn[period] -> "running"
      [] EndsOn[period] < today /\ today <= JudgeBy[period] -> "closing"
      [] JudgeBy[period] < today -> "ended"

\* The statuses its window takes an objective through.
WindowSteps(status, period) ==
    IF period = Unwritten THEN <<>>
    ELSE IF status = "active" /\ Phase(period) = "upcoming" THEN <<"draft">>
    ELSE IF status = "active" /\ Phase(period) = "ended" THEN <<"missed">>
    ELSE IF status = "draft" /\ Phase(period) \in {"running", "closing"} THEN <<"active">>
    ELSE IF status = "draft" /\ Phase(period) = "ended" THEN <<"active", "missed">>
    ELSE <<>>

\* An objective and what is left to take it through.
Todo(o) == [id |-> o, from |-> objective[o].status,
            steps |-> WindowSteps(objective[o].status, objective[o].period)]

\* openObjectives, and what the day makes of each.
ReadOpen ==
    /\ pass.at = "windows"
    /\ LET todo == {item \in {Todo(o) : o \in Objectives} : item.steps # <<>>}
       IN  pass' = [Idle EXCEPT !.at = IF todo = {} THEN "pages" ELSE "step", !.todo = todo]
    /\ UNCHANGED <<today, people, lastApplied, moving, edited, written, unrecorded>>

\* By id.
First == {item \in pass.todo : \A other \in pass.todo : item.id <= other.id}

\* Mutation of Moves: the status it was read with is not asked for.
MovesAnyway(item) == objective[item.id].status \in Statuses

\* A compare-and-set on the status.
Moves(item) == objective[item.id].status = item.from

\* One step, in one transaction with its event. An objective that somebody moved
\* is left alone.
ApplyStep ==
    /\ pass.at = "step"
    /\ \E item \in First :
          LET to == Head(item.steps)
              rest == [item EXCEPT !.from = to, !.steps = Tail(item.steps)]
              left == (pass.todo \ {item})
                        \cup (IF Moves(item) /\ rest.steps # <<>> THEN {rest} ELSE {})
          IN  /\ objective' = IF Moves(item) THEN [objective EXCEPT ![item.id].status = to]
                              ELSE objective
              /\ pass' = IF left = {} THEN [Idle EXCEPT !.at = "pages"]
                         ELSE [Idle EXCEPT !.at = "step", !.todo = left]
    /\ UNCHANGED <<today, page, chosen, lastApplied, moving, edited, written, unrecorded>>

-----------------------------------------------------------------------------
(* The pages. *)

\* The date column, and every objective with a page and its period.
ReadLinks ==
    /\ pass.at = "pages"
    /\ pass' = IF chosen.dates # None /\ Linked # <<>>
               THEN [Idle EXCEPT !.at = "entries", !.column = chosen.dates,
                                 !.linked = [o \in DOMAIN Linked |->
                                               [page |-> Linked[o], period |-> objective[o].period]]]
               ELSE Idle
    /\ UNCHANGED <<today, people, lastApplied, moving, edited, written, unrecorded>>

\* Not shared, of a period that can be written, in the store and not there yet.
ToWrite(o) ==
    LET mine == pass.linked[o]
    IN  /\ \A q \in DOMAIN pass.linked : pass.linked[q].page = mine.page => q = o
        /\ mine.period # Unwritten
        /\ page[mine.page].held = "store"
        /\ page[mine.page].dates[pass.column] # mine.period

\* Mutation of Conflicts: against what prisme holds now, not what it wrote last.
ConflictsWithPeriod(g, column, period) ==
    lastApplied[g] # None /\ page[g].dates[column] # period

\* The column does not hold what was written last, into it or another.
Conflicts(g, column, period) ==
    lastApplied[g] # None /\ page[g].dates[column] # lastApplied[g]

\* The full read of the store, what was written last, and the plan.
PlanPages ==
    /\ pass.at = "entries"
    /\ LET action(o) == LET mine == pass.linked[o]
                        IN  [id |-> o, page |-> mine.page, column |-> pass.column,
                             dates |-> mine.period,
                             conflict |-> Conflicts(mine.page, pass.column, mine.period)]
           todo == {action(o) : o \in {o \in DOMAIN pass.linked : ToWrite(o)}}
       IN  pass' = IF todo = {} THEN Idle ELSE [Idle EXCEPT !.at = "write", !.todo = todo]
    /\ UNCHANGED <<today, people, lastApplied, moving, edited, written, unrecorded>>

\* On to the next action.
After(action) ==
    IF pass.todo = {action} THEN Idle
    ELSE [Idle EXCEPT !.at = "write", !.todo = pass.todo \ {action}]

\* setObjectivePageDates: taken; taken, and the answer lost; or not taken.
WriteDates(taken, answered) ==
    /\ pass.at = "write"
    /\ answered => taken
    /\ \E action \in First :
          /\ IF taken
             THEN /\ page' = [page EXCEPT ![action.page].dates[action.column] = action.dates]
                  /\ edited' = edited \ {<<action.page, action.column>>}
                  /\ written' = [written EXCEPT ![action.page] = action.column]
                  /\ unrecorded' = unrecorded \cup {action.page}
             ELSE UNCHANGED <<page, edited, written, unrecorded>>
          /\ pass' = IF answered THEN [Idle EXCEPT !.at = "note", !.todo = pass.todo]
                     ELSE After(action)
    /\ UNCHANGED <<today, objective, chosen, lastApplied, moving>>

\* recordLastApplied.
NoteApplied ==
    /\ pass.at = "note"
    /\ \E action \in First :
          /\ lastApplied' = [lastApplied EXCEPT ![action.page] = action.dates]
          /\ unrecorded' = unrecorded \ {action.page}
          /\ pass' = IF action.conflict THEN [Idle EXCEPT !.at = "ledger", !.todo = pass.todo]
                     ELSE After(action)
    /\ UNCHANGED <<today, people, moving, edited, written>>

\* recordConflict.
RecordConflict ==
    /\ pass.at = "ledger"
    /\ \E action \in First : pass' = After(action)
    /\ UNCHANGED <<today, people, lastApplied, moving, edited, written, unrecorded>>

-----------------------------------------------------------------------------
(* Failures. *)

\* A read or a statement fails: the part of the pass it is in ends, or the
\* action; main goes on with the next part.
Fails ==
    /\ \/ pass.at \in {"success", "record"} /\ pass' = [Idle EXCEPT !.at = "windows"]
       \/ pass.at \in {"windows", "step"} /\ pass' = [Idle EXCEPT !.at = "pages"]
       \/ pass.at \in {"pages", "entries"} /\ pass' = Idle
       \/ pass.at \in {"note", "ledger"} /\ \E action \in First : pass' = After(action)
    /\ UNCHANGED <<today, people, lastApplied, moving, edited, written, unrecorded>>

\* The process ends, or a token is rejected.
Dies ==
    /\ pass.at # "rest"
    /\ pass' = Idle
    /\ UNCHANGED <<today, people, lastApplied, moving, edited, written, unrecorded>>

Person ==
    \/ \E o \in Objectives :
          \/ \E s \in Statuses : Judge(o, s)
          \/ \E p \in Periods, s \in Statuses \cup {None} : AskMove(o, p, s)
          \/ \E g \in Pages \cup {None} : Relink(o, g)
    \/ \E g \in Pages : \/ \E c \in DateColumns, d \in Dates : EditDates(g, c, d)
                        \/ \E c \in SuccessColumns, f \in Figures \cup {None} : EditSuccess(g, c, f)
                        \/ \E held \in {"store", "trash", "elsewhere"} : HoldPage(g, held)
    \/ \E column \in DateColumns \cup {None} : ChooseDates(column)
    \/ \E column \in SuccessColumns \cup {None} : ChooseSuccess(column)

Finish == \E m \in moving : Move(m)

Step ==
    \/ ReadFigures \/ RecordFigures \/ ReadOpen \/ ApplyStep
    \/ ReadLinks \/ PlanPages \/ WriteDates(TRUE, TRUE) \/ NoteApplied \/ RecordConflict

Fault == Fails \/ Dies \/ \E taken \in BOOLEAN : WriteDates(taken, FALSE)

Next == Person \/ Finish \/ NextDay \/ StartPass \/ Step \/ Fault

Spec == Init /\ [][Next]_vars

-----------------------------------------------------------------------------
(* What makes it correct. *)

\* A pass never takes back a judgement: met, missed and dropped stay, also when
\* somebody judges while the pass is at work on what it read (ADR-0037).
JudgementStands ==
    [][\A o \in Objectives :
          objective[o].status \notin Open /\ pass' # pass
             => objective'[o].status = objective[o].status]_vars

\* A conflict has one of three causes: somebody changed the column after prisme
\* wrote it, prisme's own last write of the page was never recorded, or it was of
\* another column than the one chosen now (objective-pages/plan.ts verdictOf).
ConflictHasACause ==
    [][pass.at = "entries" =>
          \A action \in pass'.todo : action.conflict =>
             \/ <<action.page, action.column>> \in edited
             \/ action.page \in unrecorded
             \/ written[action.page] # action.column]_vars

StatusFollowsItsWindow ==
    \A o \in Objectives : objective[o].period # Unwritten =>
       /\ objective[o].status = "draft" => today < StartsOn[objective[o].period]
       /\ objective[o].status = "active" =>
             today \in StartsOn[objective[o].period] .. JudgeBy[objective[o].period]

PageShowsItsPeriod ==
    \A o \in DOMAIN Linked :
       /\ chosen.dates # None /\ objective[o].period # Unwritten
       /\ page[Linked[o]].held = "store"
       /\ \A q \in DOMAIN Linked : Linked[q] = Linked[o] => q = o
       => page[Linked[o]].dates[chosen.dates] = objective[o].period

FigureIsItsPages ==
    \A o \in DOMAIN Linked :
       objective[o].figure =
          IF chosen.success # None /\ page[Linked[o]].held = "store"
          THEN page[Linked[o]].success[chosen.success] ELSE None

Settled == StatusFollowsItsWindow /\ PageShowsItsPeriod /\ FigureIsItsPages

=============================================================================
