---------------------------- MODULE QuietObjectives ----------------------------
(***************************************************************************)
(* Objectives, told apart by whether anything interfered with the pass     *)
(* since it started: somebody's edit, a day that passed, or a failure.  A  *)
(* request that only read an objective changed nothing yet.                *)
(***************************************************************************)
EXTENDS Objectives

VARIABLE quiet    \* history: nothing interfered with the pass since it started

quietVars == <<vars, quiet>>

QuietInit == Init /\ quiet = FALSE

Interferes == (Person \/ Finish \/ NextDay \/ Fault) /\ quiet' = FALSE

Begins == StartPass /\ quiet' = TRUE

Proceeds == Step /\ UNCHANGED quiet

Asks ==
    /\ \E o \in Objectives, p \in Periods, s \in Statuses \cup {None} : AskMove(o, p, s)
    /\ UNCHANGED quiet

QuietNext == Interferes \/ Begins \/ Proceeds \/ Asks

QuietSpec == QuietInit /\ [][QuietNext]_quietVars

-----------------------------------------------------------------------------
\* Level-triggered: whatever was edited, missed or failed before, one pass that
\* meets none of it leaves every objective in the status its window gives it, every
\* page with its period, and every linked objective with its page's figure.
NextPassSettles == quiet /\ pass.at = "rest" => Settled

\* Why: what each part of a quiet pass read is still so when it writes, each step
\* of a window leaves the objective where the next begins, and whatever is due on
\* a page is in the plan.
FigureOf(o) ==
    IF chosen.success # None /\ page[Linked[o]].held = "store"
    THEN page[Linked[o]].success[chosen.success] ELSE None

FiguresAreRead ==
    /\ pass.at \in {"success", "record"} => chosen.success # None
    /\ pass.at = "success" => pass.linked = Linked /\ pass.column = chosen.success
    /\ pass.at = "record" =>
          /\ DOMAIN pass.figures = DOMAIN Linked
          /\ \A o \in DOMAIN Linked : pass.figures[o] = FigureOf(o)

StepsAreTodo ==
    pass.at = "step" =>
       pass.todo = {item \in {Todo(o) : o \in Objectives} : item.steps # <<>>}

LinksAreRead ==
    pass.at = "entries" =>
       /\ chosen.dates # None /\ pass.column = chosen.dates
       /\ pass.linked = [o \in DOMAIN Linked |->
                           [page |-> Linked[o], period |-> objective[o].period]]

Alone(o) == \A q \in DOMAIN Linked : Linked[q] = Linked[o] => q = o

DatesDue(o) ==
    /\ Alone(o)
    /\ objective[o].period # Unwritten
    /\ page[Linked[o]].held = "store"
    /\ page[Linked[o]].dates[chosen.dates] # objective[o].period

\* A write in the plan is of its objective's own page and period, and the one that
\* was just made stands.
DatesArePlanned ==
    /\ \A o \in DOMAIN Linked : DatesDue(o) => \E action \in pass.todo : action.id = o
    /\ \A action \in pass.todo :
          /\ action.id \in DOMAIN Linked /\ Alone(action.id)
          /\ action.page = Linked[action.id] /\ action.column = chosen.dates
          /\ action.dates = objective[action.id].period
    /\ pass.at \in {"note", "ledger"} =>
          \A action \in First : page[action.page].dates[action.column] = action.dates

Writing == {"write", "note", "ledger"}

QuietInv ==
    quiet =>
       /\ FiguresAreRead /\ StepsAreTodo /\ LinksAreRead
       /\ pass.at \notin {"success", "record"} => FigureIsItsPages
       /\ pass.at \in {"pages", "entries", "rest"} \cup Writing => StatusFollowsItsWindow
       /\ pass.at \in Writing => DatesArePlanned
       /\ pass.at = "rest" => PageShowsItsPeriod

=============================================================================
