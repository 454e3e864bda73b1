------------------------------ MODULE QuietPass ------------------------------
(***************************************************************************)
(* Binding, told apart by whether anything interfered with the pass since  *)
(* it started: a handler, a person in the task tool, or a fault.  A pass   *)
(* is level-triggered; undisturbed, it does all there is to do.            *)
(***************************************************************************)
EXTENDS Binding

VARIABLE quiet    \* history: nothing interfered with the pass since it started

quietVars == <<vars, quiet>>

QuietInit == Init /\ quiet = FALSE

Interferes == (Handlers \/ Others \/ People \/ Fault) /\ quiet' = FALSE

\* A refused pass settles nothing.
Proceeds ==
    /\ Reconcile
    /\ quiet' = \/ phase = "idle"
                \/ quiet /\ ~(phase = "observing" /\ phase' = "idle")

\* The objectives' step is the pass's own.
Gives == Give /\ UNCHANGED quiet

QuietNext == Interferes \/ Proceeds \/ Gives

QuietSpec == QuietInit /\ [][QuietNext]_quietVars

-----------------------------------------------------------------------------
\* A pass that ran to its end with nothing interfering leaves nothing to make,
\* link or capture: planned again at once, it is empty (16-sync section 8).
QuietPassSettles ==
    phase = "idle" /\ quiet =>
       \A p \in [Initiatives -> Tasks \cup {None}] :
          IsPending(p) => Plan(row, p, BoundElsewhere, task) = {}

\* Why: the reads of a quiet pass agree with each other and with the database,
\* each initiative has one operation at most, and what there is to do is in the
\* plan or in hand.
CreateDue(i) ==
    /\ Unbound(i) = {}
    /\ row[i].status = "active"
    /\ MayCreateExternally(row[i])
    /\ i \notin Homeless

AdoptDue(i, t) ==
    /\ Exists(i) /\ row[i].anchor = None
    /\ t \in Unbound(i) /\ \A u \in Unbound(i) : t <= u
    /\ t \notin BoundElsewhere \cup BoundIds(row)
    /\ Live(t)

CaptureDue(t) ==
    /\ task[t] = "labelled"
    /\ t \notin BoundElsewhere \cup BoundIds(row) \cup Unmapped

DueIsPlanned ==
    /\ \A i \in Initiatives : CreateDue(i) =>
          \/ [kind |-> "create", who |-> i, task |-> None] \in todo
          \/ cur.kind = "create" /\ cur.who = i
    /\ \A i \in Initiatives, t \in Tasks : AdoptDue(i, t) =>
          [kind |-> "adopt", who |-> i, task |-> t] \in todo
    /\ \A t \in Tasks : CaptureDue(t) =>
          \/ [kind |-> "capture", who |-> None, task |-> t] \in todo
          \/ cur # NoOp /\ cur.task = t

AnchorsOne(op) == op.kind \in {"create", "adopt"}

OneOperationEach ==
    /\ \A op \in todo : AnchorsOne(op) =>
          /\ row[op.who].anchor = None
          /\ \A o \in todo : AnchorsOne(o) /\ o.who = op.who => o = op
    /\ cur # NoOp =>
          /\ row[cur.who].anchor = None
          /\ \A op \in todo : AnchorsOne(op) => op.who # cur.who

QuietInv ==
    quiet =>
       /\ phase \in {"pending", "elsewhere", "observing"} => seen = row
       /\ phase \in {"elsewhere", "observing"} => IsPending(pend)
       /\ phase = "observing" => taken = BoundElsewhere
       /\ phase \in {"applying", "idle"} => DueIsPlanned /\ OneOperationEach

\* A link is of a row that exists and of a task that was made, and what does not
\* exist has no anchor.
LinksStand ==
    /\ \A i \in Initiatives : ~Exists(i) => row[i].anchor = None
    /\ \A i \in Initiatives, t \in Tasks :
          <<i, t>> \in links => Exists(i) /\ task[t] # "unborn"

=============================================================================
