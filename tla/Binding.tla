------------------------------- MODULE Binding -------------------------------
(***************************************************************************)
(* Which task anchors which initiative, and who may make one.              *)
(*                                                                         *)
(* The database (initiative rows, entity_external_ref, entity_link), the   *)
(* task tool, the API's handlers and one reconciler pass, which reads the  *)
(* database in four separate statements, then the task tool, plans, and    *)
(* carries the plan out one operation at a time.  Handlers and the people  *)
(* in the task tool act between any two of those steps.                    *)
(*                                                                         *)
(* One pass at a time: AdvisoryLock says when that holds.  The fields of a *)
(* bound task (title, labels, priority, ...) are AnchorSync's; here a      *)
(* label is restored, as by hand, by Label.                                *)
(***************************************************************************)
EXTENDS Naturals, FiniteSets

CONSTANTS
    Initiatives,      \* the initiative rows that can ever exist
    Tasks,            \* the external ids of tasks, ordered as the queries order them
    None,             \* no task, no holder
    Homeless,         \* initiatives whose area and project map to no location
    Unmapped,         \* tasks in a project that maps to no area
    CreateThreshold,  \* SYNC_CREATE_THRESHOLD
    WriteEnabled      \* SYNC_WRITE_ENABLED

ASSUME IdentitiesAssumption ==
    /\ Tasks \subseteq Nat
    /\ None \notin Tasks
    /\ None \notin Initiatives
    /\ Initiatives \cap {"goal", "ritual", "capture"} = {}
    /\ None \notin {"goal", "ritual", "capture"}

ASSUME RowsAssumption == IsFiniteSet(Initiatives)

ASSUME SettingsAssumption ==
    /\ Homeless \subseteq Initiatives
    /\ Unmapped \subseteq Tasks
    /\ CreateThreshold \in Nat
    /\ WriteEnabled \in BOOLEAN

VARIABLES
    row,      \* initiative: origin, status class and external_anchor_id
    holder,   \* entity_external_ref: the one entity that holds each task
    links,    \* entity_link: the decided (initiative, task) pairs
    task,     \* the task tool: what each task is
    phase,    \* how far the pass has come
    seen,     \* the initiative rows as loadDesired read them
    pend,     \* each initiative's pending link, as it read them
    taken,    \* the tasks other entities held, as it read them
    todo,     \* the planned operations not begun yet
    cur,      \* the operation whose outward half is done and inward half is not
    made,     \* history: the initiative the reconciler made a task for
    lost,     \* history: tasks made whose answer or binding was lost
    released, \* history: tasks a person or an objective took from their initiative
    batch     \* history: tasks made by the current pass

dbVars == <<row, holder, links>>
passVars == <<phase, seen, pend, taken, todo, cur, batch>>
history == <<made, lost, released>>
vars == <<row, holder, links, task, phase, seen, pend, taken, todo, cur,
          made, lost, released, batch>>

-----------------------------------------------------------------------------
(* inbox, later / next, now, waiting / review / done, dropped *)
Statuses == {"parked", "active", "review", "closed"}
Origins == {"absent", "created_in_prisme", "adopted"}
OtherKinds == {"goal", "ritual", "capture"}   \* goal: an objective or a key result
TaskStates == {"unborn", "plain", "labelled", "completed", "gone"}

Row == [origin : Origins, status : Statuses, anchor : Tasks \cup {None}]
PlannedOp ==
    [kind : {"create"}, who : Initiatives, task : {None}]
      \cup [kind : {"adopt"}, who : Initiatives, task : Tasks]
      \cup [kind : {"capture"}, who : {None}, task : Tasks]
BegunOp == [kind : {"create", "capture"}, who : Initiatives, task : Tasks]
NoOp == [kind |-> "none", who |-> None, task |-> None]
NewRow(o, t) == [origin |-> o, status |-> "parked", anchor |-> t]
AbsentRow == NewRow("absent", None)

Exists(i) == row[i].origin # "absent"
Live(t) == task[t] \notin {"unborn", "gone"}
Unlinked == [i \in Initiatives |-> AbsentRow]

TypeOK ==
    /\ row \in [Initiatives -> Row]
    /\ holder \in [Tasks -> Initiatives \cup OtherKinds \cup {None}]
    /\ links \subseteq Initiatives \X Tasks
    /\ task \in [Tasks -> TaskStates]
    /\ phase \in {"idle", "giving", "pending", "elsewhere", "observing", "applying"}
    /\ seen \in [Initiatives -> Row]
    /\ pend \in [Initiatives -> Tasks \cup {None}]
    /\ taken \subseteq Tasks
    /\ todo \subseteq PlannedOp
    /\ cur \in BegunOp \cup {NoOp}
    /\ made \in [Tasks -> Initiatives \cup {None}]
    /\ lost \subseteq Tasks
    /\ released \subseteq Tasks
    /\ batch \subseteq Tasks

Init ==
    /\ row = Unlinked
    /\ holder = [t \in Tasks |-> None]
    /\ links = {}
    /\ task = [t \in Tasks |-> "unborn"]
    /\ phase = "idle"
    /\ seen = Unlinked
    /\ pend = [i \in Initiatives |-> None]
    /\ taken = {}
    /\ todo = {}
    /\ cur = NoOp
    /\ made = [t \in Tasks |-> None]
    /\ lost = {}
    /\ released = {}
    /\ batch = {}

-----------------------------------------------------------------------------
(* The API's handlers.  Each is one transaction. *)

CreateInitiative(i) ==
    /\ ~Exists(i)
    /\ row' = [row EXCEPT ![i] = NewRow("created_in_prisme", None)]
    /\ UNCHANGED <<holder, links, task, passVars, history>>

\* Any status to any other, from the API or from the pass's own set_status.
SetStatus(i, s) ==
    /\ Exists(i)
    /\ row' = [row EXCEPT ![i].status = s]
    /\ UNCHANGED <<holder, links, task, passVars, history>>

\* Mutation of InsertAdopted: the pair is written the wrong way round.
InsertSwapped(i, t) ==
    /\ ~Exists(i)
    /\ row' = [row EXCEPT ![i] = NewRow("adopted", None)]
    /\ links' = links \cup {<<t, i>>}
    /\ UNCHANGED <<holder, task, passVars, history>>

InsertAdopted(i, t) ==
    /\ ~Exists(i)
    /\ row' = [row EXCEPT ![i] = NewRow("adopted", None)]
    /\ links' = links \cup {<<i, t>>}
    /\ UNCHANGED <<holder, task, passVars, history>>

\* Nothing asks whether the candidate is linked already.
AdoptCandidate(i, t) == task[t] # "unborn" /\ InsertAdopted(i, t)

AdoptInboxTask(i, t) ==
    /\ Live(t)
    /\ holder[t] = None
    /\ \A j \in Initiatives : <<j, t>> \notin links
    /\ InsertAdopted(i, t)

\* Merge: the candidate is linked to an initiative that exists.
DecideAdoption(i, t) ==
    /\ Exists(i)
    /\ task[t] # "unborn"
    /\ links' = links \cup {<<i, t>>}
    /\ UNCHANGED <<row, holder, task, passVars, history>>

Unbound(i) == {t \in Tasks : <<i, t>> \in links /\ holder[t] # i}

\* The task moves to a goal with the initiative's own reference deleted first;
\* a reference somebody else holds makes the insert, and the whole, fail.
MoveToGoal(i) ==
    LET t == row[i].anchor IN
    /\ row' = [row EXCEPT ![i] =
                  [origin |-> row[i].origin, status |-> "closed", anchor |-> None]]
    /\ IF t = None
       THEN UNCHANGED <<holder, released>>
       ELSE /\ holder[t] \in {i, None}
            /\ holder' = [holder EXCEPT ![t] = "goal"]
            /\ released' = released \cup {t}
    /\ UNCHANGED <<links, task, made, lost>>

ConvertToKeyResult(i) ==
    /\ Exists(i)
    /\ row[i].status \in {"parked", "active"}
    /\ Unbound(i) = {}
    /\ MoveToGoal(i)
    /\ UNCHANGED passVars

\* The one bind that lets guard 1 raise.  The initiative may hold an anchor.
LinkExternal(i, t) ==
    /\ Exists(i)
    /\ task[t] # "unborn"
    /\ holder[t] = None
    /\ holder' = [holder EXCEPT ![t] = i]
    /\ released' = IF row[i].anchor \in Tasks \ {t}
                   THEN released \cup {row[i].anchor} ELSE released
    /\ row' = [row EXCEPT ![i].anchor = t]
    /\ links' = links \cup {<<i, t>>}
    /\ UNCHANGED <<task, passVars, made, lost>>

\* A key result's binding, a ritual's tie, a capture's task.
BindOther(k, t) ==
    /\ task[t] # "unborn"
    /\ holder[t] = None
    /\ holder' = [holder EXCEPT ![t] = k]
    /\ UNCHANGED <<row, links, task, passVars, history>>

UntieRitual(t) ==
    /\ holder[t] = "ritual"
    /\ holder' = [holder EXCEPT ![t] = None]
    /\ UNCHANGED <<row, links, task, passVars, history>>

PromoteCapture(i, t) ==
    /\ ~Exists(i)
    /\ holder[t] = "capture"
    /\ row' = [row EXCEPT ![i] = NewRow("created_in_prisme", t)]
    /\ holder' = [holder EXCEPT ![t] = i]
    /\ UNCHANGED <<links, task, passVars, history>>

(* People in the task tool. *)
SetTask(t, from, to) ==
    /\ task[t] \in from
    /\ task' = [task EXCEPT ![t] = to]
    /\ UNCHANGED <<dbVars, passVars, history>>

AddTask(t) == SetTask(t, {"unborn"}, "plain")
Label(t) == SetTask(t, {"plain"}, "labelled")
Unlabel(t) == SetTask(t, {"labelled"}, "plain")
CompleteTask(t) == SetTask(t, {"plain", "labelled"}, "completed")
DeleteTask(t) == SetTask(t, {"plain", "labelled", "completed"}, "gone")

-----------------------------------------------------------------------------
(* The pass: the reads. *)

Reset ==
    /\ phase' = "idle"
    /\ seen' = Unlinked
    /\ pend' = [i \in Initiatives |-> None]
    /\ taken' = {}
    /\ todo' = {}
    /\ cur' = NoOp
    /\ batch' = {}

StartPass ==
    /\ phase = "idle"
    /\ phase' = "giving"
    /\ UNCHANGED <<dbVars, task, seen, pend, taken, todo, cur, batch, history>>

\* An initiative whose title is an open objective's.  Which, is left open.
GiveTaskToObjective(i) ==
    /\ phase = "giving"
    /\ row[i].anchor # None
    /\ row[i].status # "closed"
    /\ MoveToGoal(i)
    /\ UNCHANGED passVars

LoadInitiatives ==
    /\ phase = "giving"
    /\ phase' = "pending"
    /\ seen' = row
    /\ UNCHANGED <<dbVars, task, pend, taken, todo, cur, batch, history>>

\* Each initiative's first link, by external id, with no reference of its own.
IsPending(p) ==
    \A i \in Initiatives :
       IF Unbound(i) = {} THEN p[i] = None
       ELSE p[i] \in Unbound(i) /\ \A t \in Unbound(i) : p[i] <= t

LoadPending ==
    /\ phase = "pending"
    /\ phase' = "elsewhere"
    /\ pend' \in {p \in [Initiatives -> Tasks \cup {None}] : IsPending(p)}
    /\ UNCHANGED <<dbVars, task, seen, taken, todo, cur, batch, history>>

BoundElsewhere == {t \in Tasks : holder[t] \in OtherKinds}

LoadElsewhere ==
    /\ phase = "elsewhere"
    /\ phase' = "observing"
    /\ taken' = BoundElsewhere
    /\ UNCHANGED <<dbVars, task, seen, pend, todo, cur, batch, history>>

-----------------------------------------------------------------------------
(* The plan. *)

BoundIds(s) == {s[i].anchor : i \in Initiatives} \ {None}

\* Mutation of MayCreateExternally: guard 2 without the provenance.
MayCreateUnreferenced(r) == r.origin # "absent" /\ r.anchor = None

MayCreateExternally(r) == r.origin = "created_in_prisme" /\ r.anchor = None

\* planUnlinked's one creating branch.  An initiative the read did not return
\* is an absent row, whose origin is neither.
Creates(s, p) ==
    {[kind |-> "create", who |-> i, task |-> None] :
        i \in {i \in Initiatives : /\ p[i] = None
                                   /\ s[i].status = "active"
                                   /\ MayCreateExternally(s[i])
                                   /\ i \notin Homeless}}

\* Mutations of AdoptablePending: guard 1 left to the database; and the status
\* asked about before the link.
AdoptableIfReferenced(s, p, k, i) ==
    /\ s[i].origin # "absent"
    /\ s[i].anchor = None
    /\ p[i] # None
    /\ p[i] \notin k

AdoptableIfActive(s, p, k, i) ==
    /\ s[i].origin # "absent"
    /\ s[i].status = "active"
    /\ s[i].anchor = None
    /\ p[i] # None
    /\ p[i] \notin k
    /\ p[i] \notin BoundIds(s)

AdoptablePending(s, p, k, i) ==
    /\ s[i].origin # "absent"
    /\ s[i].anchor = None
    /\ p[i] # None
    /\ p[i] \notin k
    /\ p[i] \notin BoundIds(s)

Adopts(s, p, k, tool) ==
    {[kind |-> "adopt", who |-> i, task |-> p[i]] :
        i \in {i \in Initiatives : /\ AdoptablePending(s, p, k, i)
                                   /\ tool[p[i]] \notin {"unborn", "gone"}}}

\* Mutation of Captures: the labels of bound anchors read as requests.
CapturesOfAllLabels(s, k, tool) ==
    {[kind |-> "capture", who |-> None, task |-> t] :
        t \in {t \in Tasks : /\ tool[t] = "labelled"
                             /\ t \notin k
                             /\ t \notin Unmapped}}

\* planIntentChannel.
Captures(s, k, tool) ==
    {[kind |-> "capture", who |-> None, task |-> t] :
        t \in {t \in Tasks : /\ tool[t] = "labelled"
                             /\ t \notin BoundIds(s)
                             /\ t \notin k
                             /\ t \notin Unmapped}}

Plan(s, p, k, tool) == Creates(s, p) \cup Adopts(s, p, k, tool) \cup Captures(s, k, tool)

\* Mutations of Refused: off by one, either way.
RefusedOneLate(ops) ==
    \/ Cardinality({o \in ops : o.kind = "create"}) > CreateThreshold + 1
    \/ ~WriteEnabled

RefusedOneEarly(ops) ==
    \/ Cardinality({o \in ops : o.kind = "create"}) >= CreateThreshold
    \/ ~WriteEnabled

\* More creates than the threshold, or the freeze, and nothing is carried out.
Refused(ops) ==
    \/ Cardinality({o \in ops : o.kind = "create"}) > CreateThreshold
    \/ ~WriteEnabled

ObserveAndPlan ==
    /\ phase = "observing"
    /\ LET ops == Plan(seen, pend, taken, task) IN
       IF Refused(ops)
       THEN Reset
       ELSE /\ phase' = "applying"
            /\ todo' = ops
            /\ UNCHANGED <<seen, pend, taken, cur, batch>>
    /\ UNCHANGED <<dbVars, task, history>>

-----------------------------------------------------------------------------
(* The apply: anchors before the intent channel's tasks. *)

Ready(op) ==
    /\ phase = "applying"
    /\ cur = NoOp
    /\ op \in todo
    /\ op.kind = "capture" => \A o \in todo : o.kind = "capture"

Begin(op) == todo' = todo \ {op}

\* createTask reached the tool, which made the task.
MakeTask(i, t) ==
    /\ task[t] = "unborn"
    /\ task' = [task EXCEPT ![t] = "labelled"]
    /\ made' = [made EXCEPT ![t] = i]
    /\ batch' = batch \cup {t}

CreateTask(op, t) ==
    /\ Ready(op)
    /\ op.kind = "create"
    /\ MakeTask(op.who, t)
    /\ Begin(op)
    /\ cur' = [kind |-> "create", who |-> op.who, task |-> t]
    /\ UNCHANGED <<dbVars, phase, seen, pend, taken, lost, released>>

\* ... and the answer never came back: a failure, and the next action.
CreateAnswerLost(op, t) ==
    /\ Ready(op)
    /\ op.kind = "create"
    /\ MakeTask(op.who, t)
    /\ Begin(op)
    /\ lost' = lost \cup {t}
    /\ UNCHANGED <<dbVars, phase, seen, pend, taken, cur, released>>

CreateRefused(op) ==
    /\ Ready(op)
    /\ op.kind = "create"
    /\ Begin(op)
    /\ UNCHANGED <<dbVars, task, phase, seen, pend, taken, cur, batch, history>>

\* Mutation of Bind: a reference somebody holds skips the anchor as well.
BindIfFree(i, t, linked) ==
    /\ holder' = IF holder[t] = None THEN [holder EXCEPT ![t] = i] ELSE holder
    /\ row' = IF holder[t] = None THEN [row EXCEPT ![i].anchor = t] ELSE row
    /\ links' = IF linked THEN links \cup {<<i, t>>} ELSE links

\* bindExternalRef: a reference held by anybody is left as it is, silently.
Bind(i, t, linked) ==
    /\ holder' = IF holder[t] = None THEN [holder EXCEPT ![t] = i] ELSE holder
    /\ row' = [row EXCEPT ![i].anchor = t]
    /\ links' = IF linked THEN links \cup {<<i, t>>} ELSE links

BindCreated ==
    /\ cur.kind = "create"
    /\ Bind(cur.who, cur.task, FALSE)
    /\ cur' = NoOp
    /\ UNCHANGED <<task, phase, seen, pend, taken, todo, batch, history>>

BindAdopted(op) ==
    /\ Ready(op)
    /\ op.kind = "adopt"
    /\ Begin(op)
    /\ Bind(op.who, op.task, TRUE)
    /\ UNCHANGED <<task, phase, seen, pend, taken, cur, batch, history>>

\* captureInitiative: the row, in a transaction of its own.
CaptureInitiative(op, i) ==
    /\ Ready(op)
    /\ op.kind = "capture"
    /\ ~Exists(i)
    /\ row' = [row EXCEPT ![i] = NewRow("adopted", None)]
    /\ Begin(op)
    /\ cur' = [kind |-> "capture", who |-> i, task |-> op.task]
    /\ UNCHANGED <<holder, links, task, phase, seen, pend, taken, batch, history>>

BindCaptured ==
    /\ cur.kind = "capture"
    /\ Bind(cur.who, cur.task, TRUE)
    /\ cur' = NoOp
    /\ UNCHANGED <<task, phase, seen, pend, taken, todo, batch, history>>

\* A database error fails the action, not the pass.
BindFails ==
    /\ cur # NoOp
    /\ cur' = NoOp
    /\ lost' = IF cur.kind = "create" THEN lost \cup {cur.task} ELSE lost
    /\ UNCHANGED <<dbVars, task, phase, seen, pend, taken, todo, batch, made, released>>

ActionFails(op) ==
    /\ Ready(op)
    /\ op.kind # "create"
    /\ Begin(op)
    /\ UNCHANGED <<dbVars, task, phase, seen, pend, taken, cur, batch, history>>

FinishPass ==
    /\ phase = "applying"
    /\ todo = {}
    /\ cur = NoOp
    /\ Reset
    /\ UNCHANGED <<dbVars, task, history>>

\* A rejected credential ends the pass at a create.
StopPass ==
    /\ \E op \in todo : Ready(op) /\ op.kind = "create"
    /\ Reset
    /\ UNCHANGED <<dbVars, task, history>>

\* The process dies, or an error leaves reconcile() before or during the reads.
Crash ==
    /\ phase # "idle"
    /\ lost' = IF cur.kind = "create" THEN lost \cup {cur.task} ELSE lost
    /\ Reset
    /\ UNCHANGED <<dbVars, task, made, released>>

-----------------------------------------------------------------------------
Handlers ==
    \E i \in Initiatives :
       \/ CreateInitiative(i)
       \/ \E s \in Statuses : SetStatus(i, s)
       \/ ConvertToKeyResult(i)
       \/ \E t \in Tasks : \/ AdoptCandidate(i, t)
                           \/ AdoptInboxTask(i, t)
                           \/ DecideAdoption(i, t)
                           \/ LinkExternal(i, t)
                           \/ PromoteCapture(i, t)

Others ==
    \E t \in Tasks :
       \/ \E k \in OtherKinds : BindOther(k, t)
       \/ UntieRitual(t)

People ==
    \E t \in Tasks :
       \/ AddTask(t)
       \/ Label(t)
       \/ Unlabel(t)
       \/ CompleteTask(t)
       \/ DeleteTask(t)

Read ==
    \/ LoadInitiatives
    \/ LoadPending
    \/ LoadElsewhere
    \/ ObserveAndPlan

Write ==
    \/ \E op \in todo : \E t \in Tasks : CreateTask(op, t)
    \/ BindCreated
    \/ \E op \in todo : BindAdopted(op)
    \/ \E op \in todo : \E i \in Initiatives : CaptureInitiative(op, i)
    \/ BindCaptured

Fault ==
    \/ \E op \in todo : \E t \in Tasks : CreateAnswerLost(op, t)
    \/ \E op \in todo : CreateRefused(op) \/ ActionFails(op)
    \/ BindFails
    \/ StopPass
    \/ Crash

Give == \E i \in Initiatives : GiveTaskToObjective(i)

Reconcile == StartPass \/ Read \/ Write \/ FinishPass

Next == Handlers \/ Others \/ People \/ Give \/ Reconcile \/ Fault

Spec == Init /\ [][Next]_vars

-----------------------------------------------------------------------------
(* What the binding promises. *)

InFlight(t) == cur.kind = "create" /\ cur.task = t
Firm(t) == made[t] # None /\ t \notin lost /\ t \notin released

\* A task the reconciler made for an initiative is that initiative's anchor,
\* unless its answer or its binding was lost, a person linked the initiative to
\* another task, or a goal took it.  So no initiative has two such tasks: what
\* "the next pass would repeat it" can cost is one task for each lost answer.
MadeIsAnchor ==
    \A t \in Tasks : Firm(t) /\ ~InFlight(t) => row[made[t]].anchor = t

\* Why: what the read found unanchored had no such task, and until its create is
\* carried out nothing makes it one.
NoFirmTask(i) == \A t \in Tasks : made[t] = i => ~Firm(t)

MakersExist ==
    /\ \A t \in Tasks : made[t] # None => Exists(made[t])
    /\ \A i \in Initiatives : seen[i].origin # "absent" => Exists(i)

PassIsOrdered ==
    /\ phase # "applying" => todo = {} /\ cur = NoOp
    /\ cur.kind = "capture" => \A op \in todo : op.kind = "capture"

UnanchoredHasNoTask ==
    phase \in {"pending", "elsewhere", "observing"} =>
       \A i \in Initiatives : seen[i].anchor = None => NoFirmTask(i)

PlannedHasNoTask ==
    \A op \in todo :
       /\ op.kind = "create" => /\ pend[op.who] = None
                                /\ Exists(op.who)
                                /\ NoFirmTask(op.who)
       /\ op.kind = "adopt" => /\ pend[op.who] # None
                               /\ Exists(op.who)
                               /\ NoFirmTask(op.who)

BegunHasOneTask ==
    /\ cur.kind = "create" =>
          /\ pend[cur.who] = None
          /\ made[cur.task] = cur.who
          /\ \A t \in Tasks : made[t] = cur.who /\ Firm(t) => t = cur.task
          /\ \A op \in todo : op.kind = "create" => op.who # cur.who
    /\ cur.kind = "capture" => Exists(cur.who) /\ NoFirmTask(cur.who)

BindingInv ==
    /\ TypeOK
    /\ MadeIsAnchor
    /\ MakersExist
    /\ PassIsOrdered
    /\ UnanchoredHasNoTask
    /\ PlannedHasNoTask
    /\ BegunHasOneTask

\* Guard 2.  A task is only ever made for an initiative created in prisme that
\* the read found with neither a reference nor a decided link: linking or
\* capturing existing work makes nothing, whatever interleaves with the pass.
AdoptedMakesNothing ==
    [][\A t \in Tasks : made'[t] # made[t] =>
          /\ made[t] = None
          /\ row[made'[t]].origin = "created_in_prisme"
          /\ seen[made'[t]].anchor = None
          /\ pend[made'[t]] = None]_vars

\* Guard 1, as far as the plan can keep it.  The pass anchors an initiative to
\* a task only if the read showed that task bound to nobody: two entities come
\* to share a task only through a change made after the read, or two decisions
\* carried out in one pass.
NoStealFromTheRead ==
    [][\A i \in Initiatives :
          (cur' # cur \/ todo' # todo) /\ row'[i].anchor \notin {row[i].anchor, None} =>
             /\ row'[i].anchor \notin BoundIds(seen)
             /\ row'[i].anchor \notin taken]_vars

\* Why both guards hold to the letter of the read: what the pass acts on is what
\* the read showed, and a task that is not made yet is nobody's.
Born(t) == t # None => task[t] # "unborn"

NobodyHasTheUnborn ==
    /\ \A i \in Initiatives : Born(row[i].anchor) /\ Born(seen[i].anchor)
    /\ \A t \in Tasks : holder[t] # None \/ made[t] # None \/ t \in taken => Born(t)

OriginsAreFixed ==
    \A i \in Initiatives : seen[i].origin # "absent" => row[i].origin = seen[i].origin

PlannedFromTheRead ==
    \A op \in todo :
       /\ op.kind = "create" => /\ seen[op.who].origin = "created_in_prisme"
                                /\ seen[op.who].anchor = None
                                /\ pend[op.who] = None
       /\ op.kind # "create" => /\ Born(op.task)
                                /\ op.task \notin BoundIds(seen)
                                /\ op.task \notin taken

BegunFromTheRead ==
    cur # NoOp => /\ Born(cur.task)
                  /\ cur.task \notin BoundIds(seen)
                  /\ cur.task \notin taken

GuardsInv ==
    /\ TypeOK
    /\ NobodyHasTheUnborn
    /\ OriginsAreFixed
    /\ PlannedFromTheRead
    /\ BegunFromTheRead

\* Guard 3.  One pass makes no more tasks than the threshold, failures and lost
\* answers included.
CreatesWithinThreshold == Cardinality(batch) <= CreateThreshold

\* Why: what was planned fits, and each attempt takes one from what is left.
CreatesLeft == {op \in todo : op.kind = "create"}

BudgetInv ==
    /\ IsFiniteSet(CreatesLeft) /\ IsFiniteSet(batch)
    /\ Cardinality(batch) + Cardinality(CreatesLeft) <= CreateThreshold
    /\ phase # "applying" => todo = {} /\ batch = {}

=============================================================================
