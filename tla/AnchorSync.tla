------------------------------ MODULE AnchorSync -----------------------------
(***************************************************************************)
(* One initiative and the task that anchors it, kept alike.                *)
(*                                                                         *)
(* prisme owns the anchor's fields, its own label and its place, and       *)
(* restores them; it propagates one field, the priority, to the subtasks;  *)
(* and it takes completions and status requests from the task tool.  A     *)
(* pass reads the database, then the tool, plans every action from that    *)
(* one snapshot, and carries them out one call at a time, while the API    *)
(* and the people in the tool go on changing things.  Binding says how an  *)
(* initiative comes by its anchor.                                         *)
(*                                                                         *)
(* Scalars stands for the fields that are compared and written as they     *)
(* are (title, deadline, description); a value is whatever prisme would    *)
(* write there.  "review" stands for review, done and dropped, which the   *)
(* planner treats alike.                                                   *)
(***************************************************************************)
EXTENDS Naturals, FiniteSets

CONSTANTS
    Scalars,    \* the fields of the anchor without a rule of their own
    Values,     \* what a scalar or a priority may be
    Lowest,     \* the priority nobody chose
    Places,     \* projects and sections of the task tool
    AreaOf,     \* the area each place is mapped to
    Claimed,    \* the places that belong to a prisme project, not to an area
    Children,   \* the anchor's subtasks
    Requests,   \* the statuses that people ask for with a label
    None        \* never written, nothing

Statuses == {"later", "now", "review"}
Labels == {"prisme", "other"} \cup Requests
Owned == Scalars \cup {"priority", "location", "label"}
Fields == Owned \cup Children     \* a child stands for its own priority
Wanted == Owned \ {"label"}

ASSUME FieldsAssumption ==
    /\ Scalars \cap {"priority", "location", "label"} = {}
    /\ Children \cap Owned = {}
    /\ Lowest \in Values
    /\ AreaOf \in [Places -> STRING]
    /\ Claimed \subseteq Places
    /\ Requests \subseteq Statuses
    /\ None \notin Values \cup Places \cup Statuses \cup {"present", "absent"}

VARIABLES
    want,      \* the initiative row: what prisme says of each field
    status,    \* its status
    tool,      \* the task: each field, and each subtask's priority
    completed, \* whether the anchor is ticked off, and which subtasks
    last,      \* last_applied
    phase,     \* how far the pass has come
    seen,      \* the initiative as the pass read it
    todo,      \* the planned actions not begun
    cur,       \* what is left of the action in hand
    ours,      \* history: every value the tool took from prisme, by field
    touched,   \* history: fields people changed since prisme last wrote them
    slipped,   \* history: fields whose last accepted write was never recorded
    at         \* history: what stood in the tool when the pass read it

initiative == <<want, status>>
task == <<tool, completed>>
pass == <<phase, seen, todo, cur, at>>
history == <<ours, touched, slipped>>
vars == <<want, status, tool, completed, last, phase, seen, todo, cur,
          ours, touched, slipped, at>>

DataOf(f) ==
    CASE f = "label" -> SUBSET Labels
      [] f = "location" -> Places
      [] OTHER -> Values

\* The stages of a plan, in the order planFields, planCompletion,
\* planStatusRequest and planSubtree push their actions.  The conflicts of one
\* anchor write different fields, so their own order is left open.
Stages == 1..6

NoAction == [stage |-> 0, status |-> None, patches |-> {}, record |-> <<>>,
             conflict |-> {}]
NoRead == [foreign |-> {}, hand |-> {}, touched |-> {}, slipped |-> {}]

\* An initiative in an area that is mapped nowhere has no location.
Wants == {w \in [Wanted -> Values \cup Places \cup {None}] :
             /\ \A f \in Wanted \ {"location"} : w[f] \in Values
             /\ w["location"] \in Places \cup {None}}
Tasks == {[f \in Fields |-> IF f = "label" THEN l ELSE v[f]] :
             l \in SUBSET Labels,
             v \in {v \in [Fields \ {"label"} -> Values \cup Places] :
                      \A f \in Fields \ {"label"} : v[f] \in DataOf(f)}}

IsPatch(p) ==
    /\ DOMAIN p \subseteq Fields
    /\ \A f \in DOMAIN p : p[f] \in DataOf(f)

IsAction(a) ==
    /\ DOMAIN a = {"stage", "status", "patches", "record", "conflict"}
    /\ a.stage \in Stages
    /\ a.status \in Statuses \cup {None}
    /\ \A p \in a.patches : IsPatch(p)
    /\ DOMAIN a.record \subseteq Fields
    /\ \A f \in DOMAIN a.record : a.record[f] \in Values \cup Places \cup {"present"}
    /\ a.conflict \subseteq Owned

Writes(a) == UNION {DOMAIN p : p \in a.patches}

TypeOK ==
    /\ want \in Wants
    /\ status \in Statuses
    /\ tool \in Tasks
    /\ completed \subseteq {"anchor"} \cup Children
    /\ last \in [Fields -> Values \cup Places \cup {"present", None}]
    /\ phase \in {"idle", "loaded", "applying"}
    /\ seen \in [want : Wants, status : Statuses]
    /\ \A a \in todo : IsAction(a)
    /\ cur = NoAction \/ IsAction(cur)
    /\ \A f \in Fields : ours[f] \subseteq DataOf(f)
    /\ touched \subseteq Fields
    /\ slipped \subseteq Fields


Init ==
    /\ want \in Wants
    /\ status \in Statuses
    /\ tool \in Tasks
    /\ completed = {}
    /\ \/ \* Adopted: the task is as its people left it, and nothing is recorded.
          /\ last = [f \in Fields |-> None]
          /\ ours = [f \in Fields |-> {}]
       \/ \* Made from a draft, which records all that it wrote but the place.
          /\ status = "now"
          /\ \A f \in Wanted : tool[f] = want[f]
          /\ tool["label"] = {"prisme"}
          /\ last = [f \in Fields |->
                        CASE f \in Scalars \cup {"priority"} -> want[f]
                          [] f = "label" -> "present"
                          [] OTHER -> None]
          /\ ours = [f \in Fields |-> IF f \in Owned THEN {tool[f]} ELSE {}]
    /\ phase = "idle"
    /\ seen = [want |-> want, status |-> status]
    /\ todo = {}
    /\ cur = NoAction
    /\ touched = {}
    /\ slipped = {}
    /\ at = NoRead

-----------------------------------------------------------------------------
(* The API and the people. *)

\* A rename, a new deadline, a move, or a change of rank, which sets priority.
EditWant(f, v) ==
    /\ want[f] # v
    /\ want' = [want EXCEPT ![f] = v]
    /\ want' \in Wants
    /\ UNCHANGED <<status, task, last, pass, history>>

Transition(s) ==
    /\ status # s
    /\ status' = s
    /\ UNCHANGED <<want, task, last, pass, history>>

EditTool(f, v) ==
    /\ tool[f] # v
    /\ tool' = [tool EXCEPT ![f] = v]
    /\ touched' = touched \cup {f}
    /\ UNCHANGED <<initiative, completed, last, pass, ours, slipped>>

AddLabel(l) == l \notin tool["label"] /\ EditTool("label", tool["label"] \cup {l})
RemoveLabel(l) == EditTool("label", tool["label"] \ {l})

Tick(x) ==
    /\ completed' = IF x \in completed THEN completed \ {x} ELSE completed \cup {x}
    /\ UNCHANGED <<initiative, tool, last, pass, history>>

-----------------------------------------------------------------------------
(* The plan: of the initiative as read, the task and last_applied. *)

Present(t) == IF "prisme" \in t["label"] THEN "present" ELSE "absent"

Observed(f, t) == IF f = "label" THEN Present(t) ELSE t[f]

\* An adopted task's priority is left alone until its initiative is taken up.
AssertsPriority(w, l) == w.status # "later" \/ l["priority"] # None

Desired(f, w, t, l) ==
    CASE f = "label" -> "present"
      [] f = "priority" /\ ~AssertsPriority(w, l) -> t[f]
      [] OTHER -> w.want[f]

\* Mutations of Classify: a field never written counted as edited; and
\* last_applied not asked.
ClassifyFirstAsEdit(desired, observed, recorded) ==
    CASE desired = observed -> "skip"
      [] desired # observed /\ recorded = observed -> "update"
      [] OTHER -> "conflict"

ClassifyUnasked(desired, observed, recorded) ==
    IF desired = observed THEN "skip" ELSE "update"

Classify(desired, observed, recorded) ==
    CASE desired = observed -> "skip"
      [] desired # observed /\ recorded \in {None, observed} -> "update"
      [] OTHER -> "conflict"

Verdict(f, w, t, l) == Classify(Desired(f, w, t, l), Observed(f, t), l[f])

Diffed == Scalars \cup {"priority", "label"}
WithVerdict(v, w, t, l) == {f \in Diffed : Verdict(f, w, t, l) = v}

\* What is sent for a field: all the labels, or the value.
Sent(f, w, t) == IF f = "label" THEN t[f] \cup {"prisme"} ELSE w.want[f]

Write(stage, F, w, t, l, conflict) ==
    [stage |-> stage, status |-> None,
     patches |-> {[f \in F |-> Sent(f, w, t)]},
     record |-> [f \in F |-> Desired(f, w, t, l)],
     conflict |-> conflict]

FieldActions(w, t, l) ==
    {Write(1, {f}, w, t, l, {f}) : f \in WithVerdict("conflict", w, t, l)}
      \cup LET F == WithVerdict("update", w, t, l) IN
           IF F = {} THEN {} ELSE {Write(2, F, w, t, l, {})}

\* Mutation of Misplaced: an initiative without a location is moved as well.
MisplacedAnywhere(w, t) ==
    LET home == w.want["location"] here == t["location"] IN
    /\ here # home
    /\ home \in Claimed \cup {None} \/ AreaOf[here] # AreaOf[home]

\* A place in a project is enforced; in an area, any place of the area will do.
Misplaced(w, t) ==
    LET home == w.want["location"] here == t["location"] IN
    /\ home # None
    /\ here # home
    /\ home \in Claimed \/ AreaOf[here] # AreaOf[home]

LocationActions(w, t, l) ==
    IF Misplaced(w, t)
    THEN {Write(3, {"location"}, w, t, l,
                IF Verdict("location", w, t, l) = "conflict"
                THEN {"location"} ELSE {})}
    ELSE {}

ToStatus(stage, s, patches) ==
    [stage |-> stage, status |-> s, patches |-> patches, record |-> <<>>,
     conflict |-> {}]

CompletionActions(w, c) ==
    IF "anchor" \in c /\ w.status # "review"
    THEN {ToStatus(4, "review", {})} ELSE {}

\* r: the request the tool lists first, or None.
IsAsked(r, t) ==
    LET asked == Requests \cap t["label"] IN
    IF asked = {} THEN r = None ELSE r \in asked

\* Mutation of RequestActions: nothing to do when the status is there already.
RequestActionsIfNew(w, t, r) ==
    IF r \in {None, w.status} THEN {}
    ELSE {ToStatus(5, r, {[f \in {"label"} |-> t["label"] \ {r}]})}

RequestActions(w, t, r) ==
    IF r = None THEN {}
    ELSE {ToStatus(5, IF r = w.status THEN None ELSE r,
                   {[f \in {"label"} |-> t["label"] \ {r}]})}

\* Mutation of MayPropagate: what prisme never wrote is free to take.
MayPropagateFirst(c, t, l) == l[c] \in {None, t[c]}

\* A priority set by hand is nobody's but the hand's.
MayPropagate(c, t, l) ==
    IF l[c] = None THEN t[c] = Lowest ELSE t[c] = l[c]

Inherits(w, t, c, l) ==
    {x \in Children : /\ t[x] # w.want["priority"]
                      /\ x \notin c
                      /\ MayPropagate(x, t, l)}

SubtreeActions(w, t, c, l) ==
    LET F == Inherits(w, t, c, l) p == w.want["priority"] IN
    IF F = {} THEN {}
    ELSE {[stage |-> 6, status |-> None,
           patches |-> {[x \in {y} |-> p] : y \in F},
           record |-> [x \in F |-> p],
           conflict |-> {}]}

Plan(w, t, c, l, r) ==
    FieldActions(w, t, l) \cup LocationActions(w, t, l)
      \cup CompletionActions(w, c) \cup RequestActions(w, t, r)
      \cup SubtreeActions(w, t, c, l)

-----------------------------------------------------------------------------
(* The pass. *)

\* loadDesired and loadLastApplied.  Only a pass writes last_applied.
StartPass ==
    /\ phase = "idle"
    /\ phase' = "loaded"
    /\ seen' = [want |-> want, status |-> status]
    /\ UNCHANGED <<initiative, task, last, todo, cur, at, history>>

ObserveAndPlan ==
    /\ phase = "loaded"
    /\ phase' = "applying"
    /\ \E r \in Requests \cup {None} :
          /\ IsAsked(r, tool)
          /\ todo' = Plan(seen, tool, completed, last, r)
    /\ at' = [foreign |-> {f \in Owned : tool[f] \notin ours[f]},
              hand |-> {c \in Children : tool[c] \notin ours[c] \cup {Lowest}},
              touched |-> touched,
              slipped |-> slipped]
    /\ UNCHANGED <<initiative, task, last, seen, cur, history>>

Begin(a) ==
    /\ cur = NoAction
    /\ \A b \in todo : a.stage <= b.stage
    /\ cur' = a
    /\ todo' = todo \ {a}
    /\ UNCHANGED <<initiative, task, last, phase, seen, at, history>>

\* No handler asks whether the status is still the one the plan was made from.
ApplyStatus ==
    /\ cur.status # None
    /\ status' = cur.status
    /\ cur' = [cur EXCEPT !.status = None]
    /\ UNCHANGED <<want, task, last, phase, seen, todo, at, history>>

\* The tool takes patch p: update_task, or move_task for the location.
Accept(p) ==
    /\ cur.status = None
    /\ tool' = [f \in Fields |-> IF f \in DOMAIN p THEN p[f] ELSE tool[f]]
    /\ ours' = [f \in Fields |->
                  IF f \in DOMAIN p THEN ours[f] \cup {p[f]} ELSE ours[f]]
    /\ touched' = touched \ DOMAIN p
    /\ UNCHANGED <<initiative, completed>>

SendPatch(p) ==
    /\ Accept(p)
    /\ cur' = [cur EXCEPT !.patches = @ \ {p}]
    /\ UNCHANGED <<last, phase, seen, todo, at, slipped>>

\* Mutation of Record: the bookkeeping does not wait for the write.
RecordFirst(f) ==
    /\ last' = [last EXCEPT ![f] = cur.record[f]]
    /\ cur' = [cur EXCEPT !.record =
                  [g \in DOMAIN cur.record \ {f} |-> cur.record[g]]]
    /\ slipped' = slipped \ {f}
    /\ UNCHANGED <<initiative, task, phase, seen, todo, at, ours, touched>>

\* recordLastApplied: one statement for each field, after every operation.
Record(f) ==
    /\ cur.status = None /\ cur.patches = {}
    /\ last' = [last EXCEPT ![f] = cur.record[f]]
    /\ cur' = [cur EXCEPT !.record =
                  [g \in DOMAIN cur.record \ {f} |-> cur.record[g]]]
    /\ slipped' = slipped \ {f}
    /\ UNCHANGED <<initiative, task, phase, seen, todo, at, ours, touched>>

\* recordConflict, when there is one, and the event.
FinishAction ==
    /\ cur # NoAction
    /\ cur.status = None /\ cur.patches = {} /\ DOMAIN cur.record = {}
    /\ cur' = NoAction
    /\ UNCHANGED <<initiative, task, last, phase, seen, todo, at, history>>

FinishPass ==
    /\ phase = "applying"
    /\ todo = {} /\ cur = NoAction
    /\ phase' = "idle"
    /\ at' = NoRead
    /\ UNCHANGED <<initiative, task, last, seen, todo, cur, history>>

-----------------------------------------------------------------------------
(* What goes wrong. *)

\* Fields of the action in hand that were written, whose record is to come.
Unrecorded == DOMAIN cur.record \ Writes(cur)

\* A call is refused, or the database is away: the next action is tried.
ActionFails ==
    /\ cur # NoAction
    /\ cur' = NoAction
    /\ slipped' = slipped \cup Unrecorded
    /\ UNCHANGED <<initiative, task, last, phase, seen, todo, at, ours, touched>>

\* The tool takes the patch, and its answer never arrives.
AnswerLost(p) ==
    /\ Accept(p)
    /\ cur' = NoAction
    /\ slipped' = slipped \cup Unrecorded
                    \cup (DOMAIN p \cap DOMAIN cur.record)
    /\ UNCHANGED <<last, phase, seen, todo, at>>

\* The process ends, or a rejected credential stops the pass.
Crash ==
    /\ phase # "idle"
    /\ phase' = "idle"
    /\ todo' = {}
    /\ cur' = NoAction
    /\ at' = NoRead
    /\ slipped' = slipped \cup Unrecorded
    /\ UNCHANGED <<initiative, task, last, seen, ours, touched>>

-----------------------------------------------------------------------------
Api ==
    \/ \E f \in Wanted, v \in Values \cup Places \cup {None} : EditWant(f, v)
    \/ \E s \in Statuses : Transition(s)

People ==
    \/ \E f \in Scalars \cup {"priority"} \cup Children, v \in Values : EditTool(f, v)
    \/ \E p \in Places : EditTool("location", p)
    \/ \E l \in Labels : AddLabel(l) \/ RemoveLabel(l)
    \/ \E x \in {"anchor"} \cup Children : Tick(x)

Reconcile ==
    \/ StartPass \/ ObserveAndPlan
    \/ \E a \in todo : Begin(a)
    \/ ApplyStatus
    \/ \E p \in cur.patches : SendPatch(p)
    \/ \E f \in DOMAIN cur.record : Record(f)
    \/ FinishAction \/ FinishPass

Fault == ActionFails \/ Crash \/ \E p \in cur.patches : AnswerLost(p)

Next == Api \/ People \/ Reconcile \/ Fault

Spec == Init /\ [][Next]_vars

-----------------------------------------------------------------------------
(* What the pass must never do. *)

\* last_applied never holds a value the tool did not take from prisme
\* (apply.ts: bookkeeping follows the write), or a hand edit would be written
\* over as prisme's own.  The label's record is a mere "present".
RecordedWasAccepted ==
    \A f \in Fields \ {"label"} : last[f] # None => last[f] \in ours[f]

\* A planned conflict is about a field that somebody changed in the task tool
\* since prisme wrote it, or one whose accepted write was never recorded
\* (16-sync section 4).  The label is left out: a restored label and a consumed
\* request are written from one snapshot, and the second write undoes the first.
ConflictIsAnEdit ==
    \A a \in todo \cup {cur} :
       a.conflict \ {"label"} \subseteq at.touched \cup at.slipped

PrismeWrites(f) == cur' # cur /\ tool'[f] # tool[f]

\* A value the pass read in a field it keeps, and that is not prisme's, is
\* written over only by an action that enters it in the conflict ledger.
EditsAreLogged ==
    [][\A f \in Owned \ {"label"} :
          PrismeWrites(f) /\ f \in at.foreign /\ last[f] # None
             => f \in cur.conflict]_vars

\* A subtask's priority that was chosen by hand when the pass read it is never
\* written over (10-model section 6, 11-ownership section 5).
HandSetKept == [][\A c \in Children : PrismeWrites(c) => c \notin at.hand]_vars

-----------------------------------------------------------------------------
(* Why: what is true of the plan and of the action in hand until the end. *)

\* An action sends each field once, and sends what it will record.
Sound(a) ==
    /\ Writes(a) \ {"label"} \subseteq DOMAIN a.record
    /\ \A p \in a.patches : \A f \in DOMAIN p \ {"label"} : p[f] = a.record[f]
    /\ \A p, q \in a.patches : p # q => DOMAIN p \cap DOMAIN q = {}

PlanIsSound ==
    /\ \A a \in todo : Sound(a) /\ DOMAIN a.record \subseteq Writes(a)
    /\ Sound(cur)
    /\ phase # "applying" => todo = {} /\ cur = NoAction

\* No two actions of a plan write one field, the label apart.
OneWriter ==
    /\ \A a, b \in todo : a # b => DOMAIN a.record \cap DOMAIN b.record = {}
    /\ \A a \in todo : DOMAIN a.record \cap DOMAIN cur.record = {}

\* What was sent and awaits its record is ours, and stands unless edited since.
SentIsOurs ==
    \A f \in Unrecorded \ {"label"} :
       /\ cur.record[f] \in ours[f]
       /\ f \notin touched => tool[f] = cur.record[f]

\* last_applied says what stands in the tool, but for edits and lost records.
LastIsTrue ==
    \A f \in Fields \ {"label"} :
       last[f] # None /\ f \notin touched \cup slipped \cup Unrecorded
          => tool[f] = last[f]

PlanIsLogged ==
    \A a \in todo \cup {cur} : \A f \in (Writes(a) \cap Owned) \ {"label"} :
       f \in at.foreign /\ last[f] # None => f \in a.conflict

HandIsSpared == \A a \in todo \cup {cur} : Writes(a) \cap at.hand = {}

\* All of it together is preserved by every step.
Strong ==
    /\ RecordedWasAccepted
    /\ ConflictIsAnEdit
    /\ PlanIsSound
    /\ OneWriter
    /\ SentIsOurs
    /\ LastIsTrue
    /\ PlanIsLogged
    /\ HandIsSpared

SyncInv == TypeOK /\ Strong

=============================================================================
