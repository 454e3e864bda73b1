---------------------------- MODULE Binding_proofs ----------------------------
(***************************************************************************)
(* Proofs about Binding, for every set of initiatives and of tasks, every  *)
(* threshold, and any number of edits, passes and faults.                  *)
(***************************************************************************)
EXTENDS QuietPass, FiniteSetTheorems, TLAPS

USE IdentitiesAssumption DEF dbVars, passVars, history

\* A reset pass has the types of an idle one.
LEMMA ResetType ==
    ASSUME Reset
    PROVE  /\ phase' = "idle"
           /\ seen' \in [Initiatives -> Row]
           /\ pend' \in [Initiatives -> Tasks \cup {None}]
           /\ taken' \subseteq Tasks
           /\ todo' \subseteq PlannedOp
           /\ cur' \in BegunOp \cup {NoOp}
           /\ batch' \subseteq Tasks
BY DEF Reset, Unlinked, AbsentRow, NewRow, Row, Origins, Statuses

\* The move of a task to a goal, by either of its two callers.
LEMMA MoveToGoalType ==
    ASSUME TypeOK, NEW i \in Initiatives, MoveToGoal(i)
    PROVE  /\ row' \in [Initiatives -> Row]
           /\ holder' \in [Tasks -> Initiatives \cup OtherKinds \cup {None}]
           /\ released' \subseteq Tasks
<1>1. row[i] \in Row /\ row \in [Initiatives -> Row]
  BY DEF TypeOK
<1>2. row[i].anchor \in Tasks \cup {None} /\ row[i].origin \in Origins
  BY <1>1 DEF Row
<1>3. [origin |-> row[i].origin, status |-> "closed", anchor |-> None] \in Row
  BY <1>2 DEF Row, Statuses
<1>4. row' \in [Initiatives -> Row]
  BY <1>1, <1>3 DEF MoveToGoal
<1>5. /\ holder' \in [Tasks -> Initiatives \cup OtherKinds \cup {None}]
      /\ released' \subseteq Tasks
  BY <1>2 DEF TypeOK, MoveToGoal, OtherKinds
<1>6. QED BY <1>4, <1>5

\* Handlers, people and the objective step keep every variable in its type.
LEMMA HandlersType ==
    ASSUME TypeOK, Handlers PROVE TypeOK'
<1> USE DEF TypeOK
<1>1. ASSUME NEW i \in Initiatives, CreateInitiative(i) PROVE TypeOK'
  BY <1>1 DEF CreateInitiative, AbsentRow, NewRow, Row, Origins, Statuses
<1>2. ASSUME NEW i \in Initiatives, NEW s \in Statuses, SetStatus(i, s) PROVE TypeOK'
  BY <1>2 DEF SetStatus, Row
<1>3. ASSUME NEW i \in Initiatives, ConvertToKeyResult(i) PROVE TypeOK'
  BY <1>3, MoveToGoalType DEF ConvertToKeyResult, MoveToGoal
<1>4. ASSUME NEW i \in Initiatives, NEW t \in Tasks, InsertAdopted(i, t) PROVE TypeOK'
  BY <1>4 DEF InsertAdopted, AbsentRow, NewRow, Row, Origins, Statuses
<1>5. ASSUME NEW i \in Initiatives, NEW t \in Tasks, DecideAdoption(i, t) PROVE TypeOK'
  BY <1>5 DEF DecideAdoption
<1>6. ASSUME NEW i \in Initiatives, NEW t \in Tasks, LinkExternal(i, t) PROVE TypeOK'
  BY <1>6 DEF LinkExternal, Row
<1>7. ASSUME NEW i \in Initiatives, NEW t \in Tasks, PromoteCapture(i, t) PROVE TypeOK'
  BY <1>7 DEF PromoteCapture, AbsentRow, NewRow, Row, Origins, Statuses
<1>8. QED
  BY <1>1, <1>2, <1>3, <1>4, <1>5, <1>6, <1>7
  DEF Handlers, AdoptCandidate, AdoptInboxTask

\* Key results, rituals, captures and the people in the tool keep the types.
LEMMA OutsidersType ==
    ASSUME TypeOK, Others \/ People \/ Give PROVE TypeOK'
<1> USE DEF TypeOK
<1>1. ASSUME NEW t \in Tasks, NEW k \in OtherKinds, BindOther(k, t) PROVE TypeOK'
  BY <1>1 DEF BindOther
<1>2. ASSUME NEW t \in Tasks, UntieRitual(t) PROVE TypeOK'
  BY <1>2 DEF UntieRitual
<1>3. ASSUME NEW t \in Tasks, NEW from, NEW to \in TaskStates, SetTask(t, from, to)
      PROVE  TypeOK'
  BY <1>3 DEF SetTask
<1>4. ASSUME NEW i \in Initiatives, GiveTaskToObjective(i) PROVE TypeOK'
  BY <1>4, MoveToGoalType DEF GiveTaskToObjective, MoveToGoal
<1>5. {"plain", "labelled", "completed", "gone"} \subseteq TaskStates
  BY DEF TaskStates
<1>6. QED
  BY <1>1, <1>2, <1>3, <1>4, <1>5
  DEF Others, People, Give, AddTask, Label, Unlabel, CompleteTask, DeleteTask

\* The reads and the plan.
LEMMA PlanType ==
    ASSUME TypeOK PROVE Plan(seen, pend, taken, task) \subseteq PlannedOp
BY DEF TypeOK, Plan, Creates, Adopts, Captures, AdoptablePending, PlannedOp

\* So do the four reads and the plan made from them.
LEMMA ReadsType ==
    ASSUME TypeOK, StartPass \/ Read PROVE TypeOK'
<1> USE DEF TypeOK
<1>1. CASE StartPass BY <1>1 DEF StartPass
<1>2. CASE LoadInitiatives BY <1>2 DEF LoadInitiatives
<1>3. CASE LoadPending BY <1>3 DEF LoadPending
<1>4. CASE LoadElsewhere BY <1>4 DEF LoadElsewhere, BoundElsewhere
<1>5. CASE ObserveAndPlan BY <1>5, ResetType, PlanType DEF ObserveAndPlan
<1>6. QED BY <1>1, <1>2, <1>3, <1>4, <1>5 DEF Read

\* What the operations of the plan touch.
LEMMA MakeTaskType ==
    ASSUME TypeOK, NEW i \in Initiatives, NEW t \in Tasks, MakeTask(i, t)
    PROVE  /\ task' \in [Tasks -> TaskStates]
           /\ made' \in [Tasks -> Initiatives \cup {None}]
           /\ batch' \subseteq Tasks
BY DEF TypeOK, MakeTask, TaskStates

\* A bind writes an anchor, a holder and at most one link.
LEMMA BindType ==
    ASSUME TypeOK, NEW i \in Initiatives, NEW t \in Tasks, NEW linked \in BOOLEAN,
           Bind(i, t, linked)
    PROVE  /\ row' \in [Initiatives -> Row]
           /\ holder' \in [Tasks -> Initiatives \cup OtherKinds \cup {None}]
           /\ links' \subseteq Initiatives \X Tasks
BY DEF TypeOK, Bind, Row

\* The operations of the plan keep the types.
LEMMA WritesType ==
    ASSUME TypeOK, Write PROVE TypeOK'
<1> USE DEF TypeOK
<1>1. ASSUME NEW op \in todo, NEW t \in Tasks, CreateTask(op, t) PROVE TypeOK'
  <2>1. op \in PlannedOp /\ op.kind = "create" /\ op.who \in Initiatives
    BY <1>1 DEF CreateTask, PlannedOp
  <2>2. cur' \in BegunOp
    BY <1>1, <2>1 DEF CreateTask, PlannedOp, BegunOp
  <2>3. QED BY <1>1, <2>1, <2>2, MakeTaskType DEF CreateTask, Begin
<1>2. CASE BindCreated
  <2>1. cur.who \in Initiatives /\ cur.task \in Tasks
    BY <1>2 DEF BindCreated, BegunOp, NoOp
  <2>2. QED BY <1>2, <2>1, BindType DEF BindCreated
<1>3. ASSUME NEW op \in todo, BindAdopted(op) PROVE TypeOK'
  <2>1. op.who \in Initiatives /\ op.task \in Tasks
    BY <1>3 DEF BindAdopted, PlannedOp
  <2>2. QED BY <1>3, <2>1, BindType DEF BindAdopted, Begin
<1>4. ASSUME NEW op \in todo, NEW i \in Initiatives, CaptureInitiative(op, i) PROVE TypeOK'
  <2>1. cur' \in BegunOp
    BY <1>4 DEF CaptureInitiative, PlannedOp, BegunOp
  <2>2. QED
    BY <1>4, <2>1 DEF CaptureInitiative, Begin, AbsentRow, NewRow, Row, Origins, Statuses
<1>5. CASE BindCaptured
  <2>1. cur.who \in Initiatives /\ cur.task \in Tasks
    BY <1>5 DEF BindCaptured, BegunOp, NoOp
  <2>2. QED BY <1>5, <2>1, BindType DEF BindCaptured
<1>6. QED BY <1>1, <1>2, <1>3, <1>4, <1>5 DEF Write

\* A lost answer, a refusal, a failed bind, a stop and a crash keep the types.
LEMMA FaultsType ==
    ASSUME TypeOK, Fault PROVE TypeOK'
<1> USE DEF TypeOK
<1>1. ASSUME NEW op \in todo, NEW t \in Tasks, CreateAnswerLost(op, t) PROVE TypeOK'
  <2>1. op.who \in Initiatives
    BY <1>1 DEF CreateAnswerLost, PlannedOp
  <2>2. QED BY <1>1, <2>1, MakeTaskType DEF CreateAnswerLost, Begin
<1>2. ASSUME NEW op \in todo, CreateRefused(op) \/ ActionFails(op) PROVE TypeOK'
  BY <1>2 DEF CreateRefused, ActionFails, Begin
<1>3. cur.kind = "create" => cur.task \in Tasks
  BY DEF BegunOp, NoOp
<1>4. CASE BindFails BY <1>3, <1>4 DEF BindFails
<1>5. CASE StopPass BY <1>5, ResetType DEF StopPass
<1>6. CASE Crash BY <1>3, <1>6, ResetType DEF Crash
<1>7. QED BY <1>1, <1>2, <1>4, <1>5, <1>6 DEF Fault

(* Every variable stays in its type. *)
THEOREM TypeCorrect == Spec => []TypeOK
<1>1. Init => TypeOK
  BY DEF Init, TypeOK, Unlinked, AbsentRow, NewRow, Row, Origins, Statuses, TaskStates
<1>2. TypeOK /\ [Next]_vars => TypeOK'
  <2>1. ASSUME TypeOK, FinishPass PROVE TypeOK'
    BY <2>1, ResetType DEF TypeOK, FinishPass
  <2>2. ASSUME TypeOK, UNCHANGED vars PROVE TypeOK'
    BY <2>2 DEF TypeOK, vars
  <2>3. QED
    BY <2>1, <2>2, HandlersType, OutsidersType, ReadsType, WritesType, FaultsType
    DEF Next, Reconcile
<1>3. QED BY <1>1, <1>2, PTL DEF Spec

-----------------------------------------------------------------------------
(* MadeIsAnchor, by the inductive invariant BindingInv. *)

\* Handlers, people and the objective step never touch the pass, never make a
\* task, and take an anchor away only by releasing its task.
LEMMA OutsideStep ==
    ASSUME BindingInv, TypeOK',
           Handlers \/ Others \/ People \/ Give
    PROVE  /\ UNCHANGED <<phase, seen, pend, todo, cur, made, lost>>
           /\ released \subseteq released'
           /\ \A i \in Initiatives : Exists(i) => Exists(i)'
           /\ \A i \in Initiatives :
                 Exists(i) /\ row[i].anchor # None =>
                    row'[i].anchor = row[i].anchor \/ row[i].anchor \in released'
<1> DEFINE Kept ==
           /\ UNCHANGED <<phase, seen, pend, todo, cur, made, lost>>
           /\ released \subseteq released'
           /\ \A i \in Initiatives : Exists(i) => Exists(i)'
           /\ \A i \in Initiatives :
                 Exists(i) /\ row[i].anchor # None =>
                    row'[i].anchor = row[i].anchor \/ row[i].anchor \in released'
<1> USE DEF BindingInv, TypeOK, Exists
<1>1. ASSUME NEW i \in Initiatives, MoveToGoal(i), UNCHANGED passVars PROVE Kept
  BY <1>1 DEF MoveToGoal, Row
<1>2. ASSUME NEW i \in Initiatives, NEW o \in {"created_in_prisme", "adopted"}, NEW t,
             ~Exists(i), row' = [row EXCEPT ![i] = NewRow(o, t)],
             UNCHANGED <<passVars, history>>
      PROVE  Kept
  BY <1>2 DEF NewRow, Row
<1>3. ASSUME NEW i \in Initiatives, NEW s \in Statuses, SetStatus(i, s) PROVE Kept
  BY <1>3 DEF SetStatus, Row
<1>4. ASSUME NEW i \in Initiatives, NEW t \in Tasks, LinkExternal(i, t) PROVE Kept
  BY <1>4 DEF LinkExternal, Row
<1>5. ASSUME UNCHANGED <<row, passVars, history>> PROVE Kept
  BY <1>5
<1>6. ASSUME Handlers PROVE Kept
  BY <1>1, <1>2, <1>3, <1>4, <1>5, <1>6
  DEF Handlers, CreateInitiative, ConvertToKeyResult, AdoptCandidate, AdoptInboxTask,
      InsertAdopted, DecideAdoption, PromoteCapture
<1>7. ASSUME Others \/ People PROVE Kept
  BY <1>5, <1>7
  DEF Others, People, BindOther, UntieRitual, SetTask, AddTask, Label, Unlabel,
      CompleteTask, DeleteTask
<1>8. ASSUME Give PROVE Kept
  BY <1>1, <1>8 DEF Give, GiveTaskToObjective
<1>9. QED BY <1>6, <1>7, <1>8

\* No step outside the pass disturbs what the pass knows of firm tasks.
LEMMA OutsideInv ==
    ASSUME BindingInv, TypeOK', Handlers \/ Others \/ People \/ Give
    PROVE  BindingInv'
<1>1. /\ UNCHANGED <<phase, seen, pend, todo, cur, made, lost>>
      /\ released \subseteq released'
      /\ \A i \in Initiatives : Exists(i) => Exists(i)'
      /\ \A i \in Initiatives :
            Exists(i) /\ row[i].anchor # None =>
               row'[i].anchor = row[i].anchor \/ row[i].anchor \in released'
  BY OutsideStep
<1> USE DEF BindingInv
<1>2. \A t \in Tasks : Firm(t)' => Firm(t)
  BY <1>1 DEF Firm
<1>3. MadeIsAnchor'
  BY <1>1, <1>2 DEF MadeIsAnchor, MakersExist, InFlight, Firm, TypeOK
<1>4. MakersExist' /\ PassIsOrdered'
  BY <1>1 DEF MakersExist, PassIsOrdered, TypeOK
<1>5. \A i : NoFirmTask(i) => NoFirmTask(i)'
  BY <1>1, <1>2 DEF NoFirmTask
<1>6. UnanchoredHasNoTask'
  BY <1>1, <1>5 DEF UnanchoredHasNoTask
<1>7. PlannedHasNoTask'
  BY <1>1, <1>5 DEF PlannedHasNoTask, TypeOK, PlannedOp
<1>8. BegunHasOneTask'
  BY <1>1, <1>2, <1>5 DEF BegunHasOneTask, TypeOK, BegunOp, NoOp
<1>9. QED BY <1>3, <1>4, <1>6, <1>7, <1>8

\* A reset pass has nothing planned and nothing begun.
LEMMA ResetInv ==
    ASSUME BindingInv, TypeOK', Reset, UNCHANGED <<row, made, released>>, lost \subseteq lost',
           \A t \in Tasks : InFlight(t) => t \in lost'
    PROVE  BindingInv'
<1> USE DEF BindingInv, Reset
<1>1. MadeIsAnchor'
  BY DEF MadeIsAnchor, Firm, InFlight, NoOp
<1>2. MakersExist'
  BY DEF MakersExist, Unlinked, AbsentRow, NewRow, Exists
<1>3. PassIsOrdered' /\ UnanchoredHasNoTask' /\ PlannedHasNoTask' /\ BegunHasOneTask'
  BY DEF PassIsOrdered, UnanchoredHasNoTask, PlannedHasNoTask, BegunHasOneTask, NoOp
<1>4. QED BY <1>1, <1>2, <1>3

\* What is read and planned is unanchored and unlinked, so it has no firm task.
LEMMA ReadsInv ==
    ASSUME BindingInv, TypeOK', StartPass \/ Read
    PROVE  BindingInv'
<1> USE DEF BindingInv
<1>1. UNCHANGED <<row, made, lost, released, cur>> \/ (ObserveAndPlan /\ Reset)
  BY DEF StartPass, Read, LoadInitiatives, LoadPending, LoadElsewhere, ObserveAndPlan
<1>2. phase # "applying" /\ todo = {} /\ cur = NoOp
  BY DEF StartPass, Read, LoadInitiatives, LoadPending, LoadElsewhere, ObserveAndPlan,
         PassIsOrdered
<1>3. \A t \in Tasks : ~InFlight(t)
  BY <1>2 DEF InFlight, NoOp
<1>4. ASSUME UNCHANGED <<row, made, lost, released, cur>> PROVE MadeIsAnchor'
  BY <1>4 DEF MadeIsAnchor, Firm, InFlight
<1>5. ASSUME UNCHANGED <<row, made, lost, released, cur>> PROVE BegunHasOneTask'
  BY <1>2, <1>5 DEF BegunHasOneTask, NoOp
<1>6. CASE StartPass
  BY <1>2, <1>4, <1>5, <1>6
  DEF StartPass, MakersExist, PassIsOrdered, UnanchoredHasNoTask, PlannedHasNoTask, Exists
<1>7. CASE LoadInitiatives
  <2>1. \A i \in Initiatives : row[i].anchor = None => NoFirmTask(i)
    BY <1>3 DEF NoFirmTask, MadeIsAnchor
  <2>2. UnanchoredHasNoTask'
    BY <1>7, <2>1 DEF LoadInitiatives, UnanchoredHasNoTask, NoFirmTask, Firm
  <2>3. MakersExist'
    BY <1>7 DEF LoadInitiatives, MakersExist, Exists
  <2>4. QED
    BY <1>2, <1>4, <1>5, <1>7, <2>2, <2>3
    DEF LoadInitiatives, PassIsOrdered, PlannedHasNoTask
<1>8. CASE LoadPending \/ LoadElsewhere
  <2>1. UnanchoredHasNoTask'
    BY <1>8 DEF LoadPending, LoadElsewhere, UnanchoredHasNoTask, NoFirmTask, Firm
  <2>2. QED
    BY <1>2, <1>4, <1>5, <1>8, <2>1
    DEF LoadPending, LoadElsewhere, MakersExist, PassIsOrdered, PlannedHasNoTask, Exists
<1>9. CASE ObserveAndPlan
  <2>1. CASE Reset
    BY <1>3, <1>9, <2>1, ResetInv DEF ObserveAndPlan
  <2>2. CASE ~Reset
    <3>1. /\ phase' = "applying"
          /\ todo' = Plan(seen, pend, taken, task)
          /\ UNCHANGED <<row, made, lost, released, cur, seen, pend>>
      BY <1>9, <2>2 DEF ObserveAndPlan
    <3>2. ASSUME NEW op \in todo'
          PROVE  /\ op.kind \in {"create", "adopt"} => seen[op.who].anchor = None
                 /\ op.kind = "create" => pend[op.who] = None /\ op.who \in Initiatives
                                          /\ seen[op.who].origin # "absent"
                 /\ op.kind = "adopt" => pend[op.who] # None /\ op.who \in Initiatives
                                         /\ seen[op.who].origin # "absent"
      BY <3>1, <3>2
      DEF Plan, Creates, Adopts, Captures, AdoptablePending, MayCreateExternally
    <3>3. \A i \in Initiatives : seen[i].anchor = None => NoFirmTask(i)
      BY <1>9 DEF ObserveAndPlan, UnanchoredHasNoTask
    <3>4. PlannedHasNoTask'
      BY <3>1, <3>2, <3>3
      DEF PlannedHasNoTask, MakersExist, NoFirmTask, Firm, Exists
    <3>5. MakersExist' /\ PassIsOrdered' /\ UnanchoredHasNoTask'
      BY <1>2, <3>1 DEF MakersExist, PassIsOrdered, UnanchoredHasNoTask, Exists, NoOp
    <3>6. QED BY <1>4, <1>5, <3>1, <3>4, <3>5
  <2>3. QED BY <2>1, <2>2
<1>10. QED BY <1>6, <1>7, <1>8, <1>9 DEF Read

\* An operation taken from the plan leaves the rest of the plan's facts.
LEMMA BeginPlanned ==
    ASSUME BindingInv, NEW op, Begin(op)
    PROVE  /\ todo' \subseteq todo
           /\ op \notin todo'
BY DEF Begin

\* A create, answered or not: the initiative had no firm task, and gets one.
LEMMA CreateInv ==
    ASSUME BindingInv, TypeOK', NEW op \in todo, NEW t \in Tasks,
           CreateTask(op, t) \/ CreateAnswerLost(op, t)
    PROVE  BindingInv'
<1> USE DEF BindingInv
<1>1. /\ op.kind = "create" /\ cur = NoOp /\ phase = "applying"
      /\ op.who \in Initiatives /\ op.task = None
      /\ Exists(op.who) /\ pend[op.who] = None /\ NoFirmTask(op.who)
  BY DEF CreateTask, CreateAnswerLost, Ready, PlannedHasNoTask, TypeOK, PlannedOp
<1>2. /\ UNCHANGED <<row, phase, seen, pend, released>>
      /\ todo' = todo \ {op}
      /\ made' = [made EXCEPT ![t] = op.who]
      /\ lost \subseteq lost'
      /\ \A u \in Tasks \ {t} : u \in lost' => u \in lost
      /\ \/ cur' = [kind |-> "create", who |-> op.who, task |-> t]
         \/ cur' = NoOp /\ t \in lost'
  BY <1>1 DEF CreateTask, CreateAnswerLost, Begin, MakeTask
<1>3. ASSUME NEW u \in Tasks, u # t PROVE Firm(u)' <=> Firm(u) /\ made'[u] = made[u]
  BY <1>2, <1>3 DEF Firm, TypeOK
<1>4. MadeIsAnchor'
  <2> SUFFICES ASSUME NEW u \in Tasks, Firm(u)', ~InFlight(u)'
               PROVE  row'[made'[u]].anchor = u
    BY DEF MadeIsAnchor
  <2>1. u # t
    BY <1>2 DEF Firm, InFlight
  <2>2. Firm(u) /\ ~InFlight(u)
    BY <1>1, <1>3, <2>1 DEF InFlight, NoOp
  <2>3. made'[u] = made[u]
    BY <1>2, <2>1 DEF TypeOK
  <2>4. QED BY <1>2, <2>2, <2>3 DEF MadeIsAnchor
<1>5. MakersExist'
  BY <1>1, <1>2 DEF MakersExist, Exists, TypeOK
<1>6. PassIsOrdered' /\ UnanchoredHasNoTask'
  BY <1>1, <1>2 DEF PassIsOrdered, UnanchoredHasNoTask, NoOp
<1>7. ASSUME NEW i, i # op.who, NoFirmTask(i) PROVE NoFirmTask(i)'
  BY <1>2, <1>3, <1>7 DEF NoFirmTask, TypeOK
<1>8. ASSUME NEW o \in todo', o.kind \in {"create", "adopt"} PROVE o.who # op.who
  BY <1>1, <1>2, <1>8 DEF PlannedHasNoTask, TypeOK, PlannedOp
<1>9. PlannedHasNoTask'
  BY <1>2, <1>7, <1>8 DEF PlannedHasNoTask, Exists
<1>10. BegunHasOneTask'
  <2>1. CASE cur' = NoOp
    BY <2>1 DEF BegunHasOneTask, NoOp
  <2>2. CASE cur' = [kind |-> "create", who |-> op.who, task |-> t]
    <3>1. made'[t] = op.who
      BY <1>2 DEF TypeOK
    <3>2. \A u \in Tasks : made'[u] = op.who /\ Firm(u)' => u = t
      BY <1>1, <1>2, <1>3 DEF NoFirmTask, TypeOK
    <3>3. QED BY <1>1, <1>2, <1>8, <2>2, <3>1, <3>2 DEF BegunHasOneTask
  <2>3. QED BY <1>2, <2>1, <2>2
<1>11. QED BY <1>4, <1>5, <1>6, <1>9, <1>10

\* The reconciler's binds only anchor what holds no firm task, or the task it made.
LEMMA BindInv ==
    ASSUME BindingInv, TypeOK', NEW i \in Initiatives, NEW t \in Tasks, NEW linked \in BOOLEAN,
           Bind(i, t, linked),
           \A u \in Tasks : made[u] = i /\ Firm(u) => u = t,
           \A u \in Tasks : InFlight(u) => i = cur.who /\ u = t,
           Exists(i), todo' \subseteq todo, cur' = NoOp,
           UNCHANGED <<phase, seen, pend, made, lost, released>>
    PROVE  BindingInv'
<1> USE DEF BindingInv
<1>1. /\ row'[i].anchor = t /\ row'[i].origin = row[i].origin
      /\ \A j \in Initiatives \ {i} : row'[j] = row[j]
  BY DEF Bind, TypeOK, Row
<1>2. \A u \in Tasks : Firm(u)' <=> Firm(u)
  BY DEF Firm
<1>3. MadeIsAnchor'
  <2> SUFFICES ASSUME NEW u \in Tasks, Firm(u)
               PROVE  row'[made[u]].anchor = u
    BY <1>2 DEF MadeIsAnchor
  <2>1. made[u] \in Initiatives
    BY DEF Firm, TypeOK
  <2>2. CASE made[u] = i
    BY <1>1, <2>2
  <2>3. CASE made[u] # i
    <3>1. ~InFlight(u)
      BY <2>3 DEF BegunHasOneTask, InFlight
    <3>2. QED BY <1>1, <2>1, <2>3, <3>1 DEF MadeIsAnchor
  <2>4. QED BY <2>2, <2>3
<1>4. MakersExist'
  BY <1>1 DEF MakersExist, Exists, TypeOK
<1>5. PassIsOrdered' /\ UnanchoredHasNoTask'
  BY <1>2 DEF PassIsOrdered, UnanchoredHasNoTask, NoFirmTask, NoOp
<1>6. \A j : NoFirmTask(j) => NoFirmTask(j)'
  BY <1>2 DEF NoFirmTask
<1>7. PlannedHasNoTask'
  BY <1>1, <1>6 DEF PlannedHasNoTask, Exists, TypeOK, PlannedOp
<1>8. BegunHasOneTask'
  BY DEF BegunHasOneTask, NoOp
<1>9. QED BY <1>3, <1>4, <1>5, <1>7, <1>8

\* The operations of the plan keep the invariant.
LEMMA WritesInv ==
    ASSUME BindingInv, TypeOK', Write
    PROVE  BindingInv'
<1> USE DEF BindingInv
<1>1. ASSUME NEW op \in todo, NEW t \in Tasks, CreateTask(op, t) PROVE BindingInv'
  BY <1>1, CreateInv
<1>2. CASE BindCreated
  <2>1. cur.kind = "create" /\ cur.who \in Initiatives /\ cur.task \in Tasks
    BY <1>2 DEF BindCreated, TypeOK, BegunOp, NoOp
  <2>2. /\ \A u \in Tasks : made[u] = cur.who /\ Firm(u) => u = cur.task
        /\ \A u \in Tasks : InFlight(u) => u = cur.task
        /\ Exists(cur.who)
    BY <2>1 DEF BegunHasOneTask, InFlight, MakersExist
  <2>3. QED BY <1>2, <2>1, <2>2, BindInv DEF BindCreated
<1>3. ASSUME NEW op \in todo, BindAdopted(op) PROVE BindingInv'
  <2>1. /\ op.kind = "adopt" /\ op.who \in Initiatives /\ op.task \in Tasks /\ cur = NoOp
        /\ NoFirmTask(op.who)
    BY <1>3 DEF BindAdopted, Ready, TypeOK, PlannedOp, PlannedHasNoTask
  <2>2. /\ \A u \in Tasks : ~InFlight(u)
        /\ todo' \subseteq todo /\ cur' = NoOp
    BY <1>3, <2>1 DEF InFlight, NoOp, BindAdopted, Begin
  <2>3. Exists(op.who)
    BY <2>1 DEF PlannedHasNoTask
  <2>4. QED BY <1>3, <2>1, <2>2, <2>3, BindInv DEF BindAdopted, NoFirmTask
<1>4. ASSUME NEW op \in todo, NEW i \in Initiatives, CaptureInitiative(op, i)
      PROVE  BindingInv'
  <2>1. /\ op.kind = "capture" /\ cur = NoOp /\ phase = "applying"
        /\ \A o \in todo : o.kind = "capture"
        /\ todo' \subseteq todo
        /\ cur' = [kind |-> "capture", who |-> i, task |-> op.task]
        /\ ~Exists(i)
        /\ row' = [row EXCEPT ![i] = NewRow("adopted", None)]
        /\ UNCHANGED <<phase, seen, pend, made, lost, released>>
    BY <1>4 DEF CaptureInitiative, Ready, Begin
  <2>2. \A u \in Tasks : made[u] # i
    BY <2>1 DEF MakersExist, TypeOK
  <2>3. \A u \in Tasks : Firm(u)' <=> Firm(u)
    BY <2>1 DEF Firm
  <2>4. MadeIsAnchor'
    BY <2>1, <2>2, <2>3 DEF MadeIsAnchor, InFlight, NoOp, TypeOK, Firm
  <2>5. MakersExist'
    BY <2>1 DEF MakersExist, Exists, NewRow, TypeOK
  <2>6. PassIsOrdered' /\ UnanchoredHasNoTask' /\ PlannedHasNoTask'
    BY <2>1 DEF PassIsOrdered, UnanchoredHasNoTask, PlannedHasNoTask
  <2>7. BegunHasOneTask'
    BY <2>1, <2>2 DEF BegunHasOneTask, NoFirmTask, Exists, NewRow, TypeOK
  <2>8. QED BY <2>4, <2>5, <2>6, <2>7
<1>5. CASE BindCaptured
  <2>1. cur.kind = "capture" /\ cur.who \in Initiatives /\ cur.task \in Tasks
    BY <1>5 DEF BindCaptured, TypeOK, BegunOp, NoOp
  <2>2. Exists(cur.who) /\ NoFirmTask(cur.who) /\ \A u \in Tasks : ~InFlight(u)
    BY <2>1 DEF BegunHasOneTask, InFlight
  <2>3. QED BY <1>5, <2>1, <2>2, BindInv DEF BindCaptured, NoFirmTask
<1>6. QED BY <1>1, <1>2, <1>3, <1>4, <1>5 DEF Write

\* A failure at any point keeps it: what it loses is no longer firm.
LEMMA FaultsInv ==
    ASSUME BindingInv, TypeOK', Fault
    PROVE  BindingInv'
<1> USE DEF BindingInv
<1>1. ASSUME NEW op \in todo, NEW t \in Tasks, CreateAnswerLost(op, t) PROVE BindingInv'
  BY <1>1, CreateInv
<1>2. ASSUME NEW op \in todo, CreateRefused(op) \/ ActionFails(op) PROVE BindingInv'
  BY <1>2
  DEF CreateRefused, ActionFails, Begin, Ready, dbVars, history, MadeIsAnchor, InFlight, Firm,
      MakersExist, Exists, PassIsOrdered, UnanchoredHasNoTask, NoFirmTask, PlannedHasNoTask,
      BegunHasOneTask, NoOp
<1>3. CASE BindFails
  <2>1. /\ UNCHANGED <<row, phase, seen, pend, todo, made, released>> /\ cur' = NoOp
        /\ lost \subseteq lost'
        /\ \A t \in Tasks : InFlight(t) => t \in lost'
    BY <1>3 DEF BindFails, InFlight
  <2>2. \A t \in Tasks : Firm(t)' => Firm(t) /\ ~InFlight(t)
    BY <2>1 DEF Firm
  <2>3. QED
    BY <2>1, <2>2
    DEF MadeIsAnchor, MakersExist, Exists, PassIsOrdered, UnanchoredHasNoTask, NoFirmTask,
        PlannedHasNoTask, BegunHasOneTask, NoOp
<1>4. CASE StopPass
  <2>1. \A t \in Tasks : ~InFlight(t)
    BY <1>4 DEF StopPass, Ready, InFlight, NoOp
  <2>2. QED BY <1>4, <2>1, ResetInv DEF StopPass
<1>5. CASE Crash
  <2>1. \A t \in Tasks : InFlight(t) => t \in lost'
    BY <1>5 DEF Crash, InFlight
  <2>2. lost \subseteq lost'
    BY <1>5 DEF Crash
  <2>3. QED BY <1>5, <2>1, <2>2, ResetInv DEF Crash
<1>6. QED BY <1>1, <1>2, <1>3, <1>4, <1>5 DEF Fault

(* BindingInv is inductive. *)
THEOREM BindingInvariant == Spec => []BindingInv
<1>1. Init => BindingInv
  <2>1. Init => TypeOK
    BY DEF Init, TypeOK, Unlinked, AbsentRow, NewRow, Row, Origins, Statuses, TaskStates
  <2>2. QED
    BY <2>1
    DEF Init, BindingInv, MadeIsAnchor, Firm, MakersExist, Unlinked, AbsentRow, NewRow, Exists,
        PassIsOrdered, UnanchoredHasNoTask, PlannedHasNoTask, BegunHasOneTask, NoOp
<1>2. TypeOK /\ TypeOK' /\ BindingInv /\ [Next]_vars => BindingInv'
  <2>1. ASSUME BindingInv, TypeOK', FinishPass PROVE BindingInv'
    <3>1. \A t \in Tasks : ~InFlight(t)
      BY <2>1 DEF FinishPass, InFlight, NoOp
    <3>2. QED BY <2>1, <3>1, ResetInv DEF FinishPass
  <2>2. ASSUME BindingInv, TypeOK', UNCHANGED vars PROVE BindingInv'
    BY <2>2
    DEF vars, BindingInv, MadeIsAnchor, InFlight, Firm, MakersExist, Exists, PassIsOrdered,
        UnanchoredHasNoTask, NoFirmTask, PlannedHasNoTask, BegunHasOneTask
  <2>3. QED
    BY <2>1, <2>2, OutsideInv, ReadsInv, WritesInv, FaultsInv DEF Next, Reconcile
<1>3. QED BY <1>1, <1>2, TypeCorrect, PTL DEF Spec

(* A task made for an initiative stays its anchor unless its answer was lost *)
(* or somebody let go of it, whatever the handlers do during the pass.       *)
THEOREM MadeStaysAnchored == Spec => []MadeIsAnchor
<1>1. BindingInv => MadeIsAnchor
  BY DEF BindingInv
<1>2. QED BY <1>1, BindingInvariant, PTL

-----------------------------------------------------------------------------
(* Guards 1 and 2, by the invariant GuardsInv. *)

\* What every step outside the pass does to it: rows keep their origin, gain
\* anchors that are born, and no task goes back to being unborn.
LEMMA OutsideGuards ==
    ASSUME GuardsInv, TypeOK', Handlers \/ Others \/ People \/ Give
    PROVE  GuardsInv'
<1> USE DEF GuardsInv, TypeOK
<1> DEFINE Safe ==
       /\ UNCHANGED <<phase, seen, pend, taken, todo, cur, made>>
       /\ \A t \in Tasks : task[t] # "unborn" => task'[t] # "unborn"
       /\ \A i \in Initiatives : /\ Exists(i) => row'[i].origin = row[i].origin
                                 /\ \/ row'[i].anchor \in {row[i].anchor, None}
                                    \/ task[row'[i].anchor] # "unborn"
       /\ \A t \in Tasks : holder'[t] \in {holder[t], None} \/ task[t] # "unborn"
<1>1. ASSUME NEW i \in Initiatives, MoveToGoal(i), UNCHANGED passVars PROVE Safe
  <2>1. \A j \in Initiatives : row'[j].origin = row[j].origin
                             /\ row'[j].anchor \in {row[j].anchor, None}
    BY <1>1 DEF MoveToGoal, Row
  <2>2. UNCHANGED task /\ \A t \in Tasks : holder'[t] = holder[t] \/ row[i].anchor = t
    BY <1>1 DEF MoveToGoal
  <2>3. \A t \in Tasks : row[i].anchor = t => task[t] # "unborn"
    BY DEF NobodyHasTheUnborn, Born
  <2>4. UNCHANGED made
    BY <1>1 DEF MoveToGoal
  <2>5. QED BY <1>1, <2>1, <2>2, <2>3, <2>4 DEF Born
<1>2. ASSUME NEW i \in Initiatives, NEW o \in Origins, NEW t \in Tasks \cup {None},
             ~Exists(i), row' = [row EXCEPT ![i] = NewRow(o, t)], Born(t),
             \A u \in Tasks : holder'[u] = holder[u] \/ u = t,
             UNCHANGED <<task, passVars, history>>
      PROVE  Safe
  BY <1>2 DEF NewRow, Row, Exists, Born
<1>3. ASSUME NEW i \in Initiatives, NEW s \in Statuses, SetStatus(i, s) PROVE Safe
  BY <1>3 DEF SetStatus, Row
<1>4. ASSUME NEW i \in Initiatives, NEW t \in Tasks, LinkExternal(i, t) PROVE Safe
  BY <1>4 DEF LinkExternal, Row, Born
<1>5. ASSUME NEW i \in Initiatives, NEW t \in Tasks, PromoteCapture(i, t) PROVE Safe
  <2>1. Born(t)
    BY <1>5 DEF PromoteCapture, NobodyHasTheUnborn
  <2>2. QED BY <1>2, <1>5, <2>1 DEF PromoteCapture, Origins
<1>6. ASSUME NEW i \in Initiatives, CreateInitiative(i) PROVE Safe
  BY <1>2, <1>6 DEF CreateInitiative, Origins, Born
<1>7. ASSUME NEW i \in Initiatives, NEW t \in Tasks, InsertAdopted(i, t) PROVE Safe
  BY <1>2, <1>7 DEF InsertAdopted, Origins, Born
<1>8. ASSUME Handlers PROVE Safe
  <2>1. ASSUME NEW i \in Initiatives, ConvertToKeyResult(i) PROVE Safe
    BY <1>1, <2>1 DEF ConvertToKeyResult
  <2>2. ASSUME NEW i \in Initiatives, NEW t \in Tasks, DecideAdoption(i, t) PROVE Safe
    BY <2>2 DEF DecideAdoption
  <2>3. QED
    BY <1>3, <1>4, <1>5, <1>6, <1>7, <1>8, <2>1, <2>2
    DEF Handlers, AdoptCandidate, AdoptInboxTask
<1>9. ASSUME Others \/ People PROVE Safe
  <2>1. ASSUME NEW t \in Tasks, NEW k \in OtherKinds, BindOther(k, t) PROVE Safe
    BY <2>1 DEF BindOther, Born
  <2>2. ASSUME NEW t \in Tasks, UntieRitual(t) PROVE Safe
    BY <2>2 DEF UntieRitual
  <2>3. ASSUME NEW t \in Tasks, NEW from, NEW to \in {"plain", "labelled", "completed", "gone"},
               SetTask(t, from, to)
        PROVE  Safe
    BY <2>3 DEF SetTask
  <2>4. QED
    BY <1>9, <2>1, <2>2, <2>3
    DEF Others, People, AddTask, Label, Unlabel, CompleteTask, DeleteTask
<1>10. ASSUME Give PROVE Safe
  BY <1>1, <1>10 DEF Give, GiveTaskToObjective
<1>11. Safe
  BY <1>8, <1>9, <1>10
<1>12. NobodyHasTheUnborn'
  <2>1. ASSUME NEW i \in Initiatives PROVE Born(row[i].anchor)' /\ Born(seen[i].anchor)'
    BY <1>11, <2>1 DEF NobodyHasTheUnborn, Born, Row
  <2>2. ASSUME NEW t \in Tasks, (holder[t] # None \/ made[t] # None \/ t \in taken)'
        PROVE  Born(t)'
    BY <1>11, <2>2 DEF NobodyHasTheUnborn, Born
  <2>3. QED BY <2>1, <2>2 DEF NobodyHasTheUnborn
<1>13. OriginsAreFixed'
  BY <1>11 DEF OriginsAreFixed, Exists
<1>14. PlannedFromTheRead' /\ BegunFromTheRead'
  <2>1. BoundIds(seen)' = BoundIds(seen)
    BY <1>11 DEF BoundIds
  <2>2. PlannedFromTheRead'
    BY <1>11, <2>1 DEF PlannedFromTheRead, Born, PlannedOp
  <2>3. BegunFromTheRead'
    BY <1>11, <2>1 DEF BegunFromTheRead, Born, BegunOp
  <2>4. QED BY <2>2, <2>3
<1>15. QED BY <1>12, <1>13, <1>14

\* A reset pass plans nothing and has begun nothing.
LEMMA ResetGuards ==
    ASSUME GuardsInv, TypeOK', Reset, UNCHANGED <<row, holder, task, made>>
    PROVE  GuardsInv'
BY DEF GuardsInv, Reset, NobodyHasTheUnborn, Born, OriginsAreFixed, PlannedFromTheRead,
       BegunFromTheRead, Unlinked, AbsentRow, NewRow

\* The reads and the plan keep what the guards rest on.
LEMMA ReadsGuards ==
    ASSUME GuardsInv, PassIsOrdered, TypeOK', StartPass \/ Read
    PROVE  GuardsInv'
<1> USE DEF GuardsInv
<1>1. ASSUME StartPass \/ LoadInitiatives \/ LoadPending \/ LoadElsewhere PROVE GuardsInv'
  <2>1. todo' = {} /\ cur' = NoOp /\ UNCHANGED <<row, holder, task, made>>
    BY <1>1
    DEF StartPass, LoadInitiatives, LoadPending, LoadElsewhere, PassIsOrdered, dbVars
  <2>2. PlannedFromTheRead' /\ BegunFromTheRead'
    BY <2>1 DEF PlannedFromTheRead, BegunFromTheRead
  <2>3. NobodyHasTheUnborn'
    BY <1>1, <2>1
    DEF StartPass, LoadInitiatives, LoadPending, LoadElsewhere, BoundElsewhere, OtherKinds,
        NobodyHasTheUnborn, Born
  <2>4. OriginsAreFixed'
    BY <1>1, <2>1
    DEF StartPass, LoadInitiatives, LoadPending, LoadElsewhere, OriginsAreFixed
  <2>5. QED BY <2>2, <2>3, <2>4
<1>2. ASSUME ObserveAndPlan PROVE GuardsInv'
  <2>1. CASE Reset
    BY <1>2, <2>1, ResetGuards DEF ObserveAndPlan
  <2>2. CASE ~Reset
    <3>1. /\ todo' = Plan(seen, pend, taken, task)
          /\ UNCHANGED <<row, holder, task, made, cur, seen, pend, taken>>
      BY <1>2, <2>2 DEF ObserveAndPlan
    <3>2. NobodyHasTheUnborn' /\ OriginsAreFixed'
      BY <3>1 DEF NobodyHasTheUnborn, OriginsAreFixed, Born
    <3>3. BegunFromTheRead'
      BY <1>2, <3>1 DEF BegunFromTheRead, PassIsOrdered, ObserveAndPlan
    <3>4. ASSUME NEW op \in Plan(seen, pend, taken, task)
          PROVE  /\ op.kind = "create" => /\ seen[op.who].origin = "created_in_prisme"
                                          /\ seen[op.who].anchor = None
                                          /\ pend[op.who] = None
                 /\ op.kind # "create" => /\ Born(op.task)
                                          /\ op.task \notin BoundIds(seen)
                                          /\ op.task \notin taken
      BY <3>4
      DEF Plan, Creates, Adopts, Captures, AdoptablePending, MayCreateExternally, Born
    <3>5. PlannedFromTheRead'
      BY <3>1, <3>4 DEF PlannedFromTheRead, Born, BoundIds
    <3>6. QED BY <3>2, <3>3, <3>5
  <2>3. QED BY <2>1, <2>2
<1>3. QED BY <1>1, <1>2 DEF Read

\* A step of the apply that anchors, begins or abandons an operation.
LEMMA ApplyGuards ==
    ASSUME GuardsInv, TypeOK', Write \/ Fault
    PROVE  GuardsInv'
<1> USE DEF GuardsInv, TypeOK
<1>1. ASSUME NEW op \in todo, NEW t \in Tasks,
             CreateTask(op, t) \/ CreateAnswerLost(op, t)
      PROVE  GuardsInv'
  <2>1. /\ UNCHANGED <<row, holder, seen, pend, taken>>
        /\ todo' \subseteq todo
        /\ task' = [task EXCEPT ![t] = "labelled"]
        /\ made' = [made EXCEPT ![t] = op.who]
        /\ task[t] = "unborn"
        /\ cur' = NoOp \/ cur'.task = t
    BY <1>1 DEF CreateTask, CreateAnswerLost, Ready, MakeTask, Begin, dbVars
  <2>2. t \notin BoundIds(seen) /\ t \notin taken
    BY <2>1 DEF NobodyHasTheUnborn, Born, BoundIds
  <2>3. NobodyHasTheUnborn'
    BY <2>1 DEF NobodyHasTheUnborn, Born
  <2>4. OriginsAreFixed'
    BY <2>1 DEF OriginsAreFixed
  <2>5. PlannedFromTheRead'
    BY <2>1 DEF PlannedFromTheRead, Born, BoundIds, PlannedOp
  <2>6. BegunFromTheRead'
    BY <2>1, <2>2 DEF BegunFromTheRead, Born, BoundIds
  <2>7. QED BY <2>3, <2>4, <2>5, <2>6
<1>2. ASSUME NEW i \in Initiatives, NEW t \in Tasks, NEW linked \in BOOLEAN,
             Bind(i, t, linked), Born(t), todo' \subseteq todo, cur' = NoOp,
             UNCHANGED <<task, seen, pend, taken, made>>
      PROVE  GuardsInv'
  <2>1. NobodyHasTheUnborn'
    <3>1. \A j \in Initiatives : row'[j].anchor = row[j].anchor \/ row'[j].anchor = t
      BY <1>2 DEF Bind, Row
    <3>2. \A u \in Tasks : holder'[u] = holder[u] \/ u = t
      BY <1>2 DEF Bind
    <3>3. QED BY <1>2, <3>1, <3>2 DEF NobodyHasTheUnborn, Born
  <2>2. OriginsAreFixed'
    <3>1. \A j \in Initiatives : row'[j].origin = row[j].origin
      BY <1>2 DEF Bind, Row
    <3>2. QED BY <1>2, <3>1 DEF OriginsAreFixed
  <2>3. PlannedFromTheRead' /\ BegunFromTheRead'
    BY <1>2 DEF PlannedFromTheRead, BegunFromTheRead, Born, BoundIds
  <2>4. QED BY <2>1, <2>2, <2>3
<1>3. CASE BindCreated \/ BindCaptured
  <2>1. cur # NoOp
    <3>1. NoOp.kind = "none"
      BY DEF NoOp
    <3>2. QED BY <1>3, <3>1 DEF BindCreated, BindCaptured
  <2>2. cur.who \in Initiatives /\ cur.task \in Tasks /\ Born(cur.task)
    BY <2>1 DEF BegunOp, BegunFromTheRead
  <2>3. \/ Bind(cur.who, cur.task, TRUE)
        \/ Bind(cur.who, cur.task, FALSE)
    BY <1>3 DEF BindCreated, BindCaptured
  <2>4. cur' = NoOp /\ UNCHANGED <<todo, task, seen, pend, taken, made>>
    BY <1>3 DEF BindCreated, BindCaptured, history
  <2>5. QED BY <1>2, <2>2, <2>3, <2>4
<1>4. ASSUME NEW op \in todo, BindAdopted(op) PROVE GuardsInv'
  <2>1. op.who \in Initiatives /\ op.task \in Tasks /\ Born(op.task) /\ cur = NoOp
    BY <1>4 DEF BindAdopted, Ready, PlannedOp, PlannedFromTheRead
  <2>2. QED BY <1>2, <1>4, <2>1 DEF BindAdopted, Begin, history
<1>5. ASSUME NEW op \in todo, NEW i \in Initiatives, CaptureInitiative(op, i) PROVE GuardsInv'
  <2>1. /\ row' = [row EXCEPT ![i] = NewRow("adopted", None)] /\ ~Exists(i)
        /\ UNCHANGED <<holder, task, seen, pend, taken, made>>
        /\ todo' \subseteq todo
        /\ op.kind # "create"
        /\ cur'.task = op.task
    BY <1>5 DEF CaptureInitiative, Ready, Begin, history
  <2>2. NobodyHasTheUnborn' /\ OriginsAreFixed'
    BY <2>1 DEF NobodyHasTheUnborn, OriginsAreFixed, Born, NewRow, Exists
  <2>3. PlannedFromTheRead' /\ BegunFromTheRead'
    BY <2>1 DEF PlannedFromTheRead, BegunFromTheRead, Born, BoundIds
  <2>4. QED BY <2>2, <2>3
<1>6. ASSUME todo' \subseteq todo, cur' \in {cur, NoOp},
             UNCHANGED <<row, holder, task, seen, pend, taken, made>>
      PROVE  GuardsInv'
  BY <1>6
  DEF NobodyHasTheUnborn, OriginsAreFixed, PlannedFromTheRead, BegunFromTheRead, Born, BoundIds
<1>7. ASSUME NEW op \in todo, CreateRefused(op) \/ ActionFails(op) PROVE GuardsInv'
  BY <1>6, <1>7 DEF CreateRefused, ActionFails, Begin, dbVars, history
<1>8. CASE BindFails
  BY <1>6, <1>8 DEF BindFails, dbVars
<1>9. CASE StopPass \/ Crash
  BY <1>9, ResetGuards DEF StopPass, Crash, dbVars, history
<1>10. QED
  BY <1>1, <1>3, <1>4, <1>5, <1>7, <1>8, <1>9 DEF Write, Fault

\* What the guards rest on is invariant.
LEMMA GuardsInvariant == Spec => []GuardsInv
<1>1. Init => GuardsInv
  <2>1. Init => TypeOK
    BY DEF Init, TypeOK, Unlinked, AbsentRow, NewRow, Row, Origins, Statuses, TaskStates
  <2>2. QED
    BY <2>1
    DEF Init, GuardsInv, NobodyHasTheUnborn, Born, OriginsAreFixed, PlannedFromTheRead,
        BegunFromTheRead, Unlinked, AbsentRow, NewRow
<1>2. TypeOK /\ TypeOK' /\ BindingInv /\ GuardsInv /\ [Next]_vars => GuardsInv'
  <2>1. ASSUME GuardsInv, TypeOK', FinishPass PROVE GuardsInv'
    BY <2>1, ResetGuards DEF FinishPass, dbVars, history
  <2>2. ASSUME GuardsInv, TypeOK', UNCHANGED vars PROVE GuardsInv'
    BY <2>2
    DEF vars, GuardsInv, NobodyHasTheUnborn, OriginsAreFixed, PlannedFromTheRead,
        BegunFromTheRead, Born, BoundIds
  <2>3. BindingInv => PassIsOrdered
    BY DEF BindingInv
  <2>4. QED
    BY <2>1, <2>2, <2>3, OutsideGuards, ReadsGuards, ApplyGuards DEF Next, Reconcile
<1>3. QED BY <1>1, <1>2, TypeCorrect, BindingInvariant, PTL DEF Spec

(* Guard 2: only an initiative created in prisme, read with no reference and *)
(* no decided link, ever has a task made for it.                             *)
THEOREM AdoptionMakesNothing == Spec => AdoptedMakesNothing
<1> DEFINE Guarded(t) ==
       made'[t] # made[t] =>
          /\ made[t] = None
          /\ row[made'[t]].origin = "created_in_prisme"
          /\ seen[made'[t]].anchor = None
          /\ pend[made'[t]] = None
<1>1. GuardsInv /\ [Next]_vars => [\A t \in Tasks : Guarded(t)]_vars
  <2> SUFFICES ASSUME GuardsInv, [Next]_vars, NEW t \in Tasks, made'[t] # made[t]
               PROVE  Guarded(t)
    OBVIOUS
  <2>1. \/ \E op \in todo : \E u \in Tasks : CreateTask(op, u)
        \/ \E op \in todo : \E u \in Tasks : CreateAnswerLost(op, u)
    BY DEF vars, Next, Handlers, Others, People, Give, Reconcile, Read, Write, Fault,
           CreateInitiative, SetStatus, ConvertToKeyResult, MoveToGoal, AdoptCandidate,
           AdoptInboxTask, InsertAdopted, DecideAdoption, LinkExternal, PromoteCapture,
           BindOther, UntieRitual, SetTask, AddTask, Label, Unlabel, CompleteTask, DeleteTask,
           GiveTaskToObjective, StartPass, LoadInitiatives, LoadPending, LoadElsewhere,
           ObserveAndPlan, BindCreated, BindAdopted, CaptureInitiative, BindCaptured,
           CreateRefused, ActionFails, BindFails, StopPass, Crash, FinishPass
  <2>2. PICK op \in todo, u \in Tasks : CreateTask(op, u) \/ CreateAnswerLost(op, u)
    BY <2>1
  <2>3. op.kind = "create" /\ task[u] = "unborn" /\ made' = [made EXCEPT ![u] = op.who]
    BY <2>2 DEF CreateTask, CreateAnswerLost, MakeTask
  <2>4. u = t /\ made'[t] = op.who /\ op.who \in Initiatives
    BY <2>3 DEF GuardsInv, TypeOK, PlannedOp
  <2>5. made[t] = None
    BY <2>3, <2>4 DEF GuardsInv, NobodyHasTheUnborn, Born
  <2>6. /\ row[op.who].origin = "created_in_prisme"
        /\ seen[op.who].anchor = None
        /\ pend[op.who] = None
    BY <2>3, <2>4 DEF GuardsInv, PlannedFromTheRead, OriginsAreFixed
  <2>7. QED BY <2>4, <2>5, <2>6
<1>2. QED BY <1>1, GuardsInvariant, PTL DEF Spec, AdoptedMakesNothing

(* Guard 1: the pass never takes a task its read showed bound to somebody. *)
THEOREM ReadBindingsAreKept == Spec => NoStealFromTheRead
<1> DEFINE Kept(i) ==
       (cur' # cur \/ todo' # todo) /\ row'[i].anchor \notin {row[i].anchor, None} =>
          /\ row'[i].anchor \notin BoundIds(seen)
          /\ row'[i].anchor \notin taken
<1>1. GuardsInv /\ [Next]_vars => [\A i \in Initiatives : Kept(i)]_vars
  <2> SUFFICES ASSUME GuardsInv, [Next]_vars, NEW i \in Initiatives,
                      cur' # cur \/ todo' # todo, row'[i].anchor \notin {row[i].anchor, None}
               PROVE  row'[i].anchor \notin BoundIds(seen) /\ row'[i].anchor \notin taken
    OBVIOUS
  <2> USE DEF GuardsInv, TypeOK
  <2>1. ~(UNCHANGED <<cur, todo>>) /\ row' # row
    OBVIOUS
  <2>2. ASSUME NEW op \in todo, NEW j \in Initiatives, CaptureInitiative(op, j) PROVE FALSE
    BY <2>2 DEF CaptureInitiative, NewRow
  <2>3. BindCreated \/ BindCaptured \/ \E op \in todo : BindAdopted(op)
    BY <2>1, <2>2
    DEF vars, passVars, dbVars, Next, Handlers, Others, People, Give, Reconcile, Read, Write,
        Fault, CreateInitiative, SetStatus, ConvertToKeyResult, AdoptCandidate, AdoptInboxTask,
        InsertAdopted, DecideAdoption, LinkExternal, PromoteCapture, BindOther, UntieRitual,
        SetTask, AddTask, Label, Unlabel, CompleteTask, DeleteTask, GiveTaskToObjective,
        StartPass, LoadInitiatives, LoadPending, LoadElsewhere, ObserveAndPlan, CreateTask,
        CreateAnswerLost, CreateRefused, ActionFails, BindFails, StopPass, Crash, FinishPass
  <2>4. CASE BindCreated \/ BindCaptured
    <3>1. row'[i].anchor = cur.task /\ cur # NoOp
      BY <2>4 DEF BindCreated, BindCaptured, Bind, Row, NoOp
    <3>2. QED BY <3>1 DEF BegunFromTheRead
  <2>5. ASSUME NEW op \in todo, BindAdopted(op) 
        PROVE  row'[i].anchor \notin BoundIds(seen) /\ row'[i].anchor \notin taken
    <3>1. row'[i].anchor = op.task /\ op.kind = "adopt"
      BY <2>5 DEF BindAdopted, Bind, Row
    <3>2. QED BY <3>1 DEF PlannedFromTheRead
  <2>6. QED BY <2>3, <2>4, <2>5
<1>2. QED BY <1>1, GuardsInvariant, PTL DEF Spec, NoStealFromTheRead

-----------------------------------------------------------------------------
(* Guard 3. *)

\* A plan creates for some of the initiatives, which are finitely many.
LEMMA PlannedCreatesFinite ==
    IsFiniteSet({op \in Plan(seen, pend, taken, task) : op.kind = "create"})
<1> DEFINE C == {op \in Plan(seen, pend, taken, task) : op.kind = "create"}
           Of == [i \in Initiatives |-> [kind |-> "create", who |-> i, task |-> None]]
           All == {Of[i] : i \in Initiatives}
<1>1. Of \in Surjection(Initiatives, All)
  BY DEF Surjection
<1>2. IsFiniteSet(All)
  BY <1>1, RowsAssumption, FS_Surjection
<1>3. C \subseteq All
  BY DEF Plan, Creates, Adopts, Captures
<1>4. QED BY <1>2, <1>3, FS_Subset

\* An attempt to create takes one from what is left, and makes one task at most.
LEMMA AttemptBudget ==
    ASSUME BudgetInv, NEW op \in todo, Ready(op), op.kind = "create", Begin(op), phase' = phase,
           batch' = batch \/ \E t : batch' = batch \cup {t}
    PROVE  BudgetInv'
<1>1. CreatesLeft' = CreatesLeft \ {op} /\ op \in CreatesLeft
  BY DEF CreatesLeft, Begin
<1>2. /\ IsFiniteSet(CreatesLeft) /\ IsFiniteSet(batch)
      /\ Cardinality(CreatesLeft) \in Nat /\ Cardinality(batch) \in Nat
  BY FS_CardinalityType DEF BudgetInv
<1>3. IsFiniteSet(CreatesLeft') /\ Cardinality(CreatesLeft') = Cardinality(CreatesLeft) - 1
  BY <1>1, <1>2, FS_RemoveElement
<1>4. /\ IsFiniteSet(batch') /\ Cardinality(batch') \in Nat
      /\ Cardinality(batch') <= Cardinality(batch) + 1
  <2>1. CASE batch' = batch
    BY <1>2, <2>1
  <2>2. ASSUME NEW t, batch' = batch \cup {t}
        PROVE  /\ IsFiniteSet(batch') /\ Cardinality(batch') \in Nat
               /\ Cardinality(batch') <= Cardinality(batch) + 1
    <3>1. /\ IsFiniteSet(batch \cup {t})
          /\ Cardinality(batch \cup {t})
               = IF t \in batch THEN Cardinality(batch) ELSE Cardinality(batch) + 1
      BY <1>2, FS_AddElement, Zenon
    <3>2. QED BY <1>2, <2>2, <3>1
  <2>3. QED BY <2>1, <2>2
<1>5. Cardinality(batch') + Cardinality(CreatesLeft') <= CreateThreshold
  BY <1>2, <1>3, <1>4, SettingsAssumption DEF BudgetInv
<1>6. phase' = "applying"
  BY DEF Ready
<1>7. QED BY <1>3, <1>4, <1>5, <1>6 DEF BudgetInv

\* What begins no creation leaves as many to make as before.
LEMMA OtherBudget ==
    ASSUME BudgetInv, CreatesLeft' = CreatesLeft, batch' = batch,
           phase' # "applying" => phase # "applying" /\ todo' = todo
    PROVE  BudgetInv'
BY DEF BudgetInv

\* A pass that is over has made nothing and has nothing to make.
LEMMA ResetBudget ==
    ASSUME Reset
    PROVE  BudgetInv'
<1>1. phase' = "idle" /\ todo' = {} /\ batch' = {}
  BY DEF Reset
<1>2. CreatesLeft' = {}
  BY <1>1 DEF CreatesLeft
<1>3. IsFiniteSet({}) /\ Cardinality({}) = 0
  BY FS_EmptySet
<1>4. QED BY <1>1, <1>2, <1>3, SettingsAssumption DEF BudgetInv

\* A plan is carried out only within the threshold.
LEMMA ReadsBudget ==
    ASSUME BudgetInv, StartPass \/ Read
    PROVE  BudgetInv'
<1>1. CASE StartPass \/ LoadInitiatives \/ LoadPending \/ LoadElsewhere
  <2>1. phase # "applying" /\ phase' # "applying" /\ UNCHANGED <<todo, batch>>
    BY <1>1 DEF StartPass, LoadInitiatives, LoadPending, LoadElsewhere
  <2>2. QED BY <2>1, OtherBudget DEF CreatesLeft
<1>2. CASE ObserveAndPlan
  <2> DEFINE ops == Plan(seen, pend, taken, task)
  <2>1. CASE Refused(ops)
    BY <1>2, <2>1, ResetBudget DEF ObserveAndPlan
  <2>2. CASE ~Refused(ops)
    <3>1. phase = "observing" /\ phase' = "applying" /\ todo' = ops /\ batch' = batch
      BY <1>2, <2>2 DEF ObserveAndPlan
    <3> HIDE DEF ops
    <3>2. CreatesLeft' = {op \in ops : op.kind = "create"}
      BY <3>1 DEF CreatesLeft
    <3>3. IsFiniteSet(CreatesLeft') /\ Cardinality(CreatesLeft') \in Nat
      BY <3>2, PlannedCreatesFinite, FS_CardinalityType DEF ops
    <3>4. ~(Cardinality(CreatesLeft') > CreateThreshold)
      BY <2>2, <3>2 DEF Refused
    <3>5. batch' = {} /\ IsFiniteSet({}) /\ Cardinality({}) = 0
      BY <3>1, FS_EmptySet DEF BudgetInv
    <3>6. QED BY <3>1, <3>3, <3>4, <3>5, SettingsAssumption DEF BudgetInv
  <2>3. QED BY <2>1, <2>2
<1>3. QED BY <1>1, <1>2 DEF Read

\* A create carried out takes one from what is left and adds one to what is
\* made.
LEMMA WritesBudget ==
    ASSUME BudgetInv, Write \/ FinishPass
    PROVE  BudgetInv'
<1>1. ASSUME NEW op \in todo, NEW t \in Tasks, CreateTask(op, t) PROVE BudgetInv'
  BY <1>1, AttemptBudget DEF CreateTask, MakeTask
<1>2. CASE BindCreated \/ BindCaptured
  <2>1. UNCHANGED <<phase, todo, batch>>
    BY <1>2 DEF BindCreated, BindCaptured
  <2>2. QED BY <2>1, OtherBudget DEF CreatesLeft
<1>3. ASSUME NEW op \in todo, BindAdopted(op) \/ \E i \in Initiatives : CaptureInitiative(op, i)
      PROVE  BudgetInv'
  <2>1. phase = "applying" /\ op.kind # "create" /\ todo' = todo \ {op} /\ UNCHANGED <<phase, batch>>
    BY <1>3 DEF BindAdopted, CaptureInitiative, Ready, Begin
  <2>2. CreatesLeft' = CreatesLeft
    BY <2>1 DEF CreatesLeft
  <2>3. QED BY <2>1, <2>2, OtherBudget
<1>4. CASE FinishPass
  BY <1>4, ResetBudget DEF FinishPass
<1>5. QED BY <1>1, <1>2, <1>3, <1>4 DEF Write

\* A create that fails, or whose answer is lost, takes one just as well.
LEMMA FaultsBudget ==
    ASSUME BudgetInv, Fault
    PROVE  BudgetInv'
<1>1. ASSUME NEW op \in todo, NEW t \in Tasks, CreateAnswerLost(op, t) PROVE BudgetInv'
  BY <1>1, AttemptBudget DEF CreateAnswerLost, MakeTask
<1>2. ASSUME NEW op \in todo, CreateRefused(op) PROVE BudgetInv'
  BY <1>2, AttemptBudget DEF CreateRefused
<1>3. ASSUME NEW op \in todo, ActionFails(op) PROVE BudgetInv'
  <2>1. phase = "applying" /\ op.kind # "create" /\ todo' = todo \ {op} /\ UNCHANGED <<phase, batch>>
    BY <1>3 DEF ActionFails, Ready, Begin
  <2>2. CreatesLeft' = CreatesLeft
    BY <2>1 DEF CreatesLeft
  <2>3. QED BY <2>1, <2>2, OtherBudget
<1>4. CASE BindFails
  <2>1. UNCHANGED <<phase, todo, batch>>
    BY <1>4 DEF BindFails
  <2>2. QED BY <2>1, OtherBudget DEF CreatesLeft
<1>5. CASE StopPass \/ Crash
  BY <1>5, ResetBudget DEF StopPass, Crash
<1>6. QED BY <1>1, <1>2, <1>3, <1>4, <1>5 DEF Fault

\* What happens outside the pass makes nothing in its name.
LEMMA OutsideBudget ==
    ASSUME BudgetInv, Handlers \/ Others \/ People \/ Give \/ UNCHANGED vars
    PROVE  BudgetInv'
<1>1. UNCHANGED <<phase, todo, batch>>
  BY DEF vars, Handlers, Others, People, Give, CreateInitiative, SetStatus, ConvertToKeyResult,
         MoveToGoal, AdoptCandidate, AdoptInboxTask, InsertAdopted, DecideAdoption, LinkExternal,
         PromoteCapture, BindOther, UntieRitual, SetTask, AddTask, Label, Unlabel, CompleteTask,
         DeleteTask, GiveTaskToObjective
<1>2. QED BY <1>1, OtherBudget DEF CreatesLeft

(* Guard 3: a pass makes no more tasks than SYNC_CREATE_THRESHOLD, however many *)
(* of its attempts fail, lose their answers or are made beside other writers.   *)
THEOREM ThresholdHolds == Spec => []CreatesWithinThreshold
<1>1. Init => BudgetInv
  <2> SUFFICES ASSUME Init PROVE BudgetInv
    OBVIOUS
  <2>1. todo = {} /\ batch = {} /\ CreatesLeft = {}
    BY DEF Init, CreatesLeft
  <2>2. IsFiniteSet({}) /\ Cardinality({}) = 0
    BY FS_EmptySet
  <2>3. QED BY <2>1, <2>2, SettingsAssumption DEF BudgetInv
<1>2. BudgetInv /\ [Next]_vars => BudgetInv'
  BY ReadsBudget, WritesBudget, FaultsBudget, OutsideBudget DEF Next, Reconcile
<1>3. BudgetInv => CreatesWithinThreshold
  <2> SUFFICES ASSUME BudgetInv PROVE CreatesWithinThreshold
    OBVIOUS
  <2>1. Cardinality(batch) \in Nat /\ Cardinality(CreatesLeft) \in Nat
    BY FS_CardinalityType DEF BudgetInv
  <2>2. QED BY <2>1, SettingsAssumption DEF BudgetInv, CreatesWithinThreshold
<1>4. QED BY <1>1, <1>2, <1>3, PTL DEF Spec

-----------------------------------------------------------------------------
(* A quiet pass settles. *)

\* Where links and rows come from, and that rows stay.
LEMMA BegunExists ==
    ASSUME BindingInv, cur # NoOp
    PROVE  Exists(cur.who) /\ cur.who \in Initiatives /\ cur.task \in Tasks
           /\ cur.kind \in {"create", "capture"}
<1>1. cur \in BegunOp
  BY DEF BindingInv, TypeOK
<1>2. cur.who \in Initiatives /\ cur.task \in Tasks /\ cur.kind \in {"create", "capture"}
  BY <1>1 DEF BegunOp
<1>3. CASE cur.kind = "create"
  BY <1>2, <1>3 DEF BindingInv, BegunHasOneTask, MakersExist
<1>4. CASE cur.kind = "capture"
  <2>1. BegunHasOneTask
    BY DEF BindingInv
  <2>2. QED BY <1>2, <1>4, <2>1 DEF BegunHasOneTask
<1>5. QED BY <1>2, <1>3, <1>4

\* The handlers link rows that exist to tasks that were made.
LEMMA HandlersStand ==
    ASSUME TypeOK, TypeOK', LinksStand, Handlers
    PROVE  LinksStand'
<1> USE DEF TypeOK, LinksStand, Exists
<1>1. ASSUME NEW i \in Initiatives, NEW t, ~Exists(i),
             \E o \in {"created_in_prisme", "adopted"} : row' = [row EXCEPT ![i] = NewRow(o, t)],
             UNCHANGED <<links, task>>
      PROVE  LinksStand'
  BY <1>1 DEF NewRow
<1>2. ASSUME NEW i \in Initiatives, NEW t \in Tasks, InsertAdopted(i, t), task[t] # "unborn"
      PROVE  LinksStand'
  BY <1>2 DEF InsertAdopted, NewRow
<1>3. ASSUME NEW i \in Initiatives, NEW s \in Statuses, SetStatus(i, s) PROVE LinksStand'
  BY <1>3 DEF SetStatus, Row
<1>4. ASSUME NEW i \in Initiatives, ConvertToKeyResult(i) PROVE LinksStand'
  BY <1>4 DEF ConvertToKeyResult, MoveToGoal
<1>5. ASSUME NEW i \in Initiatives, NEW t \in Tasks, DecideAdoption(i, t) PROVE LinksStand'
  BY <1>5 DEF DecideAdoption
<1>6. ASSUME NEW i \in Initiatives, NEW t \in Tasks, LinkExternal(i, t) PROVE LinksStand'
  BY <1>6 DEF LinkExternal, Row
<1>7. QED
  BY <1>1, <1>2, <1>3, <1>4, <1>5, <1>6
  DEF Handlers, CreateInitiative, AdoptCandidate, AdoptInboxTask, PromoteCapture, Live

\* Other entities, people and the objectives write no link and unmake no task.
LEMMA OutsideStand ==
    ASSUME TypeOK, TypeOK', LinksStand, Others \/ People \/ Give
    PROVE  LinksStand'
<1> USE DEF TypeOK, LinksStand, Exists
<1>1. ASSUME NEW i \in Initiatives, GiveTaskToObjective(i) PROVE LinksStand'
  BY <1>1 DEF GiveTaskToObjective, MoveToGoal
<1>2. ASSUME NEW t \in Tasks, NEW from, NEW to \in TaskStates \ {"unborn"}, SetTask(t, from, to)
      PROVE  LinksStand'
  BY <1>2 DEF SetTask
<1>3. {"plain", "labelled", "completed", "gone"} \subseteq TaskStates \ {"unborn"}
  BY DEF TaskStates
<1>4. ASSUME NEW t \in Tasks, People PROVE LinksStand'
  BY <1>2, <1>3, <1>4 DEF People, AddTask, Label, Unlabel, CompleteTask, DeleteTask
<1>5. CASE Others
  BY <1>5 DEF Others, BindOther, UntieRitual
<1>6. CASE People
  BY <1>4, <1>6 DEF People
<1>7. QED BY <1>1, <1>5, <1>6 DEF Give

\* A bind links what exists to what was made.
LEMMA BindStands ==
    ASSUME TypeOK, LinksStand, NEW i \in Initiatives, NEW t \in Tasks, NEW linked \in BOOLEAN,
           Bind(i, t, linked), Exists(i), task[t] # "unborn", task' = task
    PROVE  LinksStand'
BY DEF TypeOK, LinksStand, Bind, Exists, Row

\* The pass writes links by binds alone.
LEMMA PassStands ==
    ASSUME BindingInv, GuardsInv, LinksStand, Reconcile \/ Fault \/ UNCHANGED vars
    PROVE  LinksStand'
<1> USE DEF TypeOK, LinksStand, Exists, BindingInv
<1>1. CASE UNCHANGED <<row, links, task>>
  BY <1>1
<1>2. ASSUME NEW op \in todo, NEW t \in Tasks, CreateTask(op, t) \/ CreateAnswerLost(op, t)
      PROVE  LinksStand'
  BY <1>2 DEF CreateTask, CreateAnswerLost, MakeTask
<1>3. CASE BindCreated \/ BindCaptured
  <2>1. cur # NoOp
    <3>1. cur.kind \in {"create", "capture"}
      BY <1>3 DEF BindCreated, BindCaptured
    <3>2. NoOp.kind = "none"
      BY DEF NoOp
    <3>3. QED BY <3>1, <3>2
  <2>2. Exists(cur.who) /\ cur.who \in Initiatives /\ cur.task \in Tasks
    BY <2>1, BegunExists
  <2>3. task[cur.task] # "unborn"
    BY <2>1, <2>2 DEF GuardsInv, BegunFromTheRead, Born
  <2>4. task' = task
    BY <1>3 DEF BindCreated, BindCaptured
  <2>5. PICK linked \in BOOLEAN : Bind(cur.who, cur.task, linked)
    BY <1>3 DEF BindCreated, BindCaptured
  <2>6. TypeOK
    OBVIOUS
  <2> HIDE DEF TypeOK, LinksStand, Exists, BindingInv
  <2>7. QED BY <2>2, <2>3, <2>4, <2>5, <2>6, BindStands
<1>4. ASSUME NEW op \in todo, BindAdopted(op) PROVE LinksStand'
  <2>1. op \in PlannedOp /\ op.kind = "adopt"
    BY <1>4 DEF BindAdopted
  <2>2. op.who \in Initiatives /\ op.task \in Tasks
    BY <2>1 DEF PlannedOp
  <2>3. Exists(op.who)
    BY <2>1 DEF PlannedHasNoTask
  <2>4. task[op.task] # "unborn"
    BY <2>1, <2>2 DEF GuardsInv, PlannedFromTheRead, Born
  <2>5. task' = task /\ Bind(op.who, op.task, TRUE)
    BY <1>4 DEF BindAdopted
  <2>6. TypeOK
    OBVIOUS
  <2> HIDE DEF TypeOK, LinksStand, Exists, BindingInv
  <2>7. QED BY <2>2, <2>3, <2>4, <2>5, <2>6, BindStands
<1>5. ASSUME NEW op \in todo, NEW i \in Initiatives, CaptureInitiative(op, i) PROVE LinksStand'
  BY <1>5 DEF CaptureInitiative, NewRow
<1>6. QED
  BY <1>1, <1>2, <1>3, <1>4, <1>5
  DEF Reconcile, Read, Write, Fault, StartPass, LoadInitiatives, LoadPending, LoadElsewhere,
      ObserveAndPlan, FinishPass, CreateRefused, ActionFails, BindFails, StopPass, Crash, vars

\* LinksStand holds of every behaviour.
LEMMA LinksInvariant == Spec => []LinksStand
<1>1. Init => LinksStand
  BY DEF Init, LinksStand, Unlinked, AbsentRow, NewRow
<1>2. TypeOK /\ TypeOK' /\ BindingInv /\ GuardsInv /\ LinksStand /\ [Next]_vars => LinksStand'
  BY HandlersStand, OutsideStand, PassStands DEF Next
<1>3. QED BY <1>1, <1>2, TypeCorrect, BindingInvariant, GuardsInvariant, PTL DEF Spec

\* What is due depends on the database and the tool alone.
LEMMA DueKept ==
    ASSUME UNCHANGED <<row, holder, links, task>>
    PROVE  /\ \A i : CreateDue(i)' <=> CreateDue(i)
           /\ \A i, t : AdoptDue(i, t)' <=> AdoptDue(i, t)
           /\ \A t : CaptureDue(t)' <=> CaptureDue(t)
BY DEF CreateDue, AdoptDue, CaptureDue, Unbound, BoundElsewhere, BoundIds, Exists, Live

\* The plan has all that is due, one operation for each initiative.
LEMMA PlanHasDue ==
    ASSUME TypeOK, seen = row, IsPending(pend), taken = BoundElsewhere
    PROVE  LET ops == Plan(seen, pend, taken, task) IN
           /\ \A i \in Initiatives : CreateDue(i) =>
                 [kind |-> "create", who |-> i, task |-> None] \in ops
           /\ \A i \in Initiatives, t \in Tasks : AdoptDue(i, t) =>
                 [kind |-> "adopt", who |-> i, task |-> t] \in ops
           /\ \A t \in Tasks : CaptureDue(t) =>
                 [kind |-> "capture", who |-> None, task |-> t] \in ops
<1>1. ASSUME NEW i \in Initiatives, CreateDue(i)
      PROVE  [kind |-> "create", who |-> i, task |-> None] \in Creates(seen, pend)
  BY <1>1 DEF CreateDue, IsPending, Creates
<1>2. ASSUME NEW i \in Initiatives, NEW t \in Tasks, AdoptDue(i, t)
      PROVE  [kind |-> "adopt", who |-> i, task |-> t] \in Adopts(seen, pend, taken, task)
  <2>1. pend[i] \in Unbound(i) /\ \A u \in Unbound(i) : pend[i] <= u
    BY <1>2 DEF AdoptDue, IsPending
  <2>2. t \in Unbound(i) /\ \A u \in Unbound(i) : t <= u
    BY <1>2 DEF AdoptDue
  <2>3. pend[i] \in Nat /\ t \in Nat
    BY <2>1 DEF Unbound
  <2>4. pend[i] = t
    BY <2>1, <2>2, <2>3
  <2>5. AdoptablePending(seen, pend, taken, i) /\ task[pend[i]] \notin {"unborn", "gone"}
    BY <1>2, <2>4 DEF AdoptDue, AdoptablePending, Exists, Live
  <2>6. QED BY <2>4, <2>5 DEF Adopts
<1>3. ASSUME NEW t \in Tasks, CaptureDue(t)
      PROVE  [kind |-> "capture", who |-> None, task |-> t] \in Captures(seen, taken, task)
  BY <1>3 DEF CaptureDue, Captures
<1>4. QED BY <1>1, <1>2, <1>3 DEF Plan

\* The plan has one operation at most to anchor an initiative, and only for one
\* without an anchor.
LEMMA PlanIsOneEach ==
    ASSUME TypeOK, seen = row
    PROVE  \A op \in Plan(seen, pend, taken, task) : AnchorsOne(op) =>
              /\ row[op.who].anchor = None
              /\ \A o \in Plan(seen, pend, taken, task) : AnchorsOne(o) /\ o.who = op.who => o = op
<1> DEFINE Of(op) == \/ /\ op = [kind |-> "create", who |-> op.who, task |-> None]
                       /\ pend[op.who] = None
                    \/ /\ op = [kind |-> "adopt", who |-> op.who, task |-> pend[op.who]]
                       /\ pend[op.who] # None
<1>1. ASSUME NEW op \in Plan(seen, pend, taken, task), AnchorsOne(op)
      PROVE  Of(op) /\ row[op.who].anchor = None
  <2>1. CASE op \in Creates(seen, pend)
    BY <2>1 DEF Creates, MayCreateExternally
  <2>2. CASE op \in Adopts(seen, pend, taken, task)
    BY <2>2 DEF Adopts, AdoptablePending
  <2>3. op \notin Captures(seen, taken, task)
    BY <1>1 DEF Captures, AnchorsOne
  <2>4. QED BY <2>1, <2>2, <2>3 DEF Plan
<1>2. ASSUME NEW op, NEW o, Of(op), Of(o), o.who = op.who
      PROVE  o = op
  BY <1>2
<1> HIDE DEF Of
<1>3. QED BY <1>1, <1>2

\* A bind of an initiative that has no anchor changes what is due of that
\* initiative and of that task, and of no other.
LEMMA BindFrame ==
    ASSUME TypeOK, NEW i \in Initiatives, NEW t \in Tasks, NEW linked \in BOOLEAN,
           row[i].anchor = None, Bind(i, t, linked), task' = task
    PROVE  /\ row'[i].anchor = t
           /\ \A j \in Initiatives \ {i} : row'[j] = row[j]
           /\ ~CreateDue(i)'
           /\ \A j \in Initiatives \ {i} : CreateDue(j)' => CreateDue(j)
           /\ \A j \in Initiatives, u \in Tasks : AdoptDue(j, u)' => j # i /\ AdoptDue(j, u)
           /\ \A u \in Tasks : CaptureDue(u)' => u # t /\ CaptureDue(u)
<1>1. /\ row'[i].anchor = t /\ row' = [row EXCEPT ![i].anchor = t]
      /\ \A j \in Initiatives \ {i} : row'[j] = row[j]
  BY DEF Bind, TypeOK, Row
<1>2. BoundIds(row') = BoundIds(row) \cup {t}
  BY <1>1 DEF BoundIds
<1>3. \A u \in Tasks : holder'[u] = holder[u] \/ (u = t /\ holder[u] = None /\ holder'[u] = i)
  BY DEF Bind, TypeOK
<1>4. BoundElsewhere' = BoundElsewhere
  BY <1>3 DEF BoundElsewhere, OtherKinds
<1>5. \A j \in Initiatives \ {i}, u \in Tasks : <<j, u>> \in links' <=> <<j, u>> \in links
  BY DEF Bind
<1>6. \A j \in Initiatives \ {i} : Unbound(j)' = Unbound(j)
  BY <1>3, <1>5 DEF Unbound
<1>7. ~CreateDue(i)'
  BY <1>1 DEF CreateDue, MayCreateExternally
<1>8. \A j \in Initiatives \ {i} : CreateDue(j)' => CreateDue(j)
  BY <1>1, <1>6 DEF CreateDue
<1>9. \A u \in Tasks : ~AdoptDue(i, u)'
  BY <1>1 DEF AdoptDue
<1>10. \A j \in Initiatives \ {i}, u \in Tasks : AdoptDue(j, u)' => AdoptDue(j, u)
  BY <1>1, <1>2, <1>4, <1>6 DEF AdoptDue, Exists, Live
<1>11. \A u \in Tasks : CaptureDue(u)' => u # t /\ CaptureDue(u)
  BY <1>2, <1>4 DEF CaptureDue
<1>12. QED BY <1>1, <1>7, <1>8, <1>9, <1>10, <1>11

\* The reads of a quiet pass agree with the database, and its plan has all that is due.
LEMMA QuietReads ==
    ASSUME TypeOK, PassIsOrdered, QuietInv, StartPass \/ Read, Proceeds
    PROVE  QuietInv'
<1> SUFFICES ASSUME quiet' PROVE QuietInv'
  BY DEF QuietInv
<1>1. phase # "applying" /\ todo = {} /\ cur = NoOp
  BY DEF StartPass, Read, LoadInitiatives, LoadPending, LoadElsewhere, ObserveAndPlan, PassIsOrdered
<1>2. UNCHANGED <<row, holder, links, task>>
  BY DEF StartPass, Read, LoadInitiatives, LoadPending, LoadElsewhere, ObserveAndPlan
<1>3. BoundElsewhere' = BoundElsewhere /\ \A p : IsPending(p)' <=> IsPending(p)
  BY <1>2 DEF BoundElsewhere, IsPending, Unbound
<1>4. phase = "idle" \/ quiet
  BY DEF Proceeds
<1>5. CASE StartPass
  BY <1>5 DEF StartPass, QuietInv
<1>6. CASE LoadInitiatives
  BY <1>6 DEF LoadInitiatives, QuietInv
<1>7. CASE LoadPending
  BY <1>3, <1>4, <1>7 DEF LoadPending, QuietInv
<1>8. CASE LoadElsewhere
  BY <1>2, <1>3, <1>4, <1>8 DEF LoadElsewhere, QuietInv
<1>9. CASE ObserveAndPlan
  <2> DEFINE ops == Plan(seen, pend, taken, task)
  <2>1. phase' # "idle" /\ quiet
    BY <1>9 DEF Proceeds, ObserveAndPlan
  <2>2. phase' = "applying" /\ todo' = ops /\ cur' = NoOp
    BY <1>1, <1>9, <2>1 DEF ObserveAndPlan, Reset
  <2>3. seen = row /\ IsPending(pend) /\ taken = BoundElsewhere
    BY <1>9, <2>1 DEF ObserveAndPlan, QuietInv
  <2>4. /\ \A i \in Initiatives : CreateDue(i) =>
              [kind |-> "create", who |-> i, task |-> None] \in ops
        /\ \A i \in Initiatives, t \in Tasks : AdoptDue(i, t) =>
              [kind |-> "adopt", who |-> i, task |-> t] \in ops
        /\ \A t \in Tasks : CaptureDue(t) =>
              [kind |-> "capture", who |-> None, task |-> t] \in ops
    BY <2>3, PlanHasDue
  <2>5. \A op \in ops : AnchorsOne(op) =>
              /\ row[op.who].anchor = None
              /\ \A o \in ops : AnchorsOne(o) /\ o.who = op.who => o = op
    BY <2>3, PlanIsOneEach
  <2>6. /\ \A i : CreateDue(i)' <=> CreateDue(i)
        /\ \A i, t : AdoptDue(i, t)' <=> AdoptDue(i, t)
        /\ \A t : CaptureDue(t)' <=> CaptureDue(t)
    BY <1>2, DueKept
  <2> HIDE DEF ops
  <2>7. DueIsPlanned'
    BY <2>2, <2>4, <2>6 DEF DueIsPlanned
  <2>8. OneOperationEach'
    BY <1>2, <2>2, <2>5 DEF OneOperationEach
  <2>9. QED BY <2>2, <2>7, <2>8 DEF QuietInv
<1>10. QED BY <1>5, <1>6, <1>7, <1>8, <1>9 DEF Read

\* An operation begun takes what it is for from the plan to the hand: a create
\* with its task made, a capture with its row written.
LEMMA QuietBegins ==
    ASSUME TypeOK, TypeOK', LinksStand, DueIsPlanned, OneOperationEach, NEW op \in todo,
           \/ \E t \in Tasks : CreateTask(op, t)
           \/ \E i \in Initiatives : CaptureInitiative(op, i)
    PROVE  DueIsPlanned' /\ OneOperationEach'
<1>1. op \in PlannedOp /\ cur = NoOp /\ todo' = todo \ {op} /\ todo \subseteq PlannedOp
  BY DEF CreateTask, CaptureInitiative, Ready, Begin, TypeOK
<1>2. NoOp.kind = "none"
  BY DEF NoOp
<1>3. ASSUME NEW t \in Tasks, CreateTask(op, t) PROVE DueIsPlanned' /\ OneOperationEach'
  <2>1. /\ op.kind = "create" /\ op.who \in Initiatives
        /\ op = [kind |-> "create", who |-> op.who, task |-> None]
    BY <1>1, <1>3 DEF CreateTask, PlannedOp
  <2>2. /\ cur' = [kind |-> "create", who |-> op.who, task |-> t]
        /\ task[t] = "unborn" /\ task' = [task EXCEPT ![t] = "labelled"]
        /\ UNCHANGED <<row, holder, links>>
    BY <1>3 DEF CreateTask, MakeTask
  <2>3. /\ cur'.kind = "create" /\ cur'.who = op.who /\ cur'.task = t /\ cur' # NoOp
    BY <2>2 DEF NoOp
  <2>4. /\ BoundElsewhere' = BoundElsewhere /\ BoundIds(row)' = BoundIds(row)
        /\ \A i : Unbound(i)' = Unbound(i) /\ (Exists(i)' <=> Exists(i))
    BY <2>2 DEF BoundElsewhere, BoundIds, Unbound, Exists
  <2>5. \A i : CreateDue(i)' => CreateDue(i)
    BY <2>2, <2>4 DEF CreateDue
  <2>6. \A u \in Tasks : u # t => task'[u] = task[u]
    BY <2>2 DEF TypeOK
  <2>7. \A i \in Initiatives, u \in Tasks : AdoptDue(i, u)' => u # t /\ AdoptDue(i, u)
    BY <2>2, <2>4, <2>6 DEF AdoptDue, Live, LinksStand, Unbound
  <2>8. \A u \in Tasks : CaptureDue(u)' => u = t \/ CaptureDue(u)
    BY <2>2, <2>4, <2>6 DEF CaptureDue
  <2>9. DueIsPlanned'
    BY <1>1, <1>2, <2>1, <2>3, <2>5, <2>7, <2>8 DEF DueIsPlanned
  <2>10. OneOperationEach'
    BY <1>1, <2>1, <2>2, <2>3 DEF OneOperationEach, AnchorsOne
  <2>11. QED BY <2>9, <2>10
<1>4. ASSUME NEW i \in Initiatives, CaptureInitiative(op, i) PROVE DueIsPlanned' /\ OneOperationEach'
  <2>1. /\ op.task \in Tasks /\ ~Exists(i)
        /\ op = [kind |-> "capture", who |-> None, task |-> op.task]
    BY <1>1, <1>4 DEF CaptureInitiative, PlannedOp
  <2>2. /\ cur' = [kind |-> "capture", who |-> i, task |-> op.task]
        /\ row' = [row EXCEPT ![i] = NewRow("adopted", None)]
        /\ UNCHANGED <<holder, links, task>>
        /\ \A o \in todo : o.kind = "capture"
    BY <1>4 DEF CaptureInitiative, Ready
  <2>3. cur'.who = i /\ cur'.task = op.task /\ cur' # NoOp
    BY <2>2 DEF NoOp
  <2>4. /\ row'[i].origin = "adopted" /\ row'[i].anchor = None /\ row[i].anchor = None
        /\ \A j \in Initiatives \ {i} : row'[j] = row[j]
    BY <2>1, <2>2 DEF NewRow, LinksStand, TypeOK
  <2>5. BoundElsewhere' = BoundElsewhere /\ \A j : Unbound(j)' = Unbound(j)
    BY <2>2 DEF BoundElsewhere, Unbound
  <2>6. \A j \in Initiatives : row'[j].anchor = row[j].anchor
    BY <2>4
  <2>7. BoundIds(row)' = BoundIds(row)
    BY <2>6 DEF BoundIds
  <2>8. Unbound(i) = {}
    BY <2>1 DEF Unbound, LinksStand
  <2>9. \A j \in Initiatives : CreateDue(j)' => CreateDue(j)
    BY <2>4, <2>5 DEF CreateDue, MayCreateExternally
  <2>10. \A j \in Initiatives, u \in Tasks : AdoptDue(j, u)' => AdoptDue(j, u)
    BY <2>2, <2>4, <2>5, <2>7, <2>8 DEF AdoptDue, Live, Exists
  <2>11. \A u \in Tasks : CaptureDue(u)' => CaptureDue(u)
    BY <2>2, <2>5, <2>7 DEF CaptureDue
  <2>12. DueIsPlanned'
    BY <1>1, <1>2, <2>1, <2>3, <2>9, <2>10, <2>11 DEF DueIsPlanned
  <2>13. OneOperationEach'
    BY <1>1, <2>2, <2>3, <2>4 DEF OneOperationEach, AnchorsOne
  <2>14. QED BY <2>12, <2>13
<1>5. QED BY <1>3, <1>4

\* A bind carried out answers for its initiative and its task, and leaves what
\* the other operations are for.
LEMMA QuietBinds ==
    ASSUME TypeOK, TypeOK', BindingInv, DueIsPlanned, OneOperationEach,
           \/ BindCreated
           \/ BindCaptured
           \/ \E op \in todo : BindAdopted(op)
    PROVE  DueIsPlanned' /\ OneOperationEach'
<1>1. NoOp.kind = "none" /\ todo \subseteq PlannedOp
  BY DEF NoOp, TypeOK
<1>2. CASE BindCreated \/ BindCaptured
  <2>1. cur # NoOp
    BY <1>1, <1>2 DEF BindCreated, BindCaptured
  <2>2. cur.who \in Initiatives /\ cur.task \in Tasks
    BY <2>1, BegunExists
  <2>3. PICK linked \in BOOLEAN : Bind(cur.who, cur.task, linked)
    BY <1>2 DEF BindCreated, BindCaptured
  <2>4. task' = task /\ todo' = todo /\ cur' = NoOp
    BY <1>2 DEF BindCreated, BindCaptured
  <2>5. /\ row[cur.who].anchor = None
        /\ \A op \in todo : AnchorsOne(op) => op.who # cur.who
    BY <2>1 DEF OneOperationEach
  <2>6. PICK i \in Initiatives, t \in Tasks : i = cur.who /\ t = cur.task
    BY <2>2
  <2>7. Bind(i, t, linked) /\ row[i].anchor = None
    BY <2>3, <2>5, <2>6
  <2>8. /\ \A j \in Initiatives \ {i} : row'[j] = row[j]
        /\ ~CreateDue(i)'
        /\ \A j \in Initiatives \ {i} : CreateDue(j)' => CreateDue(j)
        /\ \A j \in Initiatives, u \in Tasks : AdoptDue(j, u)' => j # i /\ AdoptDue(j, u)
        /\ \A u \in Tasks : CaptureDue(u)' => u # t /\ CaptureDue(u)
    BY <2>4, <2>7, BindFrame
  <2>9. DueIsPlanned'
    BY <1>1, <2>4, <2>8, <2>6 DEF DueIsPlanned
  <2>10. \A op \in todo : AnchorsOne(op) => op.who \in Initiatives
    BY <1>1 DEF AnchorsOne, PlannedOp
  <2>11. OneOperationEach'
    BY <2>4, <2>5, <2>8, <2>10, <2>6 DEF OneOperationEach
  <2>12. QED BY <2>9, <2>11
<1>3. ASSUME NEW op \in todo, BindAdopted(op) PROVE DueIsPlanned' /\ OneOperationEach'
  <2>1. op \in PlannedOp /\ op.kind = "adopt" /\ cur = NoOp
    BY <1>1, <1>3 DEF BindAdopted, Ready
  <2>2. op.who \in Initiatives /\ op.task \in Tasks
    BY <2>1 DEF PlannedOp
  <2>3. Bind(op.who, op.task, TRUE) /\ task' = task /\ todo' = todo \ {op} /\ cur' = NoOp
    BY <1>3, <2>1 DEF BindAdopted, Begin
  <2>4. /\ row[op.who].anchor = None
        /\ \A o \in todo : AnchorsOne(o) /\ o.who = op.who => o = op
    BY <2>1 DEF OneOperationEach, AnchorsOne
  <2>5. /\ \A j \in Initiatives \ {op.who} : row'[j] = row[j]
        /\ ~CreateDue(op.who)'
        /\ \A j \in Initiatives \ {op.who} : CreateDue(j)' => CreateDue(j)
        /\ \A j \in Initiatives, u \in Tasks : AdoptDue(j, u)' => j # op.who /\ AdoptDue(j, u)
        /\ \A u \in Tasks : CaptureDue(u)' => u # op.task /\ CaptureDue(u)
    BY <2>2, <2>3, <2>4, BindFrame
  <2>6. DueIsPlanned'
    BY <1>1, <2>1, <2>3, <2>5 DEF DueIsPlanned
  <2>7. \A o \in todo : AnchorsOne(o) => o.who \in Initiatives
    BY <1>1 DEF AnchorsOne, PlannedOp
  <2>8. OneOperationEach'
    BY <2>3, <2>4, <2>5, <2>7 DEF OneOperationEach
  <2>9. QED BY <2>6, <2>8
<1>4. QED BY <1>2, <1>3

\* A quiet pass that ends has nothing left that is due.
LEMMA QuietEnds ==
    ASSUME DueIsPlanned, OneOperationEach, FinishPass
    PROVE  DueIsPlanned' /\ OneOperationEach'
<1>1. todo = {} /\ cur = NoOp /\ todo' = {} /\ cur' = NoOp /\ UNCHANGED <<row, holder, links, task>>
  BY DEF FinishPass, Reset
<1>2. /\ \A i : CreateDue(i)' <=> CreateDue(i)
      /\ \A i, t : AdoptDue(i, t)' <=> AdoptDue(i, t)
      /\ \A t : CaptureDue(t)' <=> CaptureDue(t)
  BY <1>1, DueKept
<1>3. DueIsPlanned'
  BY <1>1, <1>2 DEF DueIsPlanned
<1>4. OneOperationEach'
  BY <1>1 DEF OneOperationEach
<1>5. QED BY <1>3, <1>4

\* Every step keeps it.
LEMMA QuietStep ==
    ASSUME TypeOK, TypeOK', BindingInv, LinksStand, QuietInv, [QuietNext]_quietVars
    PROVE  QuietInv'
<1>0. PassIsOrdered
  BY DEF BindingInv
<1>1. CASE Interferes
  BY <1>1 DEF Interferes, QuietInv
<1>2. CASE Gives
  BY <1>2 DEF Gives, Give, GiveTaskToObjective, QuietInv, passVars
<1>3. CASE UNCHANGED quietVars
  <2>1. UNCHANGED <<row, holder, links, task, phase, seen, pend, taken, todo, cur, quiet>>
    BY <1>3 DEF quietVars, vars
  <2>2. /\ \A i : CreateDue(i)' <=> CreateDue(i)
        /\ \A i, t : AdoptDue(i, t)' <=> AdoptDue(i, t)
        /\ \A t : CaptureDue(t)' <=> CaptureDue(t)
    BY <2>1, DueKept
  <2>3. BoundElsewhere' = BoundElsewhere /\ (IsPending(pend)' <=> IsPending(pend))
    BY <2>1 DEF BoundElsewhere, IsPending, Unbound
  <2>4. DueIsPlanned' <=> DueIsPlanned
    BY <2>1, <2>2 DEF DueIsPlanned
  <2>5. OneOperationEach' <=> OneOperationEach
    BY <2>1 DEF OneOperationEach
  <2>6. QED BY <2>1, <2>3, <2>4, <2>5 DEF QuietInv
<1>4. CASE Proceeds /\ (StartPass \/ Read)
  BY <1>0, <1>4, QuietReads
<1>5. CASE Proceeds /\ (Write \/ FinishPass)
  <2> SUFFICES ASSUME quiet' PROVE QuietInv'
    BY DEF QuietInv
  <2>1. phase = "applying"
    <3>1. CASE BindCreated \/ BindCaptured
      <4>1. cur.kind \in {"create", "capture"}
        BY <3>1 DEF BindCreated, BindCaptured
      <4>2. NoOp.kind = "none"
        BY DEF NoOp
      <4>3. QED BY <1>0, <4>1, <4>2 DEF PassIsOrdered
    <3>2. CASE FinishPass
      BY <3>2 DEF FinishPass
    <3>3. QED
      BY <1>5, <3>1, <3>2 DEF Write, CreateTask, BindAdopted, CaptureInitiative, Ready
  <2>2. phase' \in {"applying", "idle"}
    BY <1>5, <2>1 DEF Write, CreateTask, BindCreated, BindAdopted, CaptureInitiative,
                      BindCaptured, FinishPass, Reset
  <2>3. DueIsPlanned /\ OneOperationEach
    BY <1>5, <2>1 DEF Proceeds, QuietInv
  <2>4. DueIsPlanned' /\ OneOperationEach'
    BY <1>5, <2>3, QuietBegins, QuietBinds, QuietEnds DEF Write
  <2>5. QED BY <2>2, <2>4 DEF QuietInv
<1>6. QED
  BY <1>1, <1>2, <1>3, <1>4, <1>5 DEF QuietNext, Proceeds, Reconcile

\* With nothing planned and nothing in hand, nothing is due; and what is due is
\* all that a plan would hold.
LEMMA SettledPlansNothing ==
    ASSUME TypeOK, PassIsOrdered, QuietInv
    PROVE  QuietPassSettles
<1> SUFFICES ASSUME phase = "idle", quiet,
                    NEW p \in [Initiatives -> Tasks \cup {None}], IsPending(p)
             PROVE  Plan(row, p, BoundElsewhere, task) = {}
  BY DEF QuietPassSettles
<1>1. todo = {} /\ cur = NoOp /\ DueIsPlanned
  BY DEF PassIsOrdered, QuietInv
<1>2. NoOp.kind = "none"
  BY DEF NoOp
<1>3. /\ \A i \in Initiatives : ~CreateDue(i)
      /\ \A i \in Initiatives, t \in Tasks : ~AdoptDue(i, t)
      /\ \A t \in Tasks : ~CaptureDue(t)
  BY <1>1, <1>2 DEF DueIsPlanned
<1>4. Creates(row, p) = {}
  <2>1. ASSUME NEW i \in Initiatives, p[i] = None, Unbound(i) # {} PROVE FALSE
    <3>1. p[i] \in Unbound(i)
      BY <2>1 DEF IsPending
    <3>2. QED BY <2>1, <3>1 DEF Unbound
  <2>2. QED BY <1>3, <2>1 DEF Creates, CreateDue
<1>5. Adopts(row, p, BoundElsewhere, task) = {}
  <2>1. \A i \in Initiatives : p[i] # None =>
           p[i] \in Tasks /\ p[i] \in Unbound(i) /\ \A t \in Unbound(i) : p[i] <= t
    BY DEF IsPending
  <2>2. ASSUME NEW i \in Initiatives, AdoptablePending(row, p, BoundElsewhere, i),
               task[p[i]] \notin {"unborn", "gone"}
        PROVE  AdoptDue(i, p[i])
    BY <2>1, <2>2 DEF AdoptablePending, AdoptDue, Exists, Live
  <2>3. \A i \in Initiatives : AdoptablePending(row, p, BoundElsewhere, i) => p[i] \in Tasks
    BY <2>1 DEF AdoptablePending
  <2>4. QED BY <1>3, <2>2, <2>3 DEF Adopts
<1>6. Captures(row, BoundElsewhere, task) = {}
  BY <1>3 DEF Captures, CaptureDue
<1>7. QED BY <1>4, <1>5, <1>6 DEF Plan

\* Telling passes apart changes nothing of what they do.
LEMMA QuietIsBinding == QuietSpec => Spec
<1>1. QuietInit => Init
  BY DEF QuietInit
<1>2. [QuietNext]_quietVars => [Next]_vars
  BY DEF QuietNext, Interferes, Proceeds, Gives, Next, quietVars
<1>3. QED BY <1>1, <1>2, PTL DEF QuietSpec, Spec

(* A pass that nothing interfered with leaves nothing to make, link or capture: *)
(* planned again at once it is empty, so the reconciler does not oscillate,     *)
(* whatever the database and the tool held when it began.                       *)
THEOREM QuietPassesSettle == QuietSpec => []QuietPassSettles
<1>1. QuietInit => QuietInv
  BY DEF QuietInit, QuietInv
<1>2. TypeOK /\ TypeOK' /\ BindingInv /\ LinksStand /\ QuietInv /\ [QuietNext]_quietVars
         => QuietInv'
  BY QuietStep
<1>3. BindingInv /\ QuietInv => QuietPassSettles
  BY SettledPlansNothing DEF BindingInv
<1>4. QuietSpec => [](TypeOK /\ BindingInv /\ LinksStand)
  BY QuietIsBinding, TypeCorrect, BindingInvariant, LinksInvariant, PTL
<1>5. QED BY <1>1, <1>2, <1>3, <1>4, PTL DEF QuietSpec

=============================================================================
