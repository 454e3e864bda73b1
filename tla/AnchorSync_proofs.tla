--------------------------- MODULE AnchorSync_proofs --------------------------
(***************************************************************************)
(* Proofs about AnchorSync, for every set of fields, values, places and    *)
(* subtasks, and any number of edits, passes and faults.                   *)
(***************************************************************************)
EXTENDS AnchorSync, TLAPS

\* What a field holds.
LEMMA DataTypes ==
    /\ "label" \in Fields /\ "location" \in Fields /\ "priority" \in Fields
    /\ DataOf("label") = SUBSET Labels
    /\ DataOf("location") = Places
    /\ \A f \in Fields \ {"label", "location"} : DataOf(f) = Values
BY DEF Fields, Owned, DataOf

\* A task is a function of the fields that gives each field its kind of value.
LEMMA TaskFields ==
    ASSUME NEW t \in Tasks
    PROVE  /\ t = [f \in Fields |-> t[f]]
           /\ \A f \in Fields : t[f] \in DataOf(f)
<1>1. PICK l \in SUBSET Labels, v \in [Fields \ {"label"} -> Values \cup Places] :
         /\ \A f \in Fields \ {"label"} : v[f] \in DataOf(f)
         /\ t = [f \in Fields |-> IF f = "label" THEN l ELSE v[f]]
  BY DEF Tasks
<1>2. QED BY <1>1, DataTypes

\* And every such function is a task.
LEMMA TaskMade ==
    ASSUME NEW t, t = [f \in Fields |-> t[f]],
           \A f \in Fields : t[f] \in DataOf(f)
    PROVE  t \in Tasks
<1> DEFINE v == [f \in Fields \ {"label"} |-> t[f]]
<1>1. \A f \in Fields \ {"label"} : v[f] \in DataOf(f) /\ v[f] \in Values \cup Places
  BY DataTypes
<1>2. v \in {u \in [Fields \ {"label"} -> Values \cup Places] :
                \A f \in Fields \ {"label"} : u[f] \in DataOf(f)}
  BY <1>1
<1>3. t["label"] \in SUBSET Labels
  BY DataTypes
<1>4. t = [f \in Fields |-> IF f = "label" THEN t["label"] ELSE v[f]]
  <2>1. \A f \in Fields : t[f] = IF f = "label" THEN t["label"] ELSE v[f]
    OBVIOUS
  <2>2. QED BY <2>1
<1> DEFINE V == {u \in [Fields \ {"label"} -> Values \cup Places] :
                   \A f \in Fields \ {"label"} : u[f] \in DataOf(f)}
<1>5. \E l \in SUBSET Labels, u \in V :
         t = [f \in Fields |-> IF f = "label" THEN l ELSE u[f]]
  <2> HIDE DEF V, v
  <2>1. v \in V BY <1>2 DEF V
  <2>2. QED BY <2>1, <1>3, <1>4
<1>6. QED
  <2> HIDE DEF v
  <2>1. PICK l \in SUBSET Labels, u \in V :
           t = [f \in Fields |-> IF f = "label" THEN l ELSE u[f]]
    BY <1>5
  <2>2. QED BY <2>1 DEF Tasks

\* A patch that the tool takes leaves a task.
LEMMA AcceptType ==
    ASSUME TypeOK, NEW p, IsPatch(p), Accept(p)
    PROVE  /\ tool' \in Tasks
           /\ \A f \in Fields : ours'[f] \subseteq DataOf(f)
           /\ touched' \subseteq Fields
<1>1. tool \in Tasks BY DEF TypeOK
<1>2. \A f \in Fields : tool[f] \in DataOf(f) BY <1>1, TaskFields
<1>3. /\ tool' = [f \in Fields |-> tool'[f]]
      /\ \A f \in Fields : tool'[f] \in DataOf(f)
  BY <1>2 DEF Accept, IsPatch
<1>4. tool' \in Tasks BY <1>3, TaskMade
<1>5. QED BY <1>4 DEF Accept, IsPatch, TypeOK

-----------------------------------------------------------------------------
(* The plan. *)

\* The verdict, case by case.
LEMMA Verdicts ==
    ASSUME NEW d, NEW o, NEW r
    PROVE  /\ Classify(d, o, r) = "update" => d # o /\ r \in {None, o}
           /\ Classify(d, o, r) = "conflict" => d # o /\ r # None /\ r # o
           /\ d # o /\ r # None /\ r # o => Classify(d, o, r) = "conflict"
<1>1. d = o => Classify(d, o, r) = "skip"
  BY DEF Classify
<1>2. d # o /\ r \in {None, o} => Classify(d, o, r) = "update"
  BY DEF Classify
<1>3. d # o /\ r \notin {None, o} => Classify(d, o, r) = "conflict"
  BY DEF Classify
<1>4. QED BY <1>1, <1>2, <1>3

\* A field that is written is written as it will be recorded.
LEMMA SentIsDesired ==
    ASSUME NEW w, NEW t, NEW l, NEW f \in Diffed \ {"label"},
           Desired(f, w, t, l) # Observed(f, t)
    PROVE  Sent(f, w, t) = Desired(f, w, t, l) /\ Desired(f, w, t, l) = w.want[f]
BY DEF Desired, Observed, Sent

\* What Write makes, of fields whose values differ.
LEMMA WriteSound ==
    ASSUME NEW w \in [want : Wants, status : Statuses], NEW t \in Tasks, NEW l,
           NEW stage \in Stages, NEW F \in SUBSET Owned, NEW k \in SUBSET Owned,
           \A f \in F : f = "label" \/ Desired(f, w, t, l) # Observed(f, t),
           "location" \in F => w.want["location"] # None
    PROVE  LET a == Write(stage, F, w, t, l, k) IN
           /\ IsAction(a) /\ Sound(a)
           /\ Writes(a) = F /\ DOMAIN a.record = F
           /\ a.status = None
<1> DEFINE a == Write(stage, F, w, t, l, k)
           p == [f \in F |-> Sent(f, w, t)]
<1>1. /\ a.stage = stage /\ a.status = None /\ a.patches = {p} /\ a.conflict = k
      /\ a.record = [f \in F |-> Desired(f, w, t, l)]
      /\ DOMAIN a = {"stage", "status", "patches", "record", "conflict"}
  BY DEF Write
<1>2. F \subseteq Fields BY DEF Fields
<1>3. ASSUME NEW f \in F, f # "label"
      PROVE  Sent(f, w, t) = Desired(f, w, t, l) /\ Desired(f, w, t, l) = w.want[f]
  BY <1>3 DEF Desired, Observed, Sent
<1>4. ASSUME NEW f \in F, f # "label" PROVE w.want[f] \in DataOf(f)
  <2>1. f \in Wanted BY <1>4 DEF Wanted
  <2>2. w.want \in Wants OBVIOUS
  <2>3. CASE f = "location" BY <2>2, <2>3, DataTypes DEF Wants
  <2>4. CASE f # "location" BY <1>2, <1>4, <2>1, <2>2, <2>4, DataTypes DEF Wants
  <2>5. QED BY <2>3, <2>4
<1>5. Sent("label", w, t) \in DataOf("label")
  <2>1. t["label"] \in SUBSET Labels BY TaskFields, DataTypes
  <2>2. QED BY <2>1, DataTypes DEF Sent, Labels
<1>6. IsPatch(p)
  BY <1>2, <1>3, <1>4, <1>5 DEF IsPatch
<1>7. \A f \in F : Desired(f, w, t, l) \in Values \cup Places \cup {"present"}
  <2>1. Desired("label", w, t, l) = "present" BY DEF Desired
  <2>2. ASSUME NEW f \in F, f # "label" PROVE w.want[f] \in Values \cup Places
    BY <2>2, <1>2, <1>4, DataTypes
  <2>3. QED BY <2>1, <2>2, <1>3
<1>8. IsAction(a)
  BY <1>1, <1>2, <1>6, <1>7 DEF IsAction
<1>9. Writes(a) = F
  BY <1>1 DEF Writes
<1>10. Sound(a)
  BY <1>1, <1>3, <1>9 DEF Sound
<1>11. QED BY <1>1, <1>8, <1>9, <1>10

\* The fields of one verdict.
LEMMA VerdictFields ==
    ASSUME NEW w, NEW t, NEW l
    PROVE  /\ \A f \in WithVerdict("update", w, t, l) :
                 /\ f \in Diffed
                 /\ f = "label" \/ Desired(f, w, t, l) # Observed(f, t)
                 /\ f # "label" => l[f] \in {None, t[f]}
           /\ \A f \in WithVerdict("conflict", w, t, l) :
                 /\ f \in Diffed
                 /\ f \notin WithVerdict("update", w, t, l)
                 /\ f = "label" \/ Desired(f, w, t, l) # Observed(f, t)
                 /\ f # "label" => l[f] \notin {None, t[f]}
<1>1. \A f \in Diffed \ {"label"} : Observed(f, t) = t[f]
  BY DEF Observed
<1>2. ASSUME NEW f \in WithVerdict("update", w, t, l)
      PROVE  /\ f \in Diffed
             /\ f = "label" \/ Desired(f, w, t, l) # Observed(f, t)
             /\ f # "label" => l[f] \in {None, t[f]}
  <2>1. f \in Diffed /\ Verdict(f, w, t, l) = "update"
    BY DEF WithVerdict
  <2>2. Desired(f, w, t, l) # Observed(f, t) /\ l[f] \in {None, Observed(f, t)}
    BY <2>1, Verdicts DEF Verdict
  <2>3. QED BY <1>1, <2>1, <2>2
<1>3. ASSUME NEW f \in WithVerdict("conflict", w, t, l)
      PROVE  /\ f \in Diffed
             /\ f \notin WithVerdict("update", w, t, l)
             /\ f = "label" \/ Desired(f, w, t, l) # Observed(f, t)
             /\ f # "label" => l[f] \notin {None, t[f]}
  <2>1. f \in Diffed /\ Verdict(f, w, t, l) = "conflict"
    BY DEF WithVerdict
  <2>2. Desired(f, w, t, l) # Observed(f, t) /\ l[f] \notin {None, Observed(f, t)}
    BY <2>1, Verdicts DEF Verdict
  <2>3. f \notin WithVerdict("update", w, t, l)
    BY <2>1 DEF WithVerdict
  <2>4. QED BY <1>1, <2>1, <2>2, <2>3
<1>4. QED BY <1>2, <1>3

\* What is promised of each action of a plan.
Proper(a, t, l) ==
    /\ IsAction(a) /\ Sound(a) /\ DOMAIN a.record \subseteq Writes(a)
    /\ \A f \in (Writes(a) \cap Owned) \ {"label"} :
          l[f] \notin {None, t[f]} => f \in a.conflict
    /\ \A f \in a.conflict \ {"label"} : l[f] \notin {None, t[f]}
    /\ \A x \in Writes(a) \cap Children : MayPropagate(x, t, l)

\* Writes to the anchor, of fields that differ, are proper.
LEMMA WriteProper ==
    ASSUME NEW w \in [want : Wants, status : Statuses], NEW t \in Tasks, NEW l,
           NEW stage \in Stages, NEW F \in SUBSET Owned, NEW k \in SUBSET F,
           \A f \in F : f = "label" \/ Desired(f, w, t, l) # Observed(f, t),
           "location" \in F => w.want["location"] # None,
           \A f \in F \ {"label"} : f \in k <=> l[f] \notin {None, t[f]}
    PROVE  Proper(Write(stage, F, w, t, l, k), t, l)
<1> DEFINE a == Write(stage, F, w, t, l, k)
<1>1. IsAction(a) /\ Sound(a) /\ Writes(a) = F /\ DOMAIN a.record = F
  BY WriteSound
<1>2. a.conflict = k
  BY DEF Write
<1>3. Writes(a) \cap Children = {}
  BY <1>1, FieldsAssumption
<1> HIDE DEF a
<1>4. Proper(a, t, l)
  BY <1>1, <1>2, <1>3 DEF Proper
<1>5. QED BY <1>4 DEF a

\* A restored field, and all the updates in one call.
LEMMA FieldActionsProper ==
    ASSUME NEW w \in [want : Wants, status : Statuses], NEW t \in Tasks, NEW l,
           NEW a \in FieldActions(w, t, l)
    PROVE  Proper(a, t, l)
<1>1. Diffed \subseteq Owned /\ "location" \notin Diffed
  BY FieldsAssumption DEF Diffed, Owned
<1>2. ASSUME NEW f \in WithVerdict("conflict", w, t, l),
             a = Write(1, {f}, w, t, l, {f})
      PROVE  Proper(a, t, l)
  <2>1. /\ f \in Owned /\ f # "location"
        /\ f = "label" \/ Desired(f, w, t, l) # Observed(f, t)
        /\ f # "label" => l[f] \notin {None, t[f]}
    BY <1>1, VerdictFields
  <2>2. 1 \in Stages BY DEF Stages
  <2>3. {f} \in SUBSET Owned /\ {f} \in SUBSET {f}
    BY <2>1
  <2>4. Proper(Write(1, {f}, w, t, l, {f}), t, l)
    BY <2>1, <2>2, <2>3, WriteProper
  <2>5. QED BY <1>2, <2>4
<1>3. ASSUME a = Write(2, WithVerdict("update", w, t, l), w, t, l, {})
      PROVE  Proper(a, t, l)
  <2> DEFINE F == WithVerdict("update", w, t, l)
  <2>1. \A f \in F : /\ f \in Owned /\ f # "location"
                     /\ f = "label" \/ Desired(f, w, t, l) # Observed(f, t)
                     /\ f # "label" => l[f] \in {None, t[f]}
    BY <1>1, VerdictFields
  <2>2. 2 \in Stages BY DEF Stages
  <2> HIDE DEF F
  <2>3. F \in SUBSET Owned /\ {} \in SUBSET F BY <2>1
  <2>4. Proper(Write(2, F, w, t, l, {}), t, l)
    BY <2>1, <2>2, <2>3, WriteProper
  <2>5. QED BY <1>3, <2>4 DEF F
<1>4. QED BY <1>2, <1>3 DEF FieldActions

\* The move of an anchor.
LEMMA LocationActionsProper ==
    ASSUME NEW w \in [want : Wants, status : Statuses], NEW t \in Tasks, NEW l,
           NEW a \in LocationActions(w, t, l)
    PROVE  Proper(a, t, l) /\ DOMAIN a.record = {"location"}
<1> DEFINE k == IF Verdict("location", w, t, l) = "conflict"
                THEN {"location"} ELSE {}
           F == {"location"}
<1>1. Misplaced(w, t) /\ a = Write(3, F, w, t, l, k)
  BY DEF LocationActions
<1>2. w.want["location"] # None /\ t["location"] # w.want["location"]
  BY <1>1 DEF Misplaced
<1>3. /\ Desired("location", w, t, l) = w.want["location"]
      /\ Observed("location", t) = t["location"]
  BY DEF Desired, Observed
<1>4. Desired("location", w, t, l) # Observed("location", t)
  BY <1>2, <1>3
<1>5. Verdict("location", w, t, l) = "conflict" <=> l["location"] \notin {None, t["location"]}
  BY <1>3, <1>4, Verdicts DEF Verdict
<1>6. 3 \in Stages /\ F \in SUBSET Owned /\ k \in SUBSET F
  BY DEF Stages, Owned
<1>7. \A f \in F \ {"label"} : f \in k <=> l[f] \notin {None, t[f]}
  BY <1>5
<1>8. \A f \in F : f = "label" \/ Desired(f, w, t, l) # Observed(f, t)
  BY <1>4
<1> HIDE DEF F, k
<1>9. Proper(Write(3, F, w, t, l, k), t, l)
  BY <1>2, <1>6, <1>7, <1>8, WriteProper
<1>10. DOMAIN Write(3, F, w, t, l, k).record = F
  BY DEF Write
<1>11. QED BY <1>1, <1>9, <1>10 DEF F

\* A status written, with or without the label that asked for it.
LEMMA ToStatusProper ==
    ASSUME NEW t \in Tasks, NEW l, NEW stage \in Stages, NEW s \in Statuses \cup {None},
           NEW P, P = {} \/ \E L \in SUBSET Labels : P = {[f \in {"label"} |-> L]}
    PROVE  /\ Proper(ToStatus(stage, s, P), t, l)
           /\ DOMAIN ToStatus(stage, s, P).record = {}
<1> DEFINE a == ToStatus(stage, s, P)
<1>1. /\ a.stage = stage /\ a.status = s /\ a.patches = P /\ a.record = <<>>
      /\ a.conflict = {} /\ DOMAIN a.record = {}
      /\ DOMAIN a = {"stage", "status", "patches", "record", "conflict"}
  BY DEF ToStatus
<1>2. \A p \in P : DOMAIN p = {"label"} /\ p["label"] \in SUBSET Labels
  OBVIOUS
<1>3. \A p, q \in P : p = q
  OBVIOUS
<1>4. \A p \in P : IsPatch(p)
  BY <1>2, DataTypes DEF IsPatch
<1>5. Writes(a) \subseteq {"label"}
  BY <1>1, <1>2 DEF Writes
<1>6. "label" \notin Children
  BY FieldsAssumption DEF Owned
<1> HIDE DEF a
<1>7. IsAction(a)
  BY <1>1, <1>4 DEF IsAction
<1>8. Sound(a)
  BY <1>1, <1>2, <1>3, <1>5 DEF Sound
<1>9. Proper(a, t, l)
  BY <1>1, <1>5, <1>6, <1>7, <1>8 DEF Proper
<1>10. QED BY <1>1, <1>9 DEF a

\* A completion goes to review, and a request is served and its label taken off.
LEMMA StatusActionsProper ==
    ASSUME NEW w \in [want : Wants, status : Statuses], NEW t \in Tasks, NEW c, NEW l,
           NEW r \in Requests \cup {None},
           NEW a \in CompletionActions(w, c) \cup RequestActions(w, t, r)
    PROVE  Proper(a, t, l) /\ DOMAIN a.record = {}
<1>1. 4 \in Stages /\ 5 \in Stages /\ "review" \in Statuses
  BY DEF Stages, Statuses
<1>2. CASE a \in CompletionActions(w, c)
  <2>1. a = ToStatus(4, "review", {}) BY <1>2 DEF CompletionActions
  <2>2. QED BY <1>1, <2>1, ToStatusProper
<1>3. CASE a \in RequestActions(w, t, r)
  <2> DEFINE s == IF r = w.status THEN None ELSE r
             P == {[f \in {"label"} |-> t["label"] \ {r}]}
  <2>1. a = ToStatus(5, s, P) BY <1>3 DEF RequestActions
  <2>2. s \in Statuses \cup {None} BY FieldsAssumption
  <2>3. t["label"] \ {r} \in SUBSET Labels BY TaskFields, DataTypes
  <2>4. \E L \in SUBSET Labels : P = {[f \in {"label"} |-> L]} BY <2>3
  <2> HIDE DEF s, P
  <2>5. QED BY <1>1, <2>1, <2>2, <2>4, ToStatusProper
<1>4. QED BY <1>2, <1>3

\* The subtasks that inherit are exactly those that may.
LEMMA SubtreeActionsProper ==
    ASSUME NEW w \in [want : Wants, status : Statuses], NEW t \in Tasks, NEW c, NEW l,
           NEW a \in SubtreeActions(w, t, c, l)
    PROVE  Proper(a, t, l) /\ DOMAIN a.record \subseteq Children
<1> DEFINE F == Inherits(w, t, c, l)
           v == w.want["priority"]
           P == {[x \in {y} |-> v] : y \in F}
<1>1. a = [stage |-> 6, status |-> None, patches |-> P,
           record |-> [x \in F |-> v], conflict |-> {}]
  BY DEF SubtreeActions
<1>2. F \subseteq Children /\ \A x \in F : MayPropagate(x, t, l)
  BY DEF Inherits
<1>3. v \in Values
  <2>1. "priority" \in Wanted \ {"location"} /\ w.want \in Wants
    BY DEF Wanted, Owned
  <2>2. QED BY <2>1 DEF Wants
<1>4. Children \cap Owned = {} /\ "label" \notin Children /\ "location" \notin Children
  BY FieldsAssumption DEF Owned
<1>5. \A x \in Children : x \in Fields /\ DataOf(x) = Values
  BY <1>4, DataTypes DEF Fields
<1>6. \A p \in P : \E y \in F : p = [x \in {y} |-> v]
  OBVIOUS
<1> HIDE DEF F, P, v
<1>7. \A p \in P : \E y \in F : DOMAIN p = {y} /\ p[y] = v
  BY <1>6
<1>8. ASSUME NEW p \in P PROVE IsPatch(p)
  <2>1. PICK y \in F : DOMAIN p = {y} /\ p[y] = v BY <1>7
  <2>2. y \in Fields /\ v \in DataOf(y) BY <1>2, <1>3, <1>5
  <2>3. QED BY <2>1, <2>2 DEF IsPatch
<1>9. ASSUME NEW p \in P, NEW q \in P, p # q PROVE DOMAIN p \cap DOMAIN q = {}
  <2>1. PICK y \in F : p = [x \in {y} |-> v] BY <1>6
  <2>2. PICK z \in F : q = [x \in {z} |-> v] BY <1>6
  <2>3. y # z BY <1>9, <2>1, <2>2
  <2>4. DOMAIN p = {y} /\ DOMAIN q = {z} BY <2>1, <2>2
  <2>5. QED BY <2>3, <2>4
<1>10. Writes(a) = F
  <2>1. Writes(a) = UNION {DOMAIN p : p \in P} BY <1>1 DEF Writes
  <2>2. Writes(a) \subseteq F BY <1>7, <2>1
  <2>3. \A y \in F : [x \in {y} |-> v] \in P BY DEF P
  <2>4. \A y \in F : DOMAIN [x \in {y} |-> v] = {y} OBVIOUS
  <2>5. F \subseteq Writes(a) BY <2>1, <2>3, <2>4
  <2>6. QED BY <2>2, <2>5
<1>11. DOMAIN a.record = F /\ \A x \in F : a.record[x] = v
  BY <1>1
<1>12. IsAction(a)
  BY <1>1, <1>2, <1>3, <1>5, <1>8 DEF IsAction, Stages
<1>13. Sound(a)
  <2>1. a.patches = P BY <1>1
  <2>2. ASSUME NEW p \in P, NEW f \in DOMAIN p PROVE p[f] = a.record[f]
    BY <1>7, <1>11
  <2>3. QED BY <1>9, <1>10, <1>11, <2>1, <2>2 DEF Sound
<1>14. a.conflict = {}
  BY <1>1
<1>15. QED BY <1>2, <1>4, <1>10, <1>11, <1>12, <1>13, <1>14 DEF Proper

\* Every action of a plan is proper.
LEMMA PlanProper ==
    ASSUME NEW w \in [want : Wants, status : Statuses], NEW t \in Tasks, NEW c, NEW l,
           NEW r \in Requests \cup {None}, NEW a \in Plan(w, t, c, l, r)
    PROVE  Proper(a, t, l)
BY FieldActionsProper, LocationActionsProper, StatusActionsProper,
   SubtreeActionsProper DEF Plan

\* No two actions of a plan record one field.
LEMMA PlanDisjoint ==
    ASSUME NEW w \in [want : Wants, status : Statuses], NEW t \in Tasks, NEW c, NEW l,
           NEW r \in Requests \cup {None},
           NEW a \in Plan(w, t, c, l, r), NEW b \in Plan(w, t, c, l, r), a # b
    PROVE  DOMAIN a.record \cap DOMAIN b.record = {}
<1> DEFINE U == WithVerdict("update", w, t, l)
           C == WithVerdict("conflict", w, t, l)
           Kinds(x) ==
             \/ \E f \in C : x = Write(1, {f}, w, t, l, {f}) /\ DOMAIN x.record = {f}
             \/ x = Write(2, U, w, t, l, {}) /\ DOMAIN x.record = U
             \/ x \in LocationActions(w, t, l) /\ DOMAIN x.record = {"location"}
             \/ DOMAIN x.record = {}
             \/ x \in SubtreeActions(w, t, c, l) /\ DOMAIN x.record \subseteq Children
<1>1. ASSUME NEW x \in Plan(w, t, c, l, r) PROVE Kinds(x)
  <2>1. CASE x \in FieldActions(w, t, l)
    <3>1. ASSUME NEW f \in C, x = Write(1, {f}, w, t, l, {f}) PROVE Kinds(x)
      <4>1. DOMAIN x.record = {f} BY <3>1 DEF Write
      <4>2. QED BY <3>1, <4>1
    <3>2. ASSUME x = Write(2, U, w, t, l, {}) PROVE Kinds(x)
      <4>1. DOMAIN x.record = U BY <3>2 DEF Write
      <4>2. QED BY <3>2, <4>1
    <3>3. x = Write(2, U, w, t, l, {}) \/ \E f \in C : x = Write(1, {f}, w, t, l, {f})
      BY <2>1 DEF FieldActions
    <3> HIDE DEF Kinds
    <3>4. QED BY <3>1, <3>2, <3>3
  <2>2. CASE x \in LocationActions(w, t, l)
    BY <2>2, LocationActionsProper
  <2>3. CASE x \in CompletionActions(w, c) \cup RequestActions(w, t, r)
    BY <2>3, StatusActionsProper
  <2>4. CASE x \in SubtreeActions(w, t, c, l)
    BY <2>4, SubtreeActionsProper
  <2>5. QED BY <2>1, <2>2, <2>3, <2>4 DEF Plan
<1>2. Kinds(a) /\ Kinds(b)
  BY <1>1
<1>3. \A x, y : x \in LocationActions(w, t, l) /\ y \in LocationActions(w, t, l) => x = y
  BY DEF LocationActions
<1>4. \A x, y : x \in SubtreeActions(w, t, c, l) /\ y \in SubtreeActions(w, t, c, l) => x = y
  BY DEF SubtreeActions
<1>5. /\ U \cap C = {} /\ "location" \notin U \cup C
      /\ (U \cup C \cup {"location"}) \cap Children = {}
  <2>1. /\ Diffed \cap Children = {} /\ "location" \notin Diffed
        /\ "location" \notin Children
    BY FieldsAssumption DEF Diffed, Owned
  <2>2. U \subseteq Diffed /\ C \subseteq Diffed /\ U \cap C = {}
    BY VerdictFields
  <2>3. QED BY <2>1, <2>2
<1> HIDE DEF U, C
<1>6. QED BY <1>2, <1>3, <1>4, <1>5

-----------------------------------------------------------------------------
(* The types. *)

USE DEF initiative, task, pass, history

\* The action in hand, when it has anything left, is an action of a plan.
LEMMA InHand ==
    ASSUME TypeOK
    PROVE  /\ DOMAIN cur.record \subseteq Fields
           /\ cur # NoAction => IsAction(cur)
           /\ cur.status # None => IsAction(cur)
           /\ \A p \in cur.patches : IsAction(cur) /\ IsPatch(p)
           /\ \A f \in DOMAIN cur.record : IsAction(cur)
<1>1. /\ NoAction.status = None /\ NoAction.patches = {}
      /\ NoAction.record = <<>> /\ DOMAIN NoAction.record = {}
  BY DEF NoAction
<1>2. CASE cur = NoAction BY <1>1, <1>2
<1>3. CASE IsAction(cur) BY <1>3 DEF IsAction
<1>4. QED BY <1>2, <1>3 DEF TypeOK

\* The first state has its types.
LEMMA InitType == Init => TypeOK
<1> SUFFICES ASSUME Init PROVE TypeOK
  OBVIOUS
<1>1. \A f \in Fields : tool[f] \in DataOf(f)
  BY TaskFields DEF Init
<1>2. Owned \subseteq Fields /\ Scalars \cup {"priority"} \subseteq Wanted \ {"location"}
  BY FieldsAssumption DEF Owned, Fields, Wanted
<1>3. \A f \in Scalars \cup {"priority"} : want[f] \in Values
  BY <1>2 DEF Init, Wants
<1>4. last \in [Fields -> Values \cup Places \cup {"present", None}]
  <2>1. CASE last = [f \in Fields |-> None] BY <2>1
  <2>2. CASE last = [f \in Fields |->
                        CASE f \in Scalars \cup {"priority"} -> want[f]
                          [] f = "label" -> "present"
                          [] OTHER -> None]
    <3>1. ASSUME NEW f \in Fields
          PROVE  last[f] \in Values \cup Places \cup {"present", None}
      <4>1. CASE f \in Scalars \cup {"priority"}
        <5>1. f # "label" BY <4>1, FieldsAssumption
        <5>2. last[f] = want[f] BY <2>2, <4>1, <5>1
        <5>3. QED BY <5>2, <4>1, <1>3
      <4>2. CASE f = "label"
        <5>1. f \notin Scalars \cup {"priority"} BY <4>2, FieldsAssumption
        <5>2. last[f] = "present" BY <2>2, <4>2, <5>1
        <5>3. QED BY <5>2
      <4>3. CASE f \notin Scalars \cup {"priority", "label"}
        <5>1. last[f] = None BY <2>2, <4>3
        <5>2. QED BY <5>1
      <4>4. QED BY <4>1, <4>2, <4>3
    <3>2. QED BY <2>2, <3>1
  <2>3. QED BY <2>1, <2>2 DEF Init
<1>5. \A f \in Fields : ours[f] \subseteq DataOf(f)
  BY <1>1, <1>2 DEF Init
<1>6. QED BY <1>4, <1>5 DEF Init, TypeOK, NoAction

\* The API, the people and the first step of a pass.
LEMMA OutsidersType ==
    ASSUME TypeOK, Api \/ People \/ StartPass PROVE TypeOK'
<1>1. ASSUME NEW f, NEW v, EditWant(f, v) PROVE TypeOK'
  BY <1>1 DEF EditWant, TypeOK
<1>2. ASSUME NEW s \in Statuses, Transition(s) PROVE TypeOK'
  BY <1>2 DEF Transition, TypeOK
<1>3. ASSUME NEW f \in Fields, NEW v \in DataOf(f), EditTool(f, v) PROVE TypeOK'
  <2>1. tool \in Tasks BY DEF TypeOK
  <2>2. /\ tool = [g \in Fields |-> tool[g]]
        /\ \A g \in Fields : tool[g] \in DataOf(g)
    BY <2>1, TaskFields
  <2>3. /\ tool' = [g \in Fields |-> tool'[g]]
        /\ \A g \in Fields : tool'[g] \in DataOf(g)
    BY <1>3, <2>2 DEF EditTool
  <2>4. tool' \in Tasks BY <2>3, TaskMade
  <2>5. QED BY <1>3, <2>4 DEF EditTool, TypeOK
<1>4. ASSUME NEW x \in {"anchor"} \cup Children, Tick(x) PROVE TypeOK'
  BY <1>4 DEF Tick, TypeOK
<1>5. CASE StartPass
  BY <1>5 DEF StartPass, TypeOK
<1>6. CASE People
  <2>1. tool["label"] \in SUBSET Labels
    BY TaskFields, DataTypes DEF TypeOK
  <2>2. ASSUME NEW l \in Labels, AddLabel(l) \/ RemoveLabel(l) PROVE TypeOK'
    <3>1. \E L \in DataOf("label") : EditTool("label", L)
      BY <2>1, <2>2, DataTypes DEF AddLabel, RemoveLabel
    <3>2. QED BY <3>1, <1>3, DataTypes
  <2>3. /\ Scalars \cup {"priority"} \cup Children \subseteq Fields \ {"label", "location"}
    BY FieldsAssumption DEF Fields, Owned
  <2>4. ASSUME NEW f \in Scalars \cup {"priority"} \cup Children, NEW v \in Values,
               EditTool(f, v)
        PROVE  TypeOK'
    BY <1>3, <2>3, <2>4, DataTypes
  <2>5. ASSUME NEW p \in Places, EditTool("location", p) PROVE TypeOK'
    BY <1>3, <2>5, DataTypes
  <2>6. QED BY <1>4, <1>6, <2>2, <2>4, <2>5 DEF People
<1>7. QED BY <1>1, <1>2, <1>5, <1>6 DEF Api

\* The plan is made of actions.
LEMMA PlanType ==
    ASSUME TypeOK, ObserveAndPlan PROVE TypeOK'
<1>1. PICK r \in Requests \cup {None} : todo' = Plan(seen, tool, completed, last, r)
  BY DEF ObserveAndPlan
<1>2. seen \in [want : Wants, status : Statuses] /\ tool \in Tasks
  BY DEF TypeOK
<1>3. \A a \in todo' : IsAction(a)
  BY <1>1, <1>2, PlanProper DEF Proper
<1>4. QED BY <1>3 DEF ObserveAndPlan, TypeOK


\* What is done with an action leaves an action.
LEMMA StepsType ==
    ASSUME TypeOK, Reconcile PROVE TypeOK'
<1>1. CASE StartPass
  BY <1>1, OutsidersType
<1>2. CASE ObserveAndPlan
  BY <1>2, PlanType
<1>3. ASSUME NEW a \in todo, Begin(a) PROVE TypeOK'
  BY <1>3 DEF Begin, TypeOK
<1>4. CASE ApplyStatus
  <2>1. IsAction(cur) BY <1>4, InHand DEF ApplyStatus
  <2>2. IsAction(cur') BY <1>4, <2>1 DEF ApplyStatus, IsAction
  <2>3. status' \in Statuses BY <1>4, <2>1 DEF ApplyStatus, IsAction
  <2>4. QED BY <1>4, <2>2, <2>3 DEF ApplyStatus, TypeOK
<1>5. ASSUME NEW p \in cur.patches, SendPatch(p) PROVE TypeOK'
  <2>1. IsAction(cur) /\ IsPatch(p) BY InHand
  <2>2. IsAction(cur') BY <1>5, <2>1 DEF SendPatch, IsAction
  <2>3. /\ tool' \in Tasks /\ \A f \in Fields : ours'[f] \subseteq DataOf(f)
        /\ touched' \subseteq Fields
    BY <1>5, <2>1, AcceptType DEF SendPatch
  <2>4. QED BY <1>5, <2>2, <2>3 DEF SendPatch, Accept, TypeOK
<1>6. ASSUME NEW f \in DOMAIN cur.record, Record(f) PROVE TypeOK'
  <2>1. IsAction(cur) BY InHand
  <2>2. IsAction(cur')
    <3> DEFINE rec == [g \in DOMAIN cur.record \ {f} |-> cur.record[g]]
    <3>1. /\ cur'.stage = cur.stage /\ cur'.status = cur.status
          /\ cur'.patches = cur.patches /\ cur'.conflict = cur.conflict
          /\ cur'.record = rec /\ DOMAIN cur' = DOMAIN cur
      BY <1>6, <2>1 DEF Record, IsAction
    <3>2. /\ DOMAIN rec \subseteq Fields
          /\ \A g \in DOMAIN rec : rec[g] \in Values \cup Places \cup {"present"}
      BY <2>1 DEF IsAction
    <3> HIDE DEF rec
    <3>3. QED BY <2>1, <3>1, <3>2 DEF IsAction
  <2>3. cur.record[f] \in Values \cup Places \cup {"present"}
    BY <2>1 DEF IsAction
  <2>4. last' \in [Fields -> Values \cup Places \cup {"present", None}]
    BY <1>6, <2>3 DEF Record, TypeOK
  <2>5. QED BY <1>6, <2>2, <2>4 DEF Record, TypeOK
<1>7. CASE FinishAction BY <1>7 DEF FinishAction, TypeOK
<1>8. CASE FinishPass BY <1>8 DEF FinishPass, TypeOK
<1>9. QED
  BY <1>1, <1>2, <1>3, <1>4, <1>5, <1>6, <1>7, <1>8 DEF Reconcile

\* And so do the faults.
LEMMA FaultType ==
    ASSUME TypeOK, Fault PROVE TypeOK'
<1>1. Unrecorded \subseteq Fields
  BY InHand DEF Unrecorded
<1>2. CASE ActionFails BY <1>1, <1>2 DEF ActionFails, TypeOK
<1>3. CASE Crash BY <1>1, <1>3 DEF Crash, TypeOK
<1>4. ASSUME NEW p \in cur.patches, AnswerLost(p) PROVE TypeOK'
  <2>1. IsAction(cur) /\ IsPatch(p) BY InHand
  <2>2. /\ tool' \in Tasks /\ \A f \in Fields : ours'[f] \subseteq DataOf(f)
        /\ touched' \subseteq Fields
    BY <1>4, <2>1, AcceptType DEF AnswerLost
  <2>3. slipped' \subseteq Fields
    BY <1>1, <1>4, <2>1 DEF AnswerLost, IsPatch, TypeOK
  <2>4. QED BY <1>4, <2>2, <2>3 DEF AnswerLost, Accept, TypeOK
<1>5. QED BY <1>2, <1>3, <1>4 DEF Fault

\* Every step keeps the types.
LEMMA TypeStep ==
    ASSUME TypeOK, [Next]_vars PROVE TypeOK'
<1>1. CASE UNCHANGED vars BY <1>1 DEF vars, TypeOK, IsAction, IsPatch
<1>2. QED
  BY <1>1, OutsidersType, StepsType, FaultType DEF Next

\* Every variable has its type, whatever the API, the people and the faults do.
THEOREM TypeCorrect == Spec => []TypeOK
<1>1. Init => TypeOK BY InitType
<1>2. TypeOK /\ [Next]_vars => TypeOK' BY TypeStep
<1>3. QED BY <1>1, <1>2, PTL DEF Spec

-----------------------------------------------------------------------------
(* The strengthening of the invariants. *)

\* Nothing is left of no action.
LEMMA NothingLeft ==
    /\ NoAction.status = None /\ NoAction.patches = {} /\ NoAction.conflict = {}
    /\ DOMAIN NoAction.record = {}
    /\ Writes(NoAction) = {}
    /\ Sound(NoAction)
BY DEF NoAction, Writes, Sound

\* It holds at the start.
LEMMA InitStrong == Init => Strong
<1> SUFFICES ASSUME Init PROVE Strong
  OBVIOUS
<1>1. \A f \in Fields \ {"label"} : last[f] # None => last[f] \in ours[f] /\ tool[f] = last[f]
  <2>1. CASE last = [f \in Fields |-> None] BY <2>1
  <2>2. CASE /\ last = [f \in Fields |->
                        CASE f \in Scalars \cup {"priority"} -> want[f]
                          [] f = "label" -> "present"
                          [] OTHER -> None]
             /\ ours = [f \in Fields |-> IF f \in Owned THEN {tool[f]} ELSE {}]
             /\ \A f \in Wanted : tool[f] = want[f]
    <3>1. ASSUME NEW f \in Fields \ {"label"}, last[f] # None
          PROVE  last[f] \in ours[f] /\ tool[f] = last[f]
      <4>1. CASE f \in Scalars \cup {"priority"}
        <5>1. f \in Wanted /\ f \in Owned BY <4>1, FieldsAssumption DEF Wanted, Owned
        <5>2. last[f] = want[f] BY <2>2, <4>1
        <5>3. QED BY <2>2, <5>1, <5>2
      <4>2. CASE f \notin Scalars \cup {"priority"}
        <5>1. last[f] = None BY <2>2, <4>2
        <5>2. QED BY <3>1, <5>1
      <4>3. QED BY <4>1, <4>2
    <3>2. QED BY <3>1
  <2>3. QED BY <2>1, <2>2 DEF Init
<1>2. todo = {} /\ cur = NoAction
  BY DEF Init
<1>3. RecordedWasAccepted /\ LastIsTrue
  BY <1>1 DEF RecordedWasAccepted, LastIsTrue
<1>4. ConflictIsAnEdit /\ PlanIsSound /\ OneWriter /\ SentIsOurs /\ PlanIsLogged
        /\ HandIsSpared
  BY <1>2, NothingLeft
  DEF ConflictIsAnEdit, PlanIsSound, OneWriter, SentIsOurs, Unrecorded,
      PlanIsLogged, HandIsSpared
<1>5. QED BY <1>3, <1>4 DEF Strong

\* What neither touches the task nor the books nor the plan keeps it.
LEMMA ElsewhereStrong ==
    ASSUME Strong,
           UNCHANGED <<tool, last, todo, cur, ours, touched, slipped, at>>,
           phase' = phase \/ (phase = "idle" /\ phase' = "loaded")
    PROVE  Strong'
<1>1. PlanIsSound'
  BY DEF Strong, PlanIsSound
<1>2. QED
  BY <1>1 DEF Strong, RecordedWasAccepted, ConflictIsAnEdit, OneWriter, SentIsOurs,
              LastIsTrue, PlanIsLogged, HandIsSpared, Unrecorded

\* A person's edit is remembered as one.
LEMMA EditStrong ==
    ASSUME Strong, NEW f, NEW v, EditTool(f, v) PROVE Strong'
<1> USE DEF EditTool, Strong
<1>1. RecordedWasAccepted' BY DEF RecordedWasAccepted
<1>2. ConflictIsAnEdit' BY DEF ConflictIsAnEdit
<1>3. PlanIsSound' BY DEF PlanIsSound
<1>4. OneWriter' BY DEF OneWriter
<1>5. \A g \in Fields : g \notin touched' => g \notin touched /\ tool'[g] = tool[g]
  OBVIOUS
<1>6. SentIsOurs' BY <1>5 DEF SentIsOurs, Unrecorded
<1>7. LastIsTrue' BY <1>5 DEF LastIsTrue, Unrecorded
<1>8. PlanIsLogged' BY DEF PlanIsLogged
<1>9. HandIsSpared' BY DEF HandIsSpared
<1>10. QED BY <1>1, <1>2, <1>3, <1>4, <1>6, <1>7, <1>8, <1>9

\* The plan: what the snapshot shows is edited or unrecorded, foreign or hand-set.
LEMMA PlanStrong ==
    ASSUME TypeOK, Strong, ObserveAndPlan PROVE Strong'
<1>1. PICK r \in Requests \cup {None} : todo' = Plan(seen, tool, completed, last, r)
  BY DEF ObserveAndPlan
<1>2. seen \in [want : Wants, status : Statuses] /\ tool \in Tasks
  BY DEF TypeOK
<1>3. cur = NoAction /\ cur' = NoAction /\ phase' = "applying"
  BY DEF ObserveAndPlan, Strong, PlanIsSound
<1>4. UNCHANGED <<tool, last, ours, touched, slipped>>
  BY DEF ObserveAndPlan
<1>5. \A a \in todo' : Proper(a, tool, last)
  BY <1>1, <1>2, PlanProper
<1>6. RecordedWasAccepted'
  BY <1>4 DEF Strong, RecordedWasAccepted
<1>7. LastIsTrue' /\ SentIsOurs'
  BY <1>3, <1>4 DEF Strong, LastIsTrue, SentIsOurs, Unrecorded, ObserveAndPlan
<1>8. ConflictIsAnEdit'
  <2>1. ASSUME NEW a \in todo', NEW f \in a.conflict \ {"label"}
        PROVE  f \in touched \cup slipped
    <3>1. f \in Fields /\ last[f] \notin {None, tool[f]}
      BY <1>5, <2>1 DEF Proper, IsAction, Fields
    <3>2. f \notin Unrecorded BY <1>3, NothingLeft DEF Unrecorded
    <3>3. QED BY <2>1, <3>1, <3>2 DEF Strong, LastIsTrue
  <2>2. at'.touched = touched /\ at'.slipped = slipped
    BY DEF ObserveAndPlan
  <2>3. QED BY <1>3, <2>1, <2>2, NothingLeft DEF ConflictIsAnEdit
<1>9. PlanIsSound'
  BY <1>3, <1>5, NothingLeft DEF PlanIsSound, Proper
<1>10. OneWriter'
  BY <1>1, <1>2, <1>3, PlanDisjoint, NothingLeft DEF OneWriter
<1>11. PlanIsLogged'
  <2>1. ASSUME NEW a \in todo', NEW f \in (Writes(a) \cap Owned) \ {"label"},
               f \in at'.foreign, last[f] # None
        PROVE  f \in a.conflict
    <3>1. tool[f] \notin ours[f] BY <2>1 DEF ObserveAndPlan
    <3>2. f \in Fields BY <2>1 DEF Fields
    <3>3. last[f] \in ours[f] BY <2>1, <3>2 DEF Strong, RecordedWasAccepted
    <3>4. QED BY <1>5, <2>1, <3>1, <3>3 DEF Proper
  <2>2. QED BY <1>3, <1>4, <2>1, NothingLeft DEF PlanIsLogged
<1>12. HandIsSpared'
  <2>1. at'.hand = {c \in Children : tool[c] \notin ours[c] \cup {Lowest}}
    BY DEF ObserveAndPlan
  <2>2. ASSUME NEW a \in todo', NEW c \in Writes(a), c \in at'.hand PROVE FALSE
    <3>1. c \in Children /\ tool[c] \notin ours[c] \cup {Lowest} BY <2>1, <2>2
    <3>2. MayPropagate(c, tool, last) BY <1>5, <2>2, <3>1 DEF Proper
    <3>3. last[c] # None /\ tool[c] = last[c]
      BY <3>1, <3>2 DEF MayPropagate
    <3>4. c \in Fields \ {"label"} BY <3>1, FieldsAssumption DEF Fields, Owned
    <3>5. last[c] \in ours[c] BY <3>3, <3>4 DEF Strong, RecordedWasAccepted
    <3>6. QED BY <3>1, <3>3, <3>5
  <2>3. QED BY <1>3, <2>2, NothingLeft DEF HandIsSpared
<1>13. QED
  BY <1>6, <1>7, <1>8, <1>9, <1>10, <1>11, <1>12 DEF Strong

\* The next action is taken in hand with all it writes still to be sent.
LEMMA BeginStrong ==
    ASSUME Strong, NEW a \in todo, Begin(a) PROVE Strong'
<1>1. /\ cur = NoAction /\ cur' = a /\ todo' = todo \ {a}
      /\ UNCHANGED <<tool, last, phase, ours, touched, slipped, at>>
  BY DEF Begin
<1>2. Unrecorded = {} /\ Unrecorded' = {}
  BY <1>1, NothingLeft DEF Unrecorded, Strong, PlanIsSound
<1>3. RecordedWasAccepted' /\ LastIsTrue' /\ SentIsOurs'
  BY <1>1, <1>2 DEF Strong, RecordedWasAccepted, LastIsTrue, SentIsOurs
<1>4. ConflictIsAnEdit' /\ PlanIsLogged' /\ HandIsSpared'
  BY <1>1 DEF Strong, ConflictIsAnEdit, PlanIsLogged, HandIsSpared
<1>5. PlanIsSound' BY <1>1 DEF Strong, PlanIsSound
<1>6. OneWriter' BY <1>1 DEF Strong, OneWriter
<1>7. QED BY <1>3, <1>4, <1>5, <1>6 DEF Strong

\* So long as the action in hand keeps its patches, its record and its conflict.
LEMMA ApplyStatusStrong ==
    ASSUME TypeOK, Strong, ApplyStatus PROVE Strong'
<1>1. IsAction(cur)
  BY InHand DEF ApplyStatus
<1>2. /\ cur'.patches = cur.patches /\ cur'.record = cur.record
      /\ cur'.conflict = cur.conflict
      /\ UNCHANGED <<tool, last, todo, phase, ours, touched, slipped, at>>
  BY <1>1 DEF ApplyStatus, IsAction
<1>3. Writes(cur') = Writes(cur) /\ Unrecorded' = Unrecorded /\ (Sound(cur) => Sound(cur'))
  BY <1>2 DEF Writes, Unrecorded, Sound
<1>4. phase = "applying"
  BY NothingLeft DEF Strong, PlanIsSound, ApplyStatus
<1>5. RecordedWasAccepted' /\ LastIsTrue' /\ SentIsOurs'
  BY <1>2, <1>3 DEF Strong, RecordedWasAccepted, LastIsTrue, SentIsOurs
<1>6. ConflictIsAnEdit' /\ PlanIsLogged' /\ HandIsSpared'
  BY <1>2, <1>3 DEF Strong, ConflictIsAnEdit, PlanIsLogged, HandIsSpared
<1>7. PlanIsSound' BY <1>2, <1>3, <1>4 DEF Strong, PlanIsSound
<1>8. OneWriter' BY <1>2 DEF Strong, OneWriter
<1>9. QED BY <1>5, <1>6, <1>7, <1>8 DEF Strong

\* A patch that the tool takes moves its fields from the plan to what is ours,
\* where they wait for their record, or, if the answer is lost, slip.
LEMMA SendPatchStrong ==
    ASSUME TypeOK, Strong, NEW p \in cur.patches, SendPatch(p) PROVE Strong'
<1>1. IsAction(cur) /\ IsPatch(p)
  BY InHand
<1>2. /\ cur'.patches = cur.patches \ {p} /\ cur'.record = cur.record
      /\ cur'.conflict = cur.conflict /\ cur'.status = cur.status
      /\ UNCHANGED <<last, todo, phase, slipped, at>>
  BY <1>1 DEF SendPatch, IsAction
<1>3. /\ \A f \in Fields : f \in DOMAIN p => tool'[f] = p[f] /\ ours'[f] = ours[f] \cup {p[f]}
      /\ \A f \in Fields : f \notin DOMAIN p => tool'[f] = tool[f] /\ ours'[f] = ours[f]
      /\ touched' = touched \ DOMAIN p
  BY DEF SendPatch, Accept
<1>4. Sound(cur)
  BY DEF Strong, PlanIsSound
<1>5. /\ Writes(cur') \subseteq Writes(cur)
      /\ Writes(cur) \subseteq Writes(cur') \cup DOMAIN p
      /\ Writes(cur') \cap DOMAIN p = {}
  <2>1. \A q \in cur.patches \ {p} : DOMAIN q \cap DOMAIN p = {}
    BY <1>4 DEF Sound
  <2>2. QED BY <1>2, <2>1 DEF Writes
<1>6. /\ DOMAIN p \subseteq Fields
      /\ DOMAIN p \ {"label"} \subseteq DOMAIN cur.record
      /\ \A f \in DOMAIN p \ {"label"} : p[f] = cur.record[f]
  BY <1>1, <1>4 DEF Sound, IsPatch, Writes
<1>7. Unrecorded' \ {"label"} = (Unrecorded \cup DOMAIN p) \ {"label"}
  BY <1>2, <1>5, <1>6 DEF Unrecorded
<1>8. phase = "applying"
  BY NothingLeft DEF Strong, PlanIsSound
<1>9. RecordedWasAccepted'
  BY <1>2, <1>3 DEF Strong, RecordedWasAccepted
<1>10. SentIsOurs'
  <2>1. ASSUME NEW f \in Unrecorded' \ {"label"}
        PROVE  /\ cur'.record[f] \in ours'[f]
               /\ f \notin touched' => tool'[f] = cur'.record[f]
    <3>1. f \in Fields BY <1>1, <1>2, <2>1 DEF Unrecorded, IsAction
    <3>2. CASE f \in DOMAIN p BY <1>2, <1>3, <1>6, <2>1, <3>1, <3>2
    <3>3. CASE f \notin DOMAIN p
      <4>1. f \in Unrecorded \ {"label"} BY <1>7, <2>1, <3>3
      <4>2. QED BY <1>2, <1>3, <3>1, <3>3, <4>1 DEF Strong, SentIsOurs
    <3>4. QED BY <3>2, <3>3
  <2>2. QED BY <2>1 DEF SentIsOurs
<1>11. LastIsTrue'
  <2>1. ASSUME NEW f \in Fields \ {"label"}, last[f] # None,
               f \notin touched' \cup slipped \cup Unrecorded'
        PROVE  tool'[f] = last[f]
    <3>1. f \notin DOMAIN p /\ f \notin Unrecorded BY <1>7, <2>1
    <3>2. f \notin touched BY <1>3, <2>1, <3>1
    <3>3. QED BY <1>3, <2>1, <3>1, <3>2 DEF Strong, LastIsTrue
  <2>2. QED BY <1>2, <2>1 DEF LastIsTrue
<1>12. ConflictIsAnEdit' /\ PlanIsLogged' /\ HandIsSpared'
  BY <1>2, <1>5 DEF Strong, ConflictIsAnEdit, PlanIsLogged, HandIsSpared
<1>13. PlanIsSound'
  <2>1. Sound(cur')
    BY <1>2, <1>4, <1>5 DEF Sound
  <2>2. QED BY <1>2, <1>8, <2>1 DEF Strong, PlanIsSound
<1>14. OneWriter' BY <1>2 DEF Strong, OneWriter
<1>15. QED
  BY <1>9, <1>10, <1>11, <1>12, <1>13, <1>14 DEF Strong

\* A record says what stands in the tool, or what was edited there since.
LEMMA RecordStrong ==
    ASSUME TypeOK, Strong, NEW f \in DOMAIN cur.record, Record(f) PROVE Strong'
<1>1. IsAction(cur)
  BY InHand
<1>2. /\ cur'.patches = cur.patches /\ cur.patches = {}
      /\ DOMAIN cur'.record = DOMAIN cur.record \ {f}
      /\ \A g \in DOMAIN cur'.record : cur'.record[g] = cur.record[g]
      /\ cur'.conflict = cur.conflict /\ cur'.status = cur.status
      /\ UNCHANGED <<tool, todo, phase, at, ours, touched>>
  BY <1>1 DEF Record, IsAction
<1>3. f \in Fields /\ last \in [Fields -> Values \cup Places \cup {"present", None}]
  BY <1>1 DEF IsAction, TypeOK
<1>4. /\ last'[f] = cur.record[f] /\ slipped' = slipped \ {f}
      /\ \A g \in Fields : g # f => last'[g] = last[g]
  BY <1>3 DEF Record
<1>5. Writes(cur) = {} /\ Writes(cur') = {}
  BY <1>2 DEF Writes
<1>6. Unrecorded = DOMAIN cur.record /\ Unrecorded' = DOMAIN cur.record \ {f}
  BY <1>2, <1>5 DEF Unrecorded
<1>7. f # "label" => /\ cur.record[f] \in ours[f]
                     /\ f \notin touched => tool[f] = cur.record[f]
  BY <1>6 DEF Strong, SentIsOurs
<1>8. phase = "applying"
  BY NothingLeft DEF Strong, PlanIsSound
<1>9. RecordedWasAccepted'
  BY <1>2, <1>4, <1>7 DEF Strong, RecordedWasAccepted
<1>10. SentIsOurs'
  BY <1>2, <1>6 DEF Strong, SentIsOurs
<1>11. LastIsTrue'
  BY <1>2, <1>4, <1>6, <1>7 DEF Strong, LastIsTrue
<1>12. ConflictIsAnEdit' /\ HandIsSpared'
  BY <1>2, <1>4, <1>5, <1>8 DEF Strong, ConflictIsAnEdit, HandIsSpared
<1>13. PlanIsLogged'
  <2>1. ASSUME NEW a \in todo PROVE f \notin Writes(a) \ {"label"}
    <3>1. Writes(a) \ {"label"} \subseteq DOMAIN a.record
      BY DEF Strong, PlanIsSound, Sound
    <3>2. DOMAIN a.record \cap DOMAIN cur.record = {}
      BY DEF Strong, OneWriter
    <3>3. QED BY <3>1, <3>2
  <2>2. QED BY <1>2, <1>4, <1>5, <2>1 DEF Strong, PlanIsLogged, Fields
<1>14. PlanIsSound'
  <2>1. Sound(cur') BY <1>2, <1>5 DEF Sound
  <2>2. QED BY <1>2, <1>8, <2>1 DEF Strong, PlanIsSound
<1>15. OneWriter' BY <1>2 DEF Strong, OneWriter
<1>16. QED
  BY <1>9, <1>10, <1>11, <1>12, <1>13, <1>14, <1>15 DEF Strong

\* An action that ends, in whatever way, leaves nothing unrecorded behind but
\* what has slipped.
LEMMA EndStrong ==
    ASSUME Strong, cur' = NoAction, todo' \subseteq todo,
           UNCHANGED <<tool, last, ours, touched>>,
           slipped' = slipped \cup Unrecorded,
           \/ UNCHANGED <<phase, at>>
           \/ phase' = "idle" /\ todo' = {} /\ at' = NoRead
    PROVE  Strong'
<1>1. Unrecorded' = {}
  BY NothingLeft DEF Unrecorded
<1>2. RecordedWasAccepted' /\ SentIsOurs'
  BY <1>1 DEF Strong, RecordedWasAccepted, SentIsOurs
<1>3. LastIsTrue'
  BY <1>1 DEF Strong, LastIsTrue
<1>4. ConflictIsAnEdit' /\ PlanIsLogged' /\ HandIsSpared'
  BY NothingLeft DEF Strong, ConflictIsAnEdit, PlanIsLogged, HandIsSpared
<1>5. PlanIsSound' /\ OneWriter'
  BY NothingLeft DEF Strong, PlanIsSound, OneWriter
<1>6. QED BY <1>2, <1>3, <1>4, <1>5 DEF Strong

\* A lost answer is a patch taken, and the end of its action.
LEMMA AnswerLostStrong ==
    ASSUME TypeOK, Strong, NEW p \in cur.patches, AnswerLost(p) PROVE Strong'
<1>1. IsAction(cur) /\ IsPatch(p)
  BY InHand
<1>2. /\ cur' = NoAction
      /\ slipped' = slipped \cup Unrecorded \cup (DOMAIN p \cap DOMAIN cur.record)
      /\ UNCHANGED <<last, todo, phase, at>>
  BY DEF AnswerLost
<1>3. /\ \A f \in Fields : f \in DOMAIN p => tool'[f] = p[f] /\ ours'[f] = ours[f] \cup {p[f]}
      /\ \A f \in Fields : f \notin DOMAIN p => tool'[f] = tool[f] /\ ours'[f] = ours[f]
      /\ touched' = touched \ DOMAIN p
  BY DEF AnswerLost, Accept
<1>4. DOMAIN p \ {"label"} \subseteq DOMAIN cur.record
  BY DEF Strong, PlanIsSound, Sound, Writes
<1>5. Unrecorded' = {}
  BY <1>2, NothingLeft DEF Unrecorded
<1>6. RecordedWasAccepted' /\ SentIsOurs'
  BY <1>2, <1>3, <1>5 DEF Strong, RecordedWasAccepted, SentIsOurs
<1>7. LastIsTrue'
  <2>1. ASSUME NEW f \in Fields \ {"label"}, last[f] # None,
               f \notin touched' \cup slipped'
        PROVE  tool'[f] = last[f]
    <3>1. f \notin DOMAIN p /\ f \notin Unrecorded /\ f \notin slipped
      BY <1>2, <1>4, <2>1
    <3>2. f \notin touched BY <1>3, <2>1, <3>1
    <3>3. QED BY <1>3, <2>1, <3>1, <3>2 DEF Strong, LastIsTrue
  <2>2. QED BY <1>2, <1>5, <2>1 DEF LastIsTrue
<1>8. ConflictIsAnEdit' /\ PlanIsLogged' /\ HandIsSpared'
  BY <1>2, NothingLeft DEF Strong, ConflictIsAnEdit, PlanIsLogged, HandIsSpared
<1>9. PlanIsSound' /\ OneWriter'
  BY <1>2, NothingLeft DEF Strong, PlanIsSound, OneWriter
<1>10. QED BY <1>6, <1>7, <1>8, <1>9 DEF Strong

\* Every step keeps the strengthening.
LEMMA StrongStep ==
    ASSUME TypeOK, Strong, [Next]_vars PROVE Strong'
<1>1. CASE UNCHANGED vars
  BY <1>1, ElsewhereStrong DEF vars
<1>2. CASE Api
  BY <1>2, ElsewhereStrong DEF Api, EditWant, Transition
<1>3. CASE People
  BY <1>3, ElsewhereStrong, EditStrong DEF People, AddLabel, RemoveLabel, Tick
<1>4. CASE Reconcile
  <2>1. CASE StartPass BY <2>1, ElsewhereStrong DEF StartPass
  <2>2. CASE FinishAction
    <3>1. Unrecorded = {} BY <2>2 DEF FinishAction, Unrecorded
    <3>2. QED BY <2>2, <3>1, EndStrong DEF FinishAction
  <2>3. CASE FinishPass
    <3>1. Unrecorded = {} BY <2>3, NothingLeft DEF FinishPass, Unrecorded
    <3>2. QED BY <2>3, <3>1, EndStrong DEF FinishPass
  <2>4. QED
    BY <1>4, <2>1, <2>2, <2>3, PlanStrong, BeginStrong, ApplyStatusStrong,
       SendPatchStrong, RecordStrong
    DEF Reconcile
<1>5. CASE Fault
  <2>1. CASE ActionFails BY <2>1, EndStrong DEF ActionFails
  <2>2. CASE Crash BY <2>2, EndStrong DEF Crash
  <2>3. QED BY <1>5, <2>1, <2>2, AnswerLostStrong DEF Fault
<1>6. QED BY <1>1, <1>2, <1>3, <1>4, <1>5 DEF Next

\* The inductive invariant: types, plan, books and tool agree at every moment.
THEOREM Inductive == Spec => []SyncInv
<1>1. Init => SyncInv
  BY InitType, InitStrong DEF SyncInv
<1>2. SyncInv /\ [Next]_vars => SyncInv'
  BY TypeStep, StrongStep DEF SyncInv
<1>3. QED BY <1>1, <1>2, PTL DEF Spec

-----------------------------------------------------------------------------
(* The theorems. *)

\* last_applied is never ahead of the task tool: what it holds of a field, the
\* tool took from prisme.
THEOREM RecordsAreAccepted == Spec => []RecordedWasAccepted
<1>1. SyncInv => RecordedWasAccepted BY DEF SyncInv, Strong
<1>2. QED BY <1>1, Inductive, PTL

\* A conflict is planned only for a field somebody edited, or whose accepted
\* write was never recorded.
THEOREM ConflictsAreEdits == Spec => []ConflictIsAnEdit
<1>1. SyncInv => ConflictIsAnEdit BY DEF SyncInv, Strong
<1>2. QED BY <1>1, Inductive, PTL

\* A step of the pass that changes the task sends a patch of the action in hand.
LEMMA ChangedByPatch ==
    ASSUME TypeOK, [Next]_vars, NEW f \in Fields, PrismeWrites(f)
    PROVE  f \in Writes(cur)
<1>1. ASSUME NEW p \in cur.patches, Accept(p) PROVE f \in Writes(cur)
  BY <1>1 DEF Accept, PrismeWrites, Writes
<1>2. \E p \in cur.patches : Accept(p)
  <2>1. cur' # cur /\ tool' # tool
    BY DEF PrismeWrites
  <2>2. Reconcile \/ Fault
    BY <2>1 DEF vars, Next, Api, People, EditWant, Transition, EditTool, AddLabel,
                RemoveLabel, Tick
  <2>3. QED
    BY <2>1, <2>2 DEF Reconcile, Fault, StartPass, ObserveAndPlan, Begin, ApplyStatus,
       SendPatch, Record, FinishAction, FinishPass, ActionFails, AnswerLost, Crash
<1>3. QED BY <1>1, <1>2

\* No value that people put in a field prisme had written is written over
\* without an entry in the conflict ledger.
THEOREM OverridesAreLogged == Spec => EditsAreLogged
<1>1. SyncInv /\ [Next]_vars =>
        [\A f \in Owned \ {"label"} :
            PrismeWrites(f) /\ f \in at.foreign /\ last[f] # None
               => f \in cur.conflict]_vars
  <2> SUFFICES ASSUME SyncInv, [Next]_vars, NEW f \in Owned \ {"label"},
                      PrismeWrites(f), f \in at.foreign, last[f] # None
               PROVE  f \in cur.conflict
    OBVIOUS
  <2>1. f \in Writes(cur) BY ChangedByPatch DEF SyncInv, Fields
  <2>2. QED BY <2>1 DEF SyncInv, Strong, PlanIsLogged
<1>2. QED BY <1>1, Inductive, PTL DEF Spec, EditsAreLogged

\* A subtask's priority set by hand survives every pass that read it.
THEOREM HandSetSurvives == Spec => HandSetKept
<1>1. SyncInv /\ [Next]_vars =>
        [\A c \in Children : PrismeWrites(c) => c \notin at.hand]_vars
  <2> SUFFICES ASSUME SyncInv, [Next]_vars, NEW c \in Children, PrismeWrites(c),
                      c \in at.hand
               PROVE  FALSE
    OBVIOUS
  <2>1. c \in Writes(cur) BY ChangedByPatch DEF SyncInv, Fields
  <2>2. QED BY <2>1 DEF SyncInv, Strong, HandIsSpared
<1>2. QED BY <1>1, Inductive, PTL DEF Spec, HandSetKept

=============================================================================
