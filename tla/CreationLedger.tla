--------------------------- MODULE CreationLedger ----------------------------
(***************************************************************************)
(* The creation ledger: what prisme decided should exist in the tools, and *)
(* the pass that makes it.                                                 *)
(*                                                                         *)
(* API handlers commit intents, a row for each object; converge, a part of *)
(* the pass, reads the outstanding rows, makes one object after the other  *)
(* and records each before the next.  The task tool knows a row by its     *)
(* stored key; the document tool knows no keys, and converge looks for a   *)
(* live page of the title instead.  A call may be refused, its answer may  *)
(* be lost, and the process may end between any two steps.                 *)
(*                                                                         *)
(* One pass at a time (AdvisoryLock).  Initiatives' anchors are Binding's: *)
(* here whatever else binds an object is Elsewhere.                        *)
(***************************************************************************)
EXTENDS Naturals, FiniteSets

CONSTANTS
    Intents,     \* the slots: an entity, an object kind and an ordinal
    Entities,    \* captures, initiatives and projects
    EntityKind,  \* entity: "capture", "initiative" or "project"
    EntityOf,    \* intent: whose object it is
    KindOf,      \* intent: "project", "section", "task" or "page"
    Rank,        \* intent: its place in the order by kind, ordinal and id
    Objects,     \* the external ids
    Titles,      \* the titles of pages
    None,        \* no object, no holder, no title, no intent
    Elsewhere,   \* a holder that is not one of Entities
    MaxPerPass   \* DEFAULT_MAX_PER_PASS

Kinds == {"project", "section", "task", "page"}
EntityKinds == {"capture", "initiative", "project"}

ASSUME SlotsAssumption ==
    /\ EntityKind \in [Entities -> EntityKinds]
    /\ EntityOf \in [Intents -> Entities]
    /\ KindOf \in [Intents -> Kinds]
    /\ Rank \in [Intents -> Nat]
    /\ \A i, j \in Intents : Rank[i] = Rank[j] => i = j
    /\ MaxPerPass \in Nat

ASSUME NamesAssumption ==
    /\ None \notin Objects \cup Entities \cup Titles \cup Intents
    /\ Elsewhere \notin Entities \cup {None}

VARIABLES
    row,       \* creation_intent, by slot
    column,    \* each entity's own reference, by object kind
    ref,       \* entity_external_ref: who holds an object
    promoted,  \* the captures that became an initiative
    thing,     \* the tools: what each object is
    phase,     \* how far converge has come
    led,       \* the rows loadOutstanding returned, with what became of them
    refs,      \* each entity's project, as loadEntityRefs returned it
    stores,    \* the page stores that can be written to, as this pass read them
    attempted, \* the intents this pass has tried
    cur        \* the attempt that is not recorded yet

dbVars == <<row, column, ref, promoted>>
passVars == <<phase, led, refs, stores, attempted, cur>>
vars == <<row, column, ref, promoted, thing, phase, led, refs, stores,
          attempted, cur>>

-----------------------------------------------------------------------------
States == {"absent", "pending", "failed", "satisfied"}

Row == [state : States, title : Titles \cup {None},
        requires : Intents \cup {None}, ext : Objects \cup {None}]
NoRow == [state |-> "absent", title |-> None, requires |-> None, ext |-> None]

Outstanding(r) == r.state \in {"pending", "failed"}

\* An object is made for the intent whose key (or, in the document tool, whose
\* request) made it, or by hand; a section lies in a project, a page in a store.
Thing == [kind : Kinds \cup {"none"}, by : Intents \cup {None},
          title : Titles \cup {None},
          within : Objects \cup EntityKinds \cup {None}, live : BOOLEAN]
Nothing == [kind |-> "none", by |-> None, title |-> None, within |-> None,
            live |-> FALSE]

Keyed == {i \in Intents : KindOf[i] # "page"}
IntentsFor(e, k) == {i \in Intents : EntityOf[i] = e /\ KindOf[i] = k}

\* Where a reference has a column of its own.
HasColumn(e, k) ==
    <<EntityKind[e], k>> \in {<<"capture", "task">>, <<"initiative", "page">>,
                              <<"project", "page">>, <<"project", "project">>}

NoAttempt == [who |-> None, made |-> None]

Init ==
    /\ row = [i \in Intents |-> NoRow]
    /\ column = [e \in Entities |-> [k \in Kinds |-> None]]
    /\ ref = [x \in Objects |-> None]
    /\ promoted = {}
    /\ thing = [x \in Objects |-> Nothing]
    /\ phase = "idle"
    /\ led = [i \in Intents |-> NoRow]
    /\ refs = [e \in Entities |-> None]
    /\ stores = {}
    /\ attempted = {}
    /\ cur = NoAttempt

-----------------------------------------------------------------------------
(* The API. *)

\* Mutation of Written: without "where state <> 'satisfied'".
WrittenAlways(r, title, requires) ==
    [r EXCEPT !.state = IF @ = "absent" THEN "pending" ELSE @,
              !.title = title, !.requires = requires]

\* Asking again for a slot changes what is to be made, until it is made.
Written(r, title, requires) ==
    CASE r.state = "absent" ->
            [NoRow EXCEPT !.state = "pending", !.title = title, !.requires = requires]
      [] r.state = "satisfied" -> r
      [] OTHER -> [r EXCEPT !.title = title, !.requires = requires]

\* requires gives the batch's sections what they wait on.
WriteIntents(batch, title, requires) ==
    row' = [i \in Intents |->
              IF i \notin batch THEN row[i]
              ELSE Written(row[i],
                           IF KindOf[i] = "page" THEN title ELSE None,
                           IF KindOf[i] = "section" THEN requires ELSE None)]

RequestPage(e, title) ==
    /\ EntityKind[e] = "initiative"
    /\ IntentsFor(e, "page") # {}
    /\ WriteIntents(IntentsFor(e, "page"), title, None)
    /\ UNCHANGED <<column, ref, promoted, thing, passVars>>

\* A new capture: its task, and a page if one is wanted.
CreateCapture(e, title) ==
    /\ EntityKind[e] = "capture"
    /\ IntentsFor(e, "task") # {}
    /\ \A i \in IntentsFor(e, "task") : row[i].state = "absent"
    /\ WriteIntents(IntentsFor(e, "task")
                       \cup (IF title = None THEN {} ELSE IntentsFor(e, "page")),
                    title, None)
    /\ UNCHANGED <<column, ref, promoted, thing, passVars>>

FirstSections(e, S) ==
    /\ S \subseteq IntentsFor(e, "section")
    /\ \A i \in S, j \in IntentsFor(e, "section") : Rank[j] < Rank[i] => j \in S

\* The project is made (p is its slot), or (p is None) linked or left out; its
\* sections are planned all the same, as many as it has names for.
RequestStructure(e, p, S, title) ==
    /\ EntityKind[e] = "project"
    /\ p \in IntentsFor(e, "project") \cup {None}
    /\ FirstSections(e, S)
    /\ WriteIntents((IntentsFor(e, "project") \cap {p}) \cup S
                       \cup (IF title = None THEN {} ELSE IntentsFor(e, "page")),
                    title, p)
    /\ row' # row
    /\ UNCHANGED <<column, ref, promoted, thing, passVars>>

LinkExternal(e, x) ==
    /\ HasColumn(e, thing[x].kind)
    /\ ref[x] = None
    /\ ref' = [ref EXCEPT ![x] = e]
    /\ column' = [column EXCEPT ![e] = [@ EXCEPT ![thing[x].kind] = x]]
    /\ UNCHANGED <<row, promoted, thing, passVars>>

\* The capture's task becomes the anchor of a new initiative.
PromoteCapture(e) ==
    /\ EntityKind[e] = "capture"
    /\ e \notin promoted
    /\ column[e]["task"] # None
    /\ ref' = [x \in Objects |->
                 IF x = column[e]["task"] THEN Elsewhere
                 ELSE IF ref[x] = e /\ thing[x].kind = "task" THEN None
                 ELSE ref[x]]
    /\ promoted' = promoted \cup {e}
    /\ UNCHANGED <<row, column, thing, passVars>>

RetryIntent(i) ==
    /\ row[i].state = "failed"
    /\ row' = [row EXCEPT ![i].state = "pending"]
    /\ UNCHANGED <<column, ref, promoted, thing, passVars>>

\* Adoption, the reconciler, objectives and rituals bind objects too; only
\* tasks ever come free of them again.
BindElsewhere(x) ==
    /\ thing[x] # Nothing
    /\ ref[x] = None
    /\ ref' = [ref EXCEPT ![x] = Elsewhere]
    /\ UNCHANGED <<row, column, promoted, thing, passVars>>

UnbindElsewhere(x) ==
    /\ thing[x].kind = "task"
    /\ ref[x] = Elsewhere
    /\ ref' = [ref EXCEPT ![x] = None]
    /\ UNCHANGED <<row, column, promoted, thing, passVars>>

-----------------------------------------------------------------------------
(* People in the tools. *)

Unborn == {x \in Objects : thing[x] = Nothing}

\* The bound: an instance keeps an object for each keyed intent.
Unmade == {i \in Keyed : \A x \in Objects : thing[x].by # i}
RoomToSpare == Unborn # {} /\ Cardinality(Unborn) > Cardinality(Unmade)

Fresh == CHOOSE x \in Unborn : TRUE

MakeByHand(kind, title, within) ==
    /\ RoomToSpare
    /\ thing' = [thing EXCEPT ![Fresh] =
                   [kind |-> kind, by |-> None, title |-> title,
                    within |-> within, live |-> TRUE]]
    /\ UNCHANGED <<dbVars, passVars>>

Rename(x, title) ==
    /\ thing[x].kind = "page"
    /\ thing[x].title # title
    /\ thing' = [thing EXCEPT ![x].title = title]
    /\ UNCHANGED <<dbVars, passVars>>

Trash(x) ==
    /\ thing[x].kind = "page"
    /\ thing[x].live
    /\ thing' = [thing EXCEPT ![x].live = FALSE]
    /\ UNCHANGED <<dbVars, passVars>>

-----------------------------------------------------------------------------
(* One converge. *)

\* The outstanding rows and the rows they wait on, satisfied or not.
LoadOutstanding ==
    /\ phase = "idle"
    /\ phase' = "loaded"
    /\ led' = [i \in Intents |->
                 IF \/ Outstanding(row[i])
                    \/ \E j \in Intents : Outstanding(row[j]) /\ row[j].requires = i
                 THEN row[i] ELSE NoRow]
    /\ UNCHANGED <<dbVars, thing, refs, stores, attempted, cur>>

\* A second statement; then the document tool is asked, of the stores that some
\* page is wanted in, which are bound and hold the template.
LoadEntityRefs(S) ==
    /\ phase = "loaded"
    /\ S \subseteq {EntityKind[EntityOf[i]] :
                     i \in {j \in Intents \ Keyed : Outstanding(led[j])}}
    /\ phase' = "converging"
    /\ refs' = [e \in Entities |->
                  IF \E i \in Intents : led[i] # NoRow /\ EntityOf[i] = e
                  THEN column[e]["project"] ELSE None]
    /\ stores' = S
    /\ UNCHANGED <<dbVars, thing, led, attempted, cur>>

\* A section's project: the one its prerequisite made, or its entity's own.
Parent(i) ==
    IF led[i].requires # None THEN led[led[i].requires].ext
    ELSE refs[EntityOf[i]]

\* Mutations of Runnable: a section that does not wait for its project, and a
\* failure that only a person's retry undoes.
RunnableUnordered(i) ==
    /\ Outstanding(led[i])
    /\ i \notin attempted
    /\ KindOf[i] = "page" => EntityKind[EntityOf[i]] \in stores

RunnableOnce(i) ==
    /\ led[i].state = "pending"
    /\ i \notin attempted
    /\ KindOf[i] = "page" => EntityKind[EntityOf[i]] \in stores
    /\ led[i].requires # None => led[led[i].requires].state = "satisfied"
    /\ KindOf[i] = "section" => Parent(i) # None

Runnable(i) ==
    /\ Outstanding(led[i])
    /\ i \notin attempted
    /\ KindOf[i] = "page" => EntityKind[EntityOf[i]] \in stores
    /\ led[i].requires # None => led[led[i].requires].state = "satisfied"
    /\ KindOf[i] = "section" => Parent(i) # None

IsNext(i) ==
    /\ phase = "converging"
    /\ cur = NoAttempt
    /\ Cardinality(attempted) < MaxPerPass
    /\ Runnable(i)
    /\ \A j \in Intents : Runnable(j) => Rank[i] <= Rank[j]

LivePages(store, title) ==
    {x \in Objects : /\ thing[x].kind = "page"
                     /\ thing[x].live
                     /\ thing[x].within = store
                     /\ thing[x].title = title}

\* Mutation of Existing: a key made anew for each pass, as the reconciler's are.
ExistingUnkeyed(i) ==
    IF KindOf[i] = "page" THEN LivePages(EntityKind[EntityOf[i]], led[i].title)
    ELSE {}

\* What the tool answers a second time: the object of the key, or a live page
\* of the title in the store.
Existing(i) ==
    IF KindOf[i] = "page" THEN LivePages(EntityKind[EntityOf[i]], led[i].title)
    ELSE {x \in Objects : thing[x].by = i}

Made(i) ==
    [kind |-> KindOf[i], by |-> i, title |-> led[i].title, live |-> TRUE,
     within |-> CASE KindOf[i] = "page" -> EntityKind[EntityOf[i]]
                  [] KindOf[i] = "section" -> Parent(i)
                  [] OTHER -> None]

Room(i) == Unborn # {} /\ (KindOf[i] = "page" => RoomToSpare)

\* The tool now has x for the intent, found or made.
Ensure(i, x) ==
    \/ /\ x \in Existing(i)
       /\ UNCHANGED thing
    \/ /\ Existing(i) = {}
       /\ Room(i)
       /\ x = Fresh
       /\ thing' = [thing EXCEPT ![x] = Made(i)]

Attempt(i, x) ==
    /\ attempted' = attempted \cup {i}
    /\ cur' = [who |-> i, made |-> x]
    /\ UNCHANGED <<dbVars, phase, led, refs, stores>>

Perform(i, x) ==
    /\ IsNext(i)
    /\ Ensure(i, x)
    /\ Attempt(i, x)

\* The tool made it and nothing says so.
AnswerLost(i, x) ==
    /\ IsNext(i)
    /\ Ensure(i, x)
    /\ Attempt(i, None)

\* The request that makes a page is retried inside the client, without looking
\* for the page again.
SentTwice(i, x) ==
    /\ IsNext(i)
    /\ KindOf[i] = "page"
    /\ Existing(i) = {}
    /\ \E y \in Unborn \ {x} :
          thing' = [thing EXCEPT ![x] = Made(i), ![y] = Made(i)]
    /\ x = Fresh
    /\ Cardinality(Unborn) > Cardinality(Unmade) + 1
    /\ Attempt(i, x)

Refuse(i) ==
    /\ IsNext(i)
    /\ UNCHANGED thing
    /\ Attempt(i, None)

\* The bound: an instance out of room for another page.
NoRoom(i) == Existing(i) = {} /\ ~Room(i) /\ Refuse(i)

\* Mutation of Claimed: the reference is taken over, as promoteCapture takes it.
ClaimedByIntent(i, x) ==
    \E j \in Intents \ {i} : KindOf[j] = KindOf[i] /\ row[j].ext = x

\* The two unique indexes: another row of the kind made it, or another entity
\* holds it.
Claimed(i, x) ==
    \/ ref[x] \notin {None, EntityOf[i]}
    \/ \E j \in Intents \ {i} : KindOf[j] = KindOf[i] /\ row[j].ext = x

\* Mutation of Recorded: the state without the object's name.
RecordedUnnamed(r, x) == [r EXCEPT !.state = "satisfied"]

Recorded(r, x) == [r EXCEPT !.state = "satisfied", !.ext = x]

RecordSatisfied ==
    LET i == cur.who
        x == cur.made
        e == EntityOf[i]
        k == KindOf[i]
    IN  /\ x # None
        /\ ~Claimed(i, x)
        /\ row' = [row EXCEPT ![i] = Recorded(@, x)]
        /\ ref' = [ref EXCEPT ![x] = e]
        /\ column' = IF HasColumn(e, k)
                     THEN [column EXCEPT ![e] = [@ EXCEPT ![k] = x]] ELSE column
        /\ led' = [led EXCEPT ![i] = Recorded(@, x)]
        /\ cur' = NoAttempt
        /\ UNCHANGED <<promoted, thing, phase, refs, stores, attempted>>

RecordFailed ==
    /\ cur.who # None
    /\ cur.made = None
    /\ row' = [row EXCEPT ![cur.who].state = "failed"]
    /\ led' = [led EXCEPT ![cur.who].state = "failed"]
    /\ cur' = NoAttempt
    /\ UNCHANGED <<column, ref, promoted, thing, phase, refs, stores, attempted>>

EndPass ==
    /\ phase' = "idle"
    /\ led' = [i \in Intents |-> NoRow]
    /\ refs' = [e \in Entities |-> None]
    /\ stores' = {}
    /\ attempted' = {}
    /\ cur' = NoAttempt
    /\ UNCHANGED <<dbVars, thing>>

\* The transaction is undone, and nothing catches what it throws.
RecordRefused ==
    /\ cur.made # None
    /\ Claimed(cur.who, cur.made)
    /\ EndPass

Finished ==
    \/ Cardinality(attempted) >= MaxPerPass
    \/ \A i \in Intents : ~Runnable(i)

Finish ==
    /\ phase = "converging"
    /\ cur = NoAttempt
    /\ Finished
    /\ EndPass

Crash == phase # "idle" /\ EndPass

-----------------------------------------------------------------------------
Api ==
    \/ \E e \in Entities :
          \/ \E t \in Titles : RequestPage(e, t)
          \/ \E t \in Titles \cup {None} : CreateCapture(e, t)
          \/ \E p \in Intents \cup {None}, S \in SUBSET IntentsFor(e, "section"),
                t \in Titles \cup {None} : RequestStructure(e, p, S, t)
          \/ \E x \in Objects : LinkExternal(e, x)
          \/ PromoteCapture(e)
    \/ \E i \in Intents : RetryIntent(i)
    \/ \E x \in Objects : BindElsewhere(x) \/ UnbindElsewhere(x)

People ==
    \/ \E k \in {"task", "project"} : MakeByHand(k, None, None)
    \/ \E t \in Titles, i \in Intents \ Keyed :
          MakeByHand("page", t, EntityKind[EntityOf[i]])
    \/ \E x \in Objects : Trash(x) \/ \E t \in Titles : Rename(x, t)

Converge ==
    \/ LoadOutstanding
    \/ \E S \in SUBSET EntityKinds : LoadEntityRefs(S)
    \/ \E i \in Intents : NoRoom(i) \/ \E x \in Objects : Perform(i, x)
    \/ RecordSatisfied \/ RecordFailed \/ RecordRefused \/ Finish

Fault ==
    \/ \E i \in Intents :
          Refuse(i) \/ \E x \in Objects : AnswerLost(i, x) \/ SentTwice(i, x)
    \/ Crash

Next == Api \/ People \/ Converge \/ Fault

Spec == Init /\ [][Next]_vars

-----------------------------------------------------------------------------
(* What the ledger promises. *)

TypeOK ==
    /\ row \in [Intents -> Row]
    /\ column \in [Entities -> [Kinds -> Objects \cup {None}]]
    /\ ref \in [Objects -> Entities \cup {None, Elsewhere}]
    /\ promoted \subseteq Entities
    /\ thing \in [Objects -> Thing]
    /\ phase \in {"idle", "loaded", "converging"}
    /\ led \in [Intents -> Row]
    /\ refs \in [Entities -> Objects \cup {None}]
    /\ stores \subseteq EntityKinds
    /\ attempted \subseteq Intents
    /\ cur \in [who : Intents \cup {None}, made : Objects \cup {None}]
    /\ \A i \in Intents : row[i].state = "satisfied" <=> row[i].ext # None

\* Every object the task tool has is made once for its intent, however often the
\* creation is tried, and it is the one the ledger names: the tool, the rows and
\* the pass between them implement ExactlyOnce (0007_creation.sql:23-35).
Once == INSTANCE ExactlyOnce WITH
            Intents <- Keyed,
            asked <- {i \in Keyed : row[i].state # "absent"},
            made <- [i \in Keyed |-> {x \in Objects : thing[x].by = i}],
            known <- [i \in Keyed |-> row[i].ext]

OnceSpec == Once!Spec

\* Guard 1 in both directions: whatever an entity or a done intent refers to is
\* held by that entity, whoever linked or adopted what meanwhile; a promoted
\* capture has given its task away.
ReferencesAgree ==
    /\ \A e \in Entities \ promoted : \A k \in Kinds :
          column[e][k] # None => ref[column[e][k]] = e
    /\ \A i \in Intents :
          row[i].state = "satisfied" /\ EntityOf[i] \notin promoted
             => ref[row[i].ext] = EntityOf[i]

\* What was made stays made: no later request, retry, failure or pass reopens a
\* done intent or changes what it names.
SatisfiedIsFinal ==
    [][\A i \in Intents : row[i].state = "satisfied" => row'[i] = row[i]]_vars

\* A section is never sent with an empty parent, nor into another project than
\* its entity's, though the project was read or made earlier in the pass.
SectionInOwnProject ==
    \A x \in Objects :
       thing[x].kind = "section" /\ thing[x].by # None =>
          /\ thing[x].within \in Objects
          /\ thing[thing[x].within].kind = "project"
          /\ ref[thing[x].within] = EntityOf[thing[x].by]

-----------------------------------------------------------------------------
(* Why: what the pass believes of the rows stays true until it records. *)

\* What the pass takes for outstanding is; what it takes for done is done, and
\* made that object.
ReadIsTrue ==
    \A i \in Intents :
       /\ Outstanding(led[i]) => Outstanding(row[i])
       /\ led[i].state = "satisfied" => row[i].state = "satisfied" /\ row[i].ext = led[i].ext

\* Only sections wait, and for their own entity's project.
RightRequires(i, r) ==
    r # None => /\ KindOf[i] = "section"
                /\ KindOf[r] = "project"
                /\ EntityOf[r] = EntityOf[i]

PrerequisitesAreOwn ==
    \A i \in Intents :
       RightRequires(i, row[i].requires) /\ RightRequires(i, led[i].requires)

\* The attempt in hand is of an outstanding intent, and its object is that
\* intent's or a page.
AttemptIsOurs ==
    /\ cur.who = None => cur.made = None
    /\ cur.who # None => Outstanding(led[cur.who])
    /\ cur.made # None =>
          /\ thing[cur.made].kind = KindOf[cur.who]
          /\ cur.who \in Keyed => thing[cur.made].by = cur.who

OneEach ==
    /\ \A x \in Objects : thing[x].by # None => thing[x].kind = KindOf[thing[x].by]
    /\ \A x, y \in Objects :
          thing[x].by \in Keyed /\ thing[y].by = thing[x].by => x = y

Gone(e, k) == e \in promoted /\ k = "task"

ColumnsHold ==
    \A e \in Entities, k \in Kinds : column[e][k] # None =>
       /\ HasColumn(e, k)
       /\ thing[column[e][k]].kind = k
       /\ Gone(e, k) \/ ref[column[e][k]] = e

DoneHold ==
    \A i \in Intents : row[i].state = "satisfied" =>
       /\ thing[row[i].ext].kind = KindOf[i]
       /\ Gone(EntityOf[i], KindOf[i]) \/ ref[row[i].ext] = EntityOf[i]

ReadProjectsHold ==
    \A e \in Entities : refs[e] # None =>
       thing[refs[e]].kind = "project" /\ ref[refs[e]] = e

Strong ==
    /\ ReadIsTrue
    /\ PrerequisitesAreOwn
    /\ AttemptIsOurs
    /\ OneEach
    /\ ColumnsHold
    /\ DoneHold
    /\ ReadProjectsHold
    /\ SectionInOwnProject

LedgerInv == TypeOK /\ Strong

=============================================================================
