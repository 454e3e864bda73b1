------------------------- MODULE CreationLedger_proofs -----------------------
(***************************************************************************)
(* Proofs about CreationLedger: that it implements ExactlyOnce, that done  *)
(* rows stay, and that references agree.  First what the steps can do to   *)
(* the rows, the objects and the references; then LedgerInv, one kind of   *)
(* step after the other; then the theorems.                                *)
(***************************************************************************)
EXTENDS CreationLedger, TLAPS

USE SlotsAssumption, NamesAssumption

-----------------------------------------------------------------------------
(* What a step can do. *)

\* A row is as open or as done as it was, and waits for a project of its own.
Kept(i) ==
    /\ row'[i].ext = row[i].ext
    /\ row[i].state = "satisfied" => row'[i] = row[i]
    /\ row'[i].state = "satisfied" => row[i].state = "satisfied"
    /\ Outstanding(row[i]) => Outstanding(row'[i])
    /\ row[i].state # "absent" => row'[i].state # "absent"
    /\ RightRequires(i, row[i].requires) => RightRequires(i, row'[i].requires)

\* Whoever holds an object goes on holding it, a promoted capture's task apart.
HoldersStay ==
    \A x \in Objects, e \in Entities :
       ref[x] = e /\ ~(e \in promoted' /\ thing[x].kind = "task") => ref'[x] = e

\* An object stays what it is.
ThingsStay ==
    \A x \in Objects : thing[x].kind # "none" =>
       /\ thing'[x].kind = thing[x].kind
       /\ thing'[x].by = thing[x].by
       /\ thing'[x].within = thing[x].within

\* What changes was nothing, and is the intent's now.
OnlyMakes(i) ==
    \A x \in Objects :
       thing'[x] # thing[x] => thing[x] = Nothing /\ thing'[x] = Made(i)

\* writeIntents keeps what it finds done.
LEMMA WrittenKeeps ==
  ASSUME TypeOK,
         NEW batch \in SUBSET Intents, NEW t \in Titles \cup {None},
         NEW r \in Intents \cup {None},
         WriteIntents(batch, t, r),
         \A i \in batch : KindOf[i] = "section" => RightRequires(i, r)
  PROVE  row' \in [Intents -> Row] /\ \A i \in Intents : Kept(i)
<1> SUFFICES ASSUME NEW i \in Intents
             PROVE  row'[i] \in Row /\ Kept(i)
  BY DEF WriteIntents
<1> DEFINE title == IF KindOf[i] = "page" THEN t ELSE None
           requires == IF KindOf[i] = "section" THEN r ELSE None
<1>1. row[i] \in Row /\ title \in Titles \cup {None} /\ requires \in Intents \cup {None}
  BY DEF TypeOK
<1>2. i \in batch => RightRequires(i, requires)
  BY DEF RightRequires
<1>3. CASE i \notin batch
  BY <1>1, <1>3 DEF WriteIntents, Kept
<1>4. CASE i \in batch
  <2>1. row'[i] = Written(row[i], title, requires)
    BY <1>4 DEF WriteIntents
  <2> HIDE DEF title, requires
  <2>2. CASE row[i].state = "absent"
    <3>1. row'[i] = [state |-> "pending", title |-> title, requires |-> requires,
                     ext |-> None]
      BY <2>1, <2>2 DEF Written, NoRow
    <3>2. row[i].ext = None
      BY <1>1, <2>2 DEF TypeOK
    <3> QED
      BY <1>1, <1>2, <1>4, <2>2, <3>1, <3>2 DEF Row, States, Kept, Outstanding
  <2>3. CASE row[i].state = "satisfied"
    <3>1. row'[i] = row[i]
      BY <2>1, <2>3 DEF Written
    <3> QED
      BY <1>1, <3>1 DEF Kept
  <2>4. CASE row[i].state \in {"pending", "failed"}
    <3>1. row'[i] = [row[i] EXCEPT !.title = title, !.requires = requires]
      BY <2>1, <2>4 DEF Written
    <3> QED
      BY <1>1, <1>2, <1>4, <2>4, <3>1 DEF Row, Kept, Outstanding
  <2> QED
    BY <1>1, <2>2, <2>3, <2>4 DEF Row, States
<1> QED
  BY <1>3, <1>4

\* A handler keeps every row, whichever slots it writes.
LEMMA ApiRows ==
  ASSUME TypeOK, Api
  PROVE  row' \in [Intents -> Row] /\ \A i \in Intents : Kept(i)
<1> DEFINE AllKept == row' \in [Intents -> Row] /\ \A i \in Intents : Kept(i)
<1>1. ASSUME UNCHANGED row
      PROVE  AllKept
  BY <1>1 DEF TypeOK, Kept
<1>2. ASSUME NEW e \in Entities, NEW t \in Titles, RequestPage(e, t)
      PROVE  AllKept
  <2>1. WriteIntents(IntentsFor(e, "page"), t, None)
    BY <1>2 DEF RequestPage
  <2>2. IntentsFor(e, "page") \in SUBSET Intents
    BY DEF IntentsFor
  <2> QED
    BY <2>1, <2>2, WrittenKeeps DEF RightRequires
<1>3. ASSUME NEW e \in Entities, NEW t \in Titles \cup {None}, CreateCapture(e, t)
      PROVE  AllKept
  <2> DEFINE batch == IntentsFor(e, "task")
                        \cup (IF t = None THEN {} ELSE IntentsFor(e, "page"))
  <2>1. WriteIntents(batch, t, None)
    BY <1>3 DEF CreateCapture
  <2>2. batch \in SUBSET Intents
    BY DEF IntentsFor
  <2> HIDE DEF batch
  <2> QED
    BY <2>1, <2>2, WrittenKeeps DEF RightRequires
<1>4. ASSUME NEW e \in Entities, NEW p \in Intents \cup {None},
             NEW S \in SUBSET IntentsFor(e, "section"),
             NEW t \in Titles \cup {None}, RequestStructure(e, p, S, t)
      PROVE  AllKept
  <2> DEFINE batch == (IntentsFor(e, "project") \cap {p}) \cup S
                        \cup (IF t = None THEN {} ELSE IntentsFor(e, "page"))
  <2>1. WriteIntents(batch, t, p)
    BY <1>4 DEF RequestStructure
  <2>2. batch \in SUBSET Intents /\ \A i \in batch : KindOf[i] = "section" => i \in S
    BY DEF IntentsFor
  <2>3. \A i \in batch : KindOf[i] = "section" => RightRequires(i, p)
    BY <1>4, <2>2 DEF RequestStructure, IntentsFor, RightRequires
  <2> HIDE DEF batch
  <2> QED
    BY <2>1, <2>2, <2>3, WrittenKeeps
<1>5. ASSUME NEW i \in Intents, RetryIntent(i)
      PROVE  AllKept
  <2>1. row[i] \in Row /\ row[i].state = "failed"
    BY <1>5 DEF RetryIntent, TypeOK
  <2>2. row' = [row EXCEPT ![i] = [row[i] EXCEPT !.state = "pending"]]
    BY <1>5 DEF RetryIntent
  <2> DEFINE retried == [row[i] EXCEPT !.state = "pending"]
  <2>3. /\ retried \in Row
        /\ retried.state = "pending"
        /\ retried.ext = row[i].ext
        /\ retried.requires = row[i].requires
    BY <2>1 DEF Row, States
  <2>4. row' = [row EXCEPT ![i] = retried]
    BY <2>2
  <2> HIDE DEF retried
  <2> QED
    BY <2>1, <2>3, <2>4 DEF TypeOK, Kept, Outstanding
<1>6. ASSUME \/ \E e \in Entities : PromoteCapture(e) \/ \E x \in Objects : LinkExternal(e, x)
             \/ \E x \in Objects : BindElsewhere(x) \/ UnbindElsewhere(x)
      PROVE  UNCHANGED row
  BY <1>6 DEF LinkExternal, PromoteCapture, BindElsewhere, UnbindElsewhere
<1> HIDE DEF AllKept
<1>7. AllKept
  BY <1>1, <1>2, <1>3, <1>4, <1>5, <1>6 DEF Api
<1> QED
  BY <1>7 DEF AllKept

\* The next id is of an object that is not made yet.
LEMMA FreshIsUnborn ==
  ASSUME Unborn # {}
  PROVE  Fresh \in Objects /\ thing[Fresh] = Nothing
BY DEF Fresh, Unborn

\* People make, rename and trash, and what they do is not an intent's.
LEMMA PeopleThings ==
  ASSUME TypeOK, People
  PROVE  /\ thing' \in [Objects -> Thing]
         /\ ThingsStay
         /\ \A x \in Objects : thing'[x].by = thing[x].by
         /\ \A x \in Objects : thing'[x].by # None => thing'[x].kind = thing[x].kind
<1> DEFINE Fine == /\ thing' \in [Objects -> Thing]
                   /\ ThingsStay
                   /\ \A x \in Objects : thing'[x].by = thing[x].by
                   /\ \A x \in Objects : thing'[x].by # None => thing'[x].kind = thing[x].kind
<1>1. ASSUME NEW k \in Kinds, NEW t \in Titles \cup {None},
             NEW w \in EntityKinds \cup {None}, MakeByHand(k, t, w)
      PROVE  Fine
  <2> DEFINE new == [kind |-> k, by |-> None, title |-> t, within |-> w, live |-> TRUE]
  <2>1. Fresh \in Objects /\ thing[Fresh] = Nothing
    BY <1>1, FreshIsUnborn DEF MakeByHand, RoomToSpare
  <2>2. new \in Thing /\ new.by = None
    BY DEF Thing
  <2>3. thing' = [thing EXCEPT ![Fresh] = new]
    BY <1>1 DEF MakeByHand
  <2> HIDE DEF new
  <2>4. thing[Fresh].kind = "none" /\ thing[Fresh].by = None
    BY <2>1 DEF Nothing
  <2> QED
    BY <2>1, <2>2, <2>3, <2>4 DEF TypeOK, ThingsStay
<1>2. ASSUME NEW x \in Objects,
             Trash(x) \/ \E t \in Titles : Rename(x, t)
      PROVE  Fine
  <2>1. PICK new \in Thing :
           /\ thing' = [thing EXCEPT ![x] = new]
           /\ new.kind = thing[x].kind
           /\ new.by = thing[x].by
           /\ new.within = thing[x].within
    <3>1. thing[x] \in Thing
      BY DEF TypeOK
    <3>2. CASE Trash(x)
      <4>1. thing' = [thing EXCEPT ![x] = [thing[x] EXCEPT !.live = FALSE]]
        BY <3>2 DEF Trash
      <4>2. [thing[x] EXCEPT !.live = FALSE] \in Thing
        BY <3>1 DEF Thing
      <4> QED
        BY <3>1, <4>1, <4>2 DEF Thing
    <3>3. ASSUME NEW t \in Titles, Rename(x, t)
          PROVE  \E new \in Thing :
                    /\ thing' = [thing EXCEPT ![x] = new]
                    /\ new.kind = thing[x].kind
                    /\ new.by = thing[x].by
                    /\ new.within = thing[x].within
      <4>1. thing' = [thing EXCEPT ![x] = [thing[x] EXCEPT !.title = t]]
        BY <3>3 DEF Rename
      <4>2. [thing[x] EXCEPT !.title = t] \in Thing
        BY <3>1 DEF Thing
      <4> QED
        BY <3>1, <4>1, <4>2 DEF Thing
    <3> QED
      BY <1>2, <3>2, <3>3
  <2> QED
    BY <2>1 DEF TypeOK, ThingsStay
<1>3. \A i \in Intents : EntityKind[EntityOf[i]] \in EntityKinds
  OBVIOUS
<1> HIDE DEF Fine
<1>4. ASSUME NEW k \in {"task", "project"}, MakeByHand(k, None, None)
      PROVE  Fine
  BY <1>1, <1>4 DEF Kinds
<1>5. ASSUME NEW t \in Titles, NEW i \in Intents \ Keyed,
             MakeByHand("page", t, EntityKind[EntityOf[i]])
      PROVE  Fine
  BY <1>1, <1>3, <1>5 DEF Kinds
<1>6. Fine
  BY <1>2, <1>4, <1>5 DEF People
<1> QED
  BY <1>6 DEF Fine

\* What an intent makes is a thing of its kind.
LEMMA MadeIsThing ==
  ASSUME TypeOK, NEW i \in Intents
  PROVE  /\ Made(i) \in Thing
         /\ Made(i).by = i
         /\ Made(i).kind = KindOf[i]
         /\ KindOf[i] = "section" => Made(i).within = Parent(i)
<1>1. Parent(i) \in Objects \cup {None}
  BY DEF Parent, TypeOK, Row
<1> DEFINE w == CASE KindOf[i] = "page" -> EntityKind[EntityOf[i]]
                  [] KindOf[i] = "section" -> Parent(i)
                  [] OTHER -> None
<1>2. w \in Objects \cup EntityKinds \cup {None} /\ (KindOf[i] = "section" => w = Parent(i))
  BY <1>1
<1>3. led[i].title \in Titles \cup {None} /\ KindOf[i] \in Kinds
  BY DEF TypeOK, Row
<1>4. Made(i) = [kind |-> KindOf[i], by |-> i, title |-> led[i].title, live |-> TRUE,
                 within |-> w]
  BY DEF Made
<1> HIDE DEF w
<1> QED
  BY <1>2, <1>3, <1>4 DEF Thing

\* The tool has the intent's object when the call is over: the one it has by the
\* key, or a new one.
LEMMA EnsureHas ==
  ASSUME TypeOK, OneEach, NEW i \in Intents, NEW x \in Objects, Ensure(i, x)
  PROVE  /\ OnlyMakes(i)
         /\ thing' \in [Objects -> Thing]
         /\ thing'[x].kind = KindOf[i]
         /\ i \in Keyed => thing'[x].by = i
         /\ i \in Keyed /\ thing' # thing => \A y \in Objects : thing[y].by # i
         /\ \A y \in Objects \ {x} : thing'[y] = thing[y]
<1>1. CASE x \in Existing(i) /\ UNCHANGED thing
  <2>1. i \in Keyed => thing[x].by = i
    BY <1>1 DEF Existing, Keyed
  <2>2. thing[x].kind = KindOf[i]
    BY <1>1 DEF Existing, LivePages, OneEach
  <2> QED
    BY <1>1, <2>1, <2>2 DEF OnlyMakes, TypeOK
<1>2. CASE /\ Existing(i) = {} /\ Room(i) /\ x = Fresh
           /\ thing' = [thing EXCEPT ![x] = Made(i)]
  <2>1. thing[x] = Nothing
    BY <1>2, FreshIsUnborn DEF Room
  <2>2. i \in Keyed => \A y \in Objects : thing[y].by # i
    BY <1>2 DEF Existing, Keyed
  <2> QED
    BY <1>2, <2>1, <2>2, MadeIsThing DEF OnlyMakes, TypeOK
<1> QED
  BY <1>1, <1>2 DEF Ensure

\* A second request makes a second page, and nothing else.
LEMMA SentTwiceMakes ==
  ASSUME TypeOK, NEW i \in Intents, NEW x \in Objects, SentTwice(i, x)
  PROVE  /\ OnlyMakes(i)
         /\ thing' \in [Objects -> Thing]
         /\ thing'[x].kind = KindOf[i]
         /\ i \notin Keyed
<1>1. PICK y \in Unborn \ {x} :
         thing' = [thing EXCEPT ![x] = Made(i), ![y] = Made(i)]
  BY DEF SentTwice
<1>2. thing[x] = Nothing /\ thing[y] = Nothing /\ y \in Objects
  BY <1>1, FreshIsUnborn DEF SentTwice, Unborn
<1>3. i \notin Keyed
  BY DEF SentTwice, Keyed
<1> QED
  BY <1>1, <1>2, <1>3, MadeIsThing DEF OnlyMakes, TypeOK

-----------------------------------------------------------------------------
(* LedgerInv: the steps of others. *)

\* No handler takes an object from its entity, but for promotion, and no column
\* gets an object that is not the entity's.
LEMMA ApiRefs ==
  ASSUME TypeOK, ColumnsHold, Api
  PROVE  /\ ref' \in [Objects -> Entities \cup {None, Elsewhere}]
         /\ column' \in [Entities -> [Kinds -> Objects \cup {None}]]
         /\ promoted' \subseteq Entities
         /\ promoted \subseteq promoted'
         /\ HoldersStay
         /\ ColumnsHold'
         /\ UNCHANGED <<thing, passVars>>
<1> DEFINE Agreed == /\ ref' \in [Objects -> Entities \cup {None, Elsewhere}]
                     /\ column' \in [Entities -> [Kinds -> Objects \cup {None}]]
                     /\ promoted' \subseteq Entities
                     /\ promoted \subseteq promoted'
                     /\ HoldersStay
                     /\ ColumnsHold'
                     /\ UNCHANGED <<thing, passVars>>
<1>1. ASSUME UNCHANGED <<column, ref, promoted, thing, passVars>>
      PROVE  Agreed
  BY <1>1 DEF TypeOK, HoldersStay, ColumnsHold, Gone, HasColumn
<1>2. ASSUME NEW e \in Entities, NEW x \in Objects, LinkExternal(e, x)
      PROVE  Agreed
  <2> DEFINE k == thing[x].kind
  <2>1. k \in Kinds
    BY <1>2 DEF LinkExternal, HasColumn, Kinds
  <2>2. /\ HasColumn(e, k)
        /\ ref[x] = None
        /\ ref' = [ref EXCEPT ![x] = e]
        /\ column' = [column EXCEPT ![e] = [column[e] EXCEPT ![k] = x]]
        /\ UNCHANGED <<promoted, thing, passVars>>
    BY <1>2 DEF LinkExternal
  <2>3. column' \in [Entities -> [Kinds -> Objects \cup {None}]]
    BY <2>1, <2>2 DEF TypeOK
  <2>4. HoldersStay
    BY <2>2 DEF HoldersStay, TypeOK
  <2>5. ASSUME NEW f \in Entities, NEW j \in Kinds, column'[f][j] # None
        PROVE  /\ HasColumn(f, j)
               /\ thing[column'[f][j]].kind = j
               /\ Gone(f, j) \/ ref'[column'[f][j]] = f
    <3>1. CASE f = e /\ j = k
      BY <2>1, <2>2, <3>1 DEF TypeOK
    <3>2. CASE ~(f = e /\ j = k)
      <4>1. column'[f][j] = column[f][j]
        BY <2>1, <2>2, <3>2 DEF TypeOK
      <4> QED
        BY <2>2, <2>5, <4>1 DEF ColumnsHold, TypeOK
    <3> QED
      BY <3>1, <3>2
  <2>6. ColumnsHold'
    BY <2>2, <2>5 DEF ColumnsHold, Gone, HasColumn
  <2> QED
    BY <2>2, <2>3, <2>4, <2>6 DEF TypeOK
<1>3. ASSUME NEW e \in Entities, PromoteCapture(e)
      PROVE  Agreed
  <2> DEFINE t == column[e]["task"]
  <2>1. t \in Objects /\ thing[t].kind = "task" /\ ref[t] = e
    BY <1>3 DEF PromoteCapture, ColumnsHold, Gone, TypeOK, Kinds
  <2>2. /\ e \notin promoted
        /\ ref' = [x \in Objects |->
                     IF x = t THEN Elsewhere
                     ELSE IF ref[x] = e /\ thing[x].kind = "task" THEN None
                     ELSE ref[x]]
        /\ promoted' = promoted \cup {e}
        /\ UNCHANGED <<column, thing, passVars>>
    BY <1>3 DEF PromoteCapture
  <2>3. HoldersStay
    BY <2>1, <2>2 DEF HoldersStay
  <2> HIDE DEF t
  <2>4. ASSUME NEW f \in Entities, NEW j \in Kinds, column'[f][j] # None
        PROVE  /\ HasColumn(f, j)
               /\ thing[column'[f][j]].kind = j
               /\ (f \in promoted' /\ j = "task") \/ ref'[column'[f][j]] = f
    BY <2>2, <2>3, <2>4 DEF ColumnsHold, HoldersStay, Gone, TypeOK
  <2>5. ColumnsHold'
    BY <2>2, <2>4 DEF ColumnsHold, Gone, HasColumn
  <2> QED
    BY <2>2, <2>3, <2>5 DEF TypeOK
<1>4. ASSUME NEW x \in Objects, BindElsewhere(x) \/ UnbindElsewhere(x)
      PROVE  Agreed
  <2>1. /\ ref[x] \in {None, Elsewhere}
        /\ ref' \in {[ref EXCEPT ![x] = None], [ref EXCEPT ![x] = Elsewhere]}
        /\ UNCHANGED <<column, promoted, thing, passVars>>
    BY <1>4 DEF BindElsewhere, UnbindElsewhere
  <2>2. HoldersStay
    BY <2>1 DEF HoldersStay, TypeOK
  <2>3. ColumnsHold'
    BY <2>1, <2>2 DEF ColumnsHold, HoldersStay, Gone, HasColumn, TypeOK
  <2> QED
    BY <2>1, <2>2, <2>3 DEF TypeOK
<1>5. ASSUME \/ \E e \in Entities :
                   \/ \E t \in Titles : RequestPage(e, t)
                   \/ \E t \in Titles \cup {None} : CreateCapture(e, t)
                   \/ \E q \in Intents \cup {None}, S \in SUBSET IntentsFor(e, "section"),
                         t \in Titles \cup {None} : RequestStructure(e, q, S, t)
             \/ \E i \in Intents : RetryIntent(i)
      PROVE  UNCHANGED <<column, ref, promoted, thing, passVars>>
  BY <1>5 DEF RequestPage, CreateCapture, RequestStructure, RetryIntent
<1> HIDE DEF Agreed
<1>6. Agreed
  BY <1>1, <1>2, <1>3, <1>4, <1>5 DEF Api
<1> QED
  BY <1>6 DEF Agreed

\* While holders and things stay, what was held goes on being held.
LEMMA HoldingStays ==
  ASSUME LedgerInv, HoldersStay, ThingsStay,
         promoted \subseteq promoted',
         \A i \in Intents : row'[i].state = "satisfied" => row'[i] = row[i],
         \A e \in Entities : refs'[e] \in {None, refs[e]},
         \A x \in Objects : thing'[x].kind = "section" /\ thing'[x].by # None
                               => thing[x].kind = "section" /\ thing[x].by # None
  PROVE  DoneHold' /\ ReadProjectsHold' /\ SectionInOwnProject'
<1> USE DEF LedgerInv, Strong
<1>1. ASSUME NEW x \in Objects, NEW e \in Entities, NEW k \in Kinds,
             thing[x].kind = k, ref[x] = e, ~(e \in promoted' /\ k = "task")
      PROVE  thing'[x].kind = k /\ ref'[x] = e
  BY <1>1 DEF HoldersStay, ThingsStay, Kinds
<1>2. ASSUME NEW i \in Intents, row'[i].state = "satisfied"
      PROVE  /\ thing'[row'[i].ext].kind = KindOf[i]
             /\ (EntityOf[i] \in promoted' /\ KindOf[i] = "task")
                   \/ ref'[row'[i].ext] = EntityOf[i]
  <2> DEFINE x == row[i].ext
  <2>1. row'[i].ext = x /\ x \in Objects /\ thing[x].kind = KindOf[i]
    BY <1>2 DEF TypeOK, Row, DoneHold
  <2>2. Gone(EntityOf[i], KindOf[i]) \/ ref[x] = EntityOf[i]
    BY <1>2 DEF DoneHold
  <2>3. thing'[x].kind = KindOf[i]
    BY <2>1 DEF ThingsStay, Kinds
  <2> QED
    BY <1>1, <2>1, <2>2, <2>3 DEF Gone
<1>3. DoneHold'
  BY <1>2 DEF DoneHold, Gone
<1>4. ReadProjectsHold'
  <2> SUFFICES ASSUME NEW e \in Entities, refs'[e] # None
               PROVE  thing'[refs'[e]].kind = "project" /\ ref'[refs'[e]] = e
    BY DEF ReadProjectsHold
  <2>1. refs'[e] = refs[e] /\ refs[e] \in Objects
    BY DEF TypeOK
  <2> QED
    BY <1>1, <2>1 DEF ReadProjectsHold, Kinds
<1>5. SectionInOwnProject'
  <2> SUFFICES ASSUME NEW x \in Objects, thing'[x].kind = "section", thing'[x].by # None
               PROVE  /\ thing'[x].within \in Objects
                      /\ thing'[thing'[x].within].kind = "project"
                      /\ ref'[thing'[x].within] = EntityOf[thing'[x].by]
    BY DEF SectionInOwnProject
  <2>1. thing[x].kind = "section" /\ thing[x].by # None
    OBVIOUS
  <2>2. thing'[x].by = thing[x].by /\ thing'[x].within = thing[x].within
    BY <2>1 DEF ThingsStay
  <2>3. thing[x].by \in Intents
    BY <2>1 DEF TypeOK, Thing
  <2>4. EntityOf[thing[x].by] \in Entities
    BY <2>3
  <2> QED
    BY <1>1, <2>1, <2>2, <2>4 DEF SectionInOwnProject, Kinds
<1> QED
  BY <1>3, <1>4, <1>5

\* Handlers preserve LedgerInv.
LEMMA ApiStep ==
  ASSUME LedgerInv, Api
  PROVE  LedgerInv'
<1> USE DEF LedgerInv, Strong
<1>1. row' \in [Intents -> Row] /\ \A i \in Intents : Kept(i)
  BY ApiRows
<1>2. /\ ref' \in [Objects -> Entities \cup {None, Elsewhere}]
      /\ column' \in [Entities -> [Kinds -> Objects \cup {None}]]
      /\ promoted' \subseteq Entities
      /\ promoted \subseteq promoted'
      /\ HoldersStay
      /\ ColumnsHold'
      /\ UNCHANGED <<thing, passVars>>
  BY ApiRefs
<1>3. TypeOK'
  BY <1>1, <1>2 DEF TypeOK, Kept, passVars
<1>4. ReadIsTrue'
  BY <1>1, <1>2 DEF ReadIsTrue, Kept, passVars
<1>5. PrerequisitesAreOwn'
  BY <1>1, <1>2 DEF PrerequisitesAreOwn, RightRequires, Kept, passVars
<1>6. AttemptIsOurs' /\ OneEach'
  BY <1>2 DEF AttemptIsOurs, OneEach, Outstanding, passVars
<1>7. ThingsStay
  BY <1>2 DEF ThingsStay
<1>8. DoneHold' /\ ReadProjectsHold' /\ SectionInOwnProject'
  <2>1. \A i \in Intents : row'[i].state = "satisfied" => row'[i] = row[i]
    BY <1>1 DEF Kept
  <2>2. \A e \in Entities : refs'[e] \in {None, refs[e]}
    BY <1>2 DEF passVars
  <2> QED
    BY <1>2, <1>7, <2>1, <2>2, HoldingStays
<1> QED
  BY <1>2, <1>3, <1>4, <1>5, <1>6, <1>8

\* So do people.
LEMMA PeopleStep ==
  ASSUME LedgerInv, People
  PROVE  LedgerInv'
<1> USE DEF LedgerInv, Strong
<1>1. /\ thing' \in [Objects -> Thing]
      /\ ThingsStay
      /\ \A x \in Objects : thing'[x].by = thing[x].by
      /\ \A x \in Objects : thing'[x].by # None => thing'[x].kind = thing[x].kind
  BY PeopleThings
<1>2. UNCHANGED <<dbVars, passVars>>
  BY DEF People, MakeByHand, Rename, Trash
<1>3. TypeOK'
  BY <1>1, <1>2 DEF TypeOK, dbVars, passVars
<1>4. ReadIsTrue' /\ PrerequisitesAreOwn'
  BY <1>2 DEF ReadIsTrue, PrerequisitesAreOwn, RightRequires, Outstanding, dbVars, passVars
<1>5. AttemptIsOurs'
  <2>1. cur.made # None => /\ cur.made \in Objects
                           /\ cur.who \in Intents
                           /\ KindOf[cur.who] # "none"
    BY DEF AttemptIsOurs, TypeOK, Kinds
  <2> QED
    BY <1>1, <1>2, <2>1 DEF AttemptIsOurs, ThingsStay, Outstanding, passVars
<1>6. OneEach'
  BY <1>1 DEF OneEach
<1>7. HoldersStay
  BY <1>2 DEF HoldersStay, dbVars
<1>8. ColumnsHold'
  <2>1. ASSUME NEW e \in Entities, NEW k \in Kinds, column[e][k] # None
        PROVE  /\ HasColumn(e, k)
               /\ thing'[column[e][k]].kind = k
               /\ Gone(e, k) \/ ref[column[e][k]] = e
    <3>1. column[e][k] \in Objects /\ k # "none"
      BY <2>1 DEF TypeOK, Kinds
    <3> QED
      BY <1>1, <2>1, <3>1 DEF ColumnsHold, ThingsStay
  <2> QED
    BY <1>2, <2>1 DEF ColumnsHold, Gone, HasColumn, dbVars
<1>9. DoneHold' /\ ReadProjectsHold' /\ SectionInOwnProject'
  <2>1. \A i \in Intents : row'[i].state = "satisfied" => row'[i] = row[i]
    BY <1>2 DEF dbVars
  <2>2. \A e \in Entities : refs'[e] \in {None, refs[e]}
    BY <1>2 DEF passVars
  <2>3. promoted \subseteq promoted'
    BY <1>2 DEF dbVars
  <2> QED
    BY <1>1, <1>7, <2>1, <2>2, <2>3, HoldingStays
<1> QED
  BY <1>3, <1>4, <1>5, <1>6, <1>8, <1>9

-----------------------------------------------------------------------------
(* LedgerInv: the steps of converge. *)

\* The outstanding rows are as they were read a moment ago.
LEMMA LoadOutstandingStep ==
  ASSUME LedgerInv, LoadOutstanding
  PROVE  LedgerInv'
<1> USE DEF LedgerInv, Strong, LoadOutstanding
<1>1. /\ \A i \in Intents : led'[i] \in {row[i], NoRow}
      /\ DOMAIN led' = Intents
      /\ UNCHANGED <<dbVars, thing, refs, stores, attempted, cur>>
      /\ phase' = "loaded"
  OBVIOUS
<1>2. NoRow \in Row /\ NoRow.state = "absent" /\ NoRow.requires = None
  BY DEF NoRow, Row, States
<1>3. led' \in [Intents -> Row]
  BY <1>2 DEF TypeOK
<1>4. TypeOK'
  BY <1>1, <1>3 DEF TypeOK, dbVars
<1>5. ReadIsTrue'
  BY <1>1, <1>2 DEF ReadIsTrue, Outstanding, dbVars
<1>6. PrerequisitesAreOwn'
  BY <1>1, <1>2 DEF PrerequisitesAreOwn, RightRequires, dbVars
<1>7. AttemptIsOurs'
  <2>1. ASSUME cur.who # None
        PROVE  Outstanding(led'[cur.who])
    <3>1. cur.who \in Intents
      BY <2>1 DEF TypeOK
    <3>2. Outstanding(row[cur.who])
      BY <2>1, <3>1 DEF AttemptIsOurs, ReadIsTrue
    <3> QED
      BY <3>1, <3>2
  <2> QED
    BY <1>1, <2>1 DEF AttemptIsOurs, Outstanding
<1>8. OneEach' /\ ColumnsHold' /\ DoneHold' /\ ReadProjectsHold' /\ SectionInOwnProject'
  BY <1>1 DEF OneEach, ColumnsHold, DoneHold, ReadProjectsHold, SectionInOwnProject,
              Gone, HasColumn, dbVars
<1> QED
  BY <1>4, <1>5, <1>6, <1>7, <1>8

\* A project that was read is its entity's.
LEMMA LoadRefsStep ==
  ASSUME LedgerInv, NEW S \in SUBSET EntityKinds, LoadEntityRefs(S)
  PROVE  LedgerInv'
<1> USE DEF LedgerInv, Strong
<1>1. /\ \A e \in Entities : refs'[e] \in {column[e]["project"], None}
      /\ stores' = S
      /\ phase' = "converging"
      /\ UNCHANGED <<dbVars, thing, led, attempted, cur>>
  BY DEF LoadEntityRefs
<1>2. refs' \in [Entities -> Objects \cup {None}]
  BY DEF LoadEntityRefs, TypeOK, Kinds
<1>3. TypeOK'
  BY <1>1, <1>2 DEF TypeOK, dbVars
<1>4. ReadProjectsHold'
  BY <1>1 DEF ReadProjectsHold, ColumnsHold, Gone, Kinds, dbVars
<1>5. ReadIsTrue' /\ PrerequisitesAreOwn' /\ AttemptIsOurs'
  BY <1>1 DEF ReadIsTrue, PrerequisitesAreOwn, AttemptIsOurs, RightRequires, Outstanding, dbVars
<1>6. OneEach' /\ ColumnsHold' /\ DoneHold' /\ SectionInOwnProject'
  BY <1>1 DEF OneEach, ColumnsHold, DoneHold, SectionInOwnProject,
              Gone, HasColumn, dbVars
<1> QED
  BY <1>3, <1>4, <1>5, <1>6

\* A section that can run has a project, and it is its entity's.
LEMMA ParentIsOwn ==
  ASSUME LedgerInv, NEW i \in Intents, KindOf[i] = "section", Runnable(i)
  PROVE  /\ Parent(i) \in Objects
         /\ thing[Parent(i)].kind = "project"
         /\ ref[Parent(i)] = EntityOf[i]
<1> USE DEF LedgerInv, Strong
<1>1. Parent(i) # None
  BY DEF Runnable
<1>2. CASE led[i].requires # None
  <2> DEFINE r == led[i].requires
  <2>1. r \in Intents /\ KindOf[r] = "project" /\ EntityOf[r] = EntityOf[i]
    BY <1>2 DEF TypeOK, Row, PrerequisitesAreOwn, RightRequires
  <2>2. row[r].state = "satisfied" /\ row[r].ext = led[r].ext
    BY <1>2, <2>1 DEF Runnable, ReadIsTrue
  <2>3. Parent(i) = row[r].ext
    BY <1>2, <2>2 DEF Parent
  <2>4. ~Gone(EntityOf[r], KindOf[r])
    BY <2>1 DEF Gone
  <2>5. row[r].ext \in Objects \cup {None}
    BY <2>1 DEF TypeOK, Row
  <2> HIDE DEF r
  <2> QED
    BY <1>1, <2>1, <2>2, <2>3, <2>4, <2>5 DEF DoneHold
<1>3. CASE led[i].requires = None
  BY <1>1, <1>3 DEF Parent, ReadProjectsHold, TypeOK
<1> QED
  BY <1>2, <1>3

\* An attempt makes at most its own object; what it has in hand is that.
LEMMA TryStep ==
  ASSUME LedgerInv, NEW i \in Intents, NEW made \in Objects \cup {None},
         Runnable(i), OnlyMakes(i), thing' \in [Objects -> Thing], OneEach',
         made # None => /\ thing'[made].kind = KindOf[i]
                        /\ i \in Keyed => thing'[made].by = i,
         Attempt(i, made)
  PROVE  LedgerInv'
<1> USE DEF LedgerInv, Strong
<1>1. /\ UNCHANGED <<dbVars, phase, led, refs, stores>>
      /\ attempted' = attempted \cup {i}
      /\ cur' = [who |-> i, made |-> made]
  BY DEF Attempt
<1>2. TypeOK'
  BY <1>1 DEF TypeOK, dbVars
<1>3. ReadIsTrue' /\ PrerequisitesAreOwn'
  BY <1>1 DEF ReadIsTrue, PrerequisitesAreOwn, RightRequires, Outstanding, dbVars
<1>4. AttemptIsOurs'
  BY <1>1 DEF AttemptIsOurs, Runnable, Outstanding
<1>5. ThingsStay /\ HoldersStay
  BY <1>1 DEF ThingsStay, OnlyMakes, Nothing, HoldersStay, dbVars
<1>6. ColumnsHold'
  <2>1. ASSUME NEW e \in Entities, NEW k \in Kinds, column[e][k] # None
        PROVE  /\ HasColumn(e, k)
               /\ thing'[column[e][k]].kind = k
               /\ Gone(e, k) \/ ref[column[e][k]] = e
    <3>1. column[e][k] \in Objects /\ k # "none"
      BY <2>1 DEF TypeOK, Kinds
    <3> QED
      BY <1>5, <2>1, <3>1 DEF ColumnsHold, ThingsStay
  <2> QED
    BY <1>1, <2>1 DEF ColumnsHold, Gone, HasColumn, dbVars
<1>7. DoneHold' /\ ReadProjectsHold'
  <2>1. ASSUME NEW j \in Intents, row[j].state = "satisfied"
        PROVE  /\ thing'[row[j].ext].kind = KindOf[j]
               /\ Gone(EntityOf[j], KindOf[j]) \/ ref[row[j].ext] = EntityOf[j]
    <3>1. row[j].ext \in Objects /\ KindOf[j] # "none"
      BY <2>1 DEF TypeOK, Row, Kinds
    <3> QED
      BY <1>5, <2>1, <3>1 DEF DoneHold, ThingsStay
  <2>2. ASSUME NEW e \in Entities, refs[e] # None
        PROVE  thing'[refs[e]].kind = "project" /\ ref[refs[e]] = e
    <3>1. refs[e] \in Objects
      BY <2>2 DEF TypeOK
    <3> QED
      BY <1>5, <2>2, <3>1 DEF ReadProjectsHold, ThingsStay
  <2> QED
    BY <1>1, <2>1, <2>2 DEF DoneHold, ReadProjectsHold, Gone, dbVars
<1>8. SectionInOwnProject'
  <2> SUFFICES ASSUME NEW x \in Objects, thing'[x].kind = "section", thing'[x].by # None
               PROVE  /\ thing'[x].within \in Objects
                      /\ thing'[thing'[x].within].kind = "project"
                      /\ ref[thing'[x].within] = EntityOf[thing'[x].by]
    BY <1>1 DEF SectionInOwnProject, dbVars
  <2>1. CASE thing'[x] = thing[x]
    BY <1>5, <2>1 DEF SectionInOwnProject, ThingsStay
  <2>2. CASE thing'[x] # thing[x]
    <3>1. thing'[x] = Made(i)
      BY <2>2 DEF OnlyMakes
    <3>2. KindOf[i] = "section" /\ thing'[x].by = i /\ thing'[x].within = Parent(i)
      BY <3>1, MadeIsThing
    <3> QED
      BY <1>5, <3>2, ParentIsOwn DEF ThingsStay
  <2> QED
    BY <2>1, <2>2
<1> QED
  BY <1>2, <1>3, <1>4, <1>6, <1>7, <1>8

\* An object for an intent that has none leaves each intent with one at most.
LEMMA OneEachStays ==
  ASSUME TypeOK, OneEach, NEW i \in Intents, OnlyMakes(i),
         i \in Keyed /\ thing' # thing =>
            /\ \A y \in Objects : thing[y].by # i
            /\ \E x \in Objects : \A y \in Objects \ {x} : thing'[y] = thing[y]
  PROVE  OneEach'
<1>1. ASSUME NEW x \in Objects, thing'[x].by # None
      PROVE  thing'[x].kind = KindOf[thing'[x].by]
  BY <1>1, MadeIsThing DEF OneEach, OnlyMakes
<1>2. ASSUME NEW x \in Objects, NEW y \in Objects,
             thing'[x].by \in Keyed, thing'[y].by = thing'[x].by
      PROVE  x = y
  <2>1. CASE thing'[x] = thing[x] /\ thing'[y] = thing[y]
    BY <1>2, <2>1 DEF OneEach
  <2>2. CASE thing'[x] # thing[x] \/ thing'[y] # thing[y]
    <3>1. thing'[x].by = i /\ thing'[y].by = i /\ i \in Keyed
      BY <1>2, <2>2, MadeIsThing DEF OnlyMakes
    <3>2. \A z \in Objects : thing[z].by # i
      BY <2>2, <3>1
    <3>3. thing'[x] # thing[x] /\ thing'[y] # thing[y]
      BY <3>1, <3>2
    <3> QED
      BY <2>2, <3>1, <3>3
  <2> QED
    BY <2>1, <2>2
<1> QED
  BY <1>1, <1>2 DEF OneEach

\* Every way an attempt can go preserves LedgerInv.
LEMMA AttemptStep ==
  ASSUME LedgerInv, NEW i \in Intents,
         \/ NoRoom(i)
         \/ Refuse(i)
         \/ \E x \in Objects : Perform(i, x) \/ AnswerLost(i, x) \/ SentTwice(i, x)
  PROVE  LedgerInv'
<1>1. TypeOK /\ OneEach
  BY DEF LedgerInv, Strong
<1>2. CASE NoRoom(i) \/ Refuse(i)
  <2>1. Runnable(i) /\ UNCHANGED thing /\ Attempt(i, None)
    BY <1>2 DEF NoRoom, Refuse, IsNext
  <2>2. OnlyMakes(i) /\ thing' \in [Objects -> Thing] /\ OneEach'
    BY <1>1, <2>1 DEF OnlyMakes, TypeOK, OneEach
  <2> QED
    BY <2>1, <2>2, TryStep
<1>3. ASSUME NEW x \in Objects, Perform(i, x) \/ AnswerLost(i, x)
      PROVE  LedgerInv'
  <2>1. Runnable(i) /\ Ensure(i, x) /\ (Attempt(i, x) \/ Attempt(i, None))
    BY <1>3 DEF Perform, AnswerLost, IsNext
  <2>2. /\ OnlyMakes(i)
        /\ thing' \in [Objects -> Thing]
        /\ thing'[x].kind = KindOf[i]
        /\ i \in Keyed => thing'[x].by = i
        /\ i \in Keyed /\ thing' # thing => \A y \in Objects : thing[y].by # i
        /\ \A y \in Objects \ {x} : thing'[y] = thing[y]
    BY <1>1, <2>1, EnsureHas
  <2>3. OneEach'
    BY <1>1, <2>2, OneEachStays
  <2> QED
    BY <2>1, <2>2, <2>3, TryStep
<1>4. ASSUME NEW x \in Objects, SentTwice(i, x)
      PROVE  LedgerInv'
  <2>1. Runnable(i) /\ Attempt(i, x)
    BY <1>4 DEF SentTwice, IsNext
  <2>2. /\ OnlyMakes(i)
        /\ thing' \in [Objects -> Thing]
        /\ thing'[x].kind = KindOf[i]
        /\ i \notin Keyed
    BY <1>1, <1>4, SentTwiceMakes
  <2>3. OneEach'
    BY <1>1, <2>2, OneEachStays
  <2> QED
    BY <2>1, <2>2, <2>3, TryStep
<1> QED
  BY <1>2, <1>3, <1>4

\* What is recorded was outstanding, and is of the right kind.
LEMMA InHand ==
  ASSUME LedgerInv, cur.who # None
  PROVE  /\ cur.who \in Intents
         /\ cur.made \in Objects \cup {None}
         /\ Outstanding(led[cur.who]) /\ Outstanding(row[cur.who])
         /\ row[cur.who].ext = None
         /\ cur.made # None => /\ thing[cur.made].kind = KindOf[cur.who]
                               /\ cur.who \in Keyed => thing[cur.made].by = cur.who
<1> USE DEF LedgerInv, Strong
<1>1. cur.who \in Intents /\ cur.made \in Objects \cup {None}
  BY DEF TypeOK
<1>2. Outstanding(led[cur.who]) /\ Outstanding(row[cur.who])
  BY <1>1 DEF AttemptIsOurs, ReadIsTrue
<1>3. row[cur.who].ext = None
  BY <1>1, <1>2 DEF TypeOK, Outstanding
<1> QED
  BY <1>1, <1>2, <1>3 DEF AttemptIsOurs

\* The record binds what nobody else holds.
LEMMA RecordSatisfiedStep ==
  ASSUME LedgerInv, RecordSatisfied
  PROVE  LedgerInv'
<1> USE DEF LedgerInv, Strong
<1> DEFINE i == cur.who
           x == cur.made
           e == EntityOf[i]
           k == KindOf[i]
<1>1. x # None /\ i # None
  BY DEF RecordSatisfied, AttemptIsOurs
<1>2. /\ i \in Intents /\ x \in Objects /\ e \in Entities /\ k \in Kinds
      /\ Outstanding(led[i]) /\ Outstanding(row[i])
      /\ thing[x].kind = k
  BY <1>1, InHand
<1>3. /\ ref[x] \in {None, e}
      /\ row' = [row EXCEPT ![i] = Recorded(row[i], x)]
      /\ ref' = [ref EXCEPT ![x] = e]
      /\ column' = IF HasColumn(e, k)
                   THEN [column EXCEPT ![e] = [column[e] EXCEPT ![k] = x]] ELSE column
      /\ led' = [led EXCEPT ![i] = Recorded(led[i], x)]
      /\ cur' = NoAttempt
      /\ UNCHANGED <<promoted, thing, phase, refs, stores, attempted>>
  BY DEF RecordSatisfied, Claimed
<1>4. ASSUME NEW r \in Row
      PROVE  /\ Recorded(r, x) \in Row
             /\ Recorded(r, x).state = "satisfied"
             /\ Recorded(r, x).ext = x
             /\ Recorded(r, x).requires = r.requires
  BY <1>2 DEF Recorded, Row, States
<1>5. row[i] \in Row /\ led[i] \in Row
  BY <1>2 DEF TypeOK
<1> HIDE DEF i, x, e, k
<1>6. ASSUME NEW j \in Intents
      PROVE  /\ row'[j] \in Row /\ led'[j] \in Row
             /\ j # i => row'[j] = row[j] /\ led'[j] = led[j]
             /\ row'[j].requires = row[j].requires /\ led'[j].requires = led[j].requires
             /\ j = i => /\ row'[j].state = "satisfied" /\ led'[j].state = "satisfied"
                         /\ row'[j].ext = x /\ led'[j].ext = x
  BY <1>2, <1>3, <1>4, <1>5 DEF TypeOK
<1>7. HoldersStay
  BY <1>2, <1>3 DEF HoldersStay, TypeOK
<1>8. ref'[x] = e
  BY <1>2, <1>3 DEF TypeOK
<1>9. column' \in [Entities -> [Kinds -> Objects \cup {None}]]
  BY <1>2, <1>3 DEF TypeOK
<1>10. TypeOK'
  <2>1. row' \in [Intents -> Row] /\ led' \in [Intents -> Row]
    BY <1>2, <1>3, <1>6 DEF TypeOK
  <2>2. \A j \in Intents : row'[j].state = "satisfied" <=> row'[j].ext # None
    BY <1>2, <1>6 DEF TypeOK
  <2>3. ref' \in [Objects -> Entities \cup {None, Elsewhere}]
    BY <1>2, <1>3 DEF TypeOK
  <2>4. cur' \in [who : Intents \cup {None}, made : Objects \cup {None}]
    BY <1>3 DEF NoAttempt
  <2> QED
    BY <1>3, <1>9, <2>1, <2>2, <2>3, <2>4 DEF TypeOK
<1>11. ReadIsTrue'
  <2> SUFFICES ASSUME NEW j \in Intents
               PROVE  /\ Outstanding(led'[j]) => Outstanding(row'[j])
                      /\ led'[j].state = "satisfied" =>
                            row'[j].state = "satisfied" /\ row'[j].ext = led'[j].ext
    BY DEF ReadIsTrue, Outstanding
  <2> QED
    BY <1>6 DEF ReadIsTrue, Outstanding
<1>12. PrerequisitesAreOwn'
  BY <1>6 DEF PrerequisitesAreOwn, RightRequires
<1>13. AttemptIsOurs' /\ OneEach'
  BY <1>3 DEF AttemptIsOurs, OneEach, NoAttempt
<1>14. ColumnsHold'
  <2> SUFFICES ASSUME NEW f \in Entities, NEW j \in Kinds, column'[f][j] # None
               PROVE  /\ HasColumn(f, j)
                      /\ thing[column'[f][j]].kind = j
                      /\ Gone(f, j) \/ ref'[column'[f][j]] = f
    BY <1>3 DEF ColumnsHold, HasColumn, Gone
  <2>1. CASE f = e /\ j = k /\ HasColumn(e, k)
    <3>1. column'[f][j] = x
      BY <1>2, <1>3, <2>1 DEF TypeOK
    <3> QED
      BY <1>2, <1>8, <2>1, <3>1
  <2>2. CASE ~(f = e /\ j = k /\ HasColumn(e, k))
    <3>1. column'[f][j] = column[f][j]
      BY <1>2, <1>3, <2>2 DEF TypeOK
    <3>2. column[f][j] \in Objects
      BY <3>1 DEF TypeOK
    <3> QED
      BY <1>3, <1>7, <3>1, <3>2 DEF ColumnsHold, HoldersStay, Gone
  <2> QED
    BY <2>1, <2>2
<1>15. DoneHold'
  <2> SUFFICES ASSUME NEW j \in Intents, row'[j].state = "satisfied"
               PROVE  /\ thing[row'[j].ext].kind = KindOf[j]
                      /\ Gone(EntityOf[j], KindOf[j]) \/ ref'[row'[j].ext] = EntityOf[j]
    BY <1>3 DEF DoneHold, Gone
  <2>1. CASE j = i
    BY <1>2, <1>6, <1>8, <2>1 DEF e, k
  <2>2. CASE j # i
    <3>1. row'[j] = row[j] /\ row[j].ext \in Objects
      BY <1>6, <2>2 DEF TypeOK, Row
    <3> QED
      BY <1>3, <1>7, <3>1 DEF DoneHold, HoldersStay, Gone
  <2> QED
    BY <2>1, <2>2
<1>16. ReadProjectsHold' /\ SectionInOwnProject'
  <2>1. ASSUME NEW f \in Entities, refs[f] # None
        PROVE  thing[refs[f]].kind = "project" /\ ref'[refs[f]] = f
    BY <1>7, <2>1 DEF ReadProjectsHold, HoldersStay, TypeOK
  <2>2. ASSUME NEW y \in Objects, thing[y].kind = "section", thing[y].by # None
        PROVE  /\ thing[y].within \in Objects
               /\ thing[thing[y].within].kind = "project"
               /\ ref'[thing[y].within] = EntityOf[thing[y].by]
    <3>1. EntityOf[thing[y].by] \in Entities
      BY <2>2 DEF TypeOK, Thing
    <3> QED
      BY <1>7, <2>2, <3>1 DEF SectionInOwnProject, HoldersStay
  <2> QED
    BY <1>3, <2>1, <2>2 DEF ReadProjectsHold, SectionInOwnProject
<1> QED
  BY <1>10, <1>11, <1>12, <1>13, <1>14, <1>15, <1>16

\* A failure reopens nothing.
LEMMA RecordFailedStep ==
  ASSUME LedgerInv, RecordFailed
  PROVE  LedgerInv'
<1> USE DEF LedgerInv, Strong
<1> DEFINE i == cur.who
           fail(r) == [r EXCEPT !.state = "failed"]
<1>1. /\ i \in Intents
      /\ Outstanding(led[i]) /\ Outstanding(row[i])
      /\ row[i].ext = None
  BY InHand DEF RecordFailed
<1>2. /\ row' = [row EXCEPT ![i] = fail(row[i])]
      /\ led' = [led EXCEPT ![i] = fail(led[i])]
      /\ cur' = NoAttempt
      /\ UNCHANGED <<column, ref, promoted, thing, phase, refs, stores, attempted>>
  BY DEF RecordFailed
<1>3. ASSUME NEW r \in Row
      PROVE  /\ fail(r) \in Row
             /\ fail(r).state = "failed"
             /\ fail(r).ext = r.ext
             /\ fail(r).requires = r.requires
  BY DEF Row, States
<1>4. row[i] \in Row /\ led[i] \in Row
  BY <1>1 DEF TypeOK
<1> HIDE DEF i, fail
<1>5. ASSUME NEW j \in Intents
      PROVE  /\ row'[j] \in Row /\ led'[j] \in Row
             /\ j # i => row'[j] = row[j] /\ led'[j] = led[j]
             /\ row'[j].requires = row[j].requires /\ led'[j].requires = led[j].requires
             /\ j = i => /\ row'[j].state = "failed" /\ led'[j].state = "failed"
                         /\ row'[j].ext = None
  BY <1>1, <1>2, <1>3, <1>4 DEF TypeOK
<1>6. TypeOK'
  <2>1. row' \in [Intents -> Row] /\ led' \in [Intents -> Row]
    BY <1>1, <1>2, <1>5 DEF TypeOK
  <2>2. \A j \in Intents : row'[j].state = "satisfied" <=> row'[j].ext # None
    BY <1>5 DEF TypeOK
  <2>3. cur' \in [who : Intents \cup {None}, made : Objects \cup {None}]
    BY <1>2 DEF NoAttempt
  <2> QED
    BY <1>2, <2>1, <2>2, <2>3 DEF TypeOK
<1>7. ReadIsTrue'
  <2> SUFFICES ASSUME NEW j \in Intents
               PROVE  /\ Outstanding(led'[j]) => Outstanding(row'[j])
                      /\ led'[j].state = "satisfied" =>
                            row'[j].state = "satisfied" /\ row'[j].ext = led'[j].ext
    BY DEF ReadIsTrue, Outstanding
  <2> QED
    BY <1>5 DEF ReadIsTrue, Outstanding
<1>8. PrerequisitesAreOwn'
  BY <1>5 DEF PrerequisitesAreOwn, RightRequires
<1>9. AttemptIsOurs' /\ OneEach' /\ ColumnsHold' /\ ReadProjectsHold' /\ SectionInOwnProject'
  BY <1>2 DEF AttemptIsOurs, OneEach, ColumnsHold, ReadProjectsHold, SectionInOwnProject,
              NoAttempt, Gone, HasColumn
<1>10. DoneHold'
  <2> SUFFICES ASSUME NEW j \in Intents, row'[j].state = "satisfied"
               PROVE  /\ thing[row'[j].ext].kind = KindOf[j]
                      /\ Gone(EntityOf[j], KindOf[j]) \/ ref[row'[j].ext] = EntityOf[j]
    BY <1>2 DEF DoneHold, Gone
  <2>1. row'[j] = row[j]
    BY <1>5
  <2> QED
    BY <2>1 DEF DoneHold
<1> QED
  BY <1>6, <1>7, <1>8, <1>9, <1>10

\* The end of a pass forgets what it read.
LEMMA EndPassStep ==
  ASSUME LedgerInv, EndPass
  PROVE  LedgerInv'
<1> USE DEF LedgerInv, Strong, EndPass
<1>1. NoRow \in Row /\ ~Outstanding(NoRow) /\ NoRow.state = "absent" /\ NoRow.requires = None
  BY DEF NoRow, Row, States, Outstanding
<1>2. TypeOK'
  BY <1>1 DEF TypeOK, NoAttempt, dbVars
<1>3. ReadIsTrue' /\ PrerequisitesAreOwn'
  BY <1>1 DEF ReadIsTrue, PrerequisitesAreOwn, RightRequires, Outstanding, dbVars
<1>4. AttemptIsOurs' /\ ReadProjectsHold'
  BY DEF AttemptIsOurs, ReadProjectsHold, NoAttempt
<1>5. OneEach' /\ ColumnsHold' /\ DoneHold' /\ SectionInOwnProject'
  BY DEF OneEach, ColumnsHold, DoneHold, SectionInOwnProject, Gone, HasColumn, dbVars
<1> QED
  BY <1>2, <1>3, <1>4, <1>5

-----------------------------------------------------------------------------
(* The invariant. *)

\* Nothing is asked for, made or read at first.
LEMMA InitHolds ==
  ASSUME Init
  PROVE  LedgerInv
<1> USE DEF Init
<1>1. NoRow \in Row /\ NoRow.state = "absent" /\ NoRow.requires = None /\ NoRow.ext = None
  BY DEF NoRow, Row, States
<1>2. Nothing \in Thing /\ Nothing.by = None
  BY DEF Nothing, Thing
<1>3. TypeOK
  BY <1>1, <1>2 DEF TypeOK, NoAttempt
<1>4. Strong
  BY <1>1, <1>2 DEF Strong, ReadIsTrue, PrerequisitesAreOwn, RightRequires, AttemptIsOurs,
                    OneEach, ColumnsHold, DoneHold, ReadProjectsHold, SectionInOwnProject,
                    Outstanding, NoAttempt, Keyed
<1> QED
  BY <1>3, <1>4 DEF LedgerInv

\* What a step of the pass or a fault is, attempts and ends taken together.
LEMMA PassSteps ==
  ASSUME Converge \/ Fault
  PROVE  \/ LoadOutstanding
         \/ \E S \in SUBSET EntityKinds : LoadEntityRefs(S)
         \/ \E i \in Intents :
               \/ NoRoom(i)
               \/ Refuse(i)
               \/ \E x \in Objects : Perform(i, x) \/ AnswerLost(i, x) \/ SentTwice(i, x)
         \/ RecordSatisfied
         \/ RecordFailed
         \/ EndPass
BY DEF Converge, Fault, RecordRefused, Finish, Crash

\* No step breaks it.
LEMMA NextStep ==
  ASSUME LedgerInv, [Next]_vars
  PROVE  LedgerInv'
<1>1. CASE Api
  BY <1>1, ApiStep
<1>2. CASE People
  BY <1>2, PeopleStep
<1>3. CASE Converge \/ Fault
  <2>1. ASSUME NEW i \in Intents,
               \/ NoRoom(i)
               \/ Refuse(i)
               \/ \E x \in Objects : Perform(i, x) \/ AnswerLost(i, x) \/ SentTwice(i, x)
        PROVE  LedgerInv'
    BY <2>1, AttemptStep
  <2>2. ASSUME NEW S \in SUBSET EntityKinds, LoadEntityRefs(S)
        PROVE  LedgerInv'
    BY <2>2, LoadRefsStep
  <2> QED
    BY <1>3, <2>1, <2>2, PassSteps, LoadOutstandingStep, RecordSatisfiedStep,
       RecordFailedStep, EndPassStep
<1>4. CASE UNCHANGED vars
  BY <1>4 DEF vars, LedgerInv, TypeOK, Strong, ReadIsTrue, PrerequisitesAreOwn,
              RightRequires, AttemptIsOurs, OneEach, ColumnsHold, DoneHold, ReadProjectsHold,
              SectionInOwnProject, Outstanding, Gone, HasColumn
<1> QED
  BY <1>1, <1>2, <1>3, <1>4 DEF Next

\* What a pass read of the rows stays true until it records what it did, through
\* every handler, every hand in the tools and every fault: LedgerInv is inductive.
THEOREM Inductive == Spec => []LedgerInv
<1>1. Init => LedgerInv
  BY InitHolds
<1>2. LedgerInv /\ [Next]_vars => LedgerInv'
  BY NextStep
<1> QED
  BY <1>1, <1>2, PTL DEF Spec

-----------------------------------------------------------------------------
(* What it gives. *)

\* The state keeps its shape; a row is satisfied just when it names an object.
THEOREM TypeCorrect == Spec => []TypeOK
<1>1. LedgerInv => TypeOK
  BY DEF LedgerInv
<1> QED
  BY <1>1, Inductive, PTL

\* Whatever an entity or a done intent refers to is held by that entity, a
\* promoted capture's task apart.
THEOREM ReferencesHold == Spec => []ReferencesAgree
<1>1. ASSUME LedgerInv
      PROVE  ReferencesAgree
  BY <1>1 DEF LedgerInv, Strong, ColumnsHold, DoneHold, Gone, ReferencesAgree
<1> QED
  BY <1>1, Inductive, PTL

\* No section is made without a project, nor in another entity's.
THEOREM SectionsStayHome == Spec => []SectionInOwnProject
<1>1. LedgerInv => SectionInOwnProject
  BY DEF LedgerInv, Strong
<1> QED
  BY <1>1, Inductive, PTL

\* A record changes the row of the attempt in hand, which is outstanding.
LEMMA RecordsOutstanding ==
  ASSUME LedgerInv, RecordSatisfied \/ RecordFailed,
         NEW j \in Intents, ~Outstanding(row[j])
  PROVE  row'[j] = row[j]
<1>1. cur.who # None
  BY DEF RecordSatisfied, RecordFailed, LedgerInv, Strong, AttemptIsOurs
<1>2. j # cur.who /\ cur.who \in Intents
  BY <1>1, InHand
<1>3. row \in [Intents -> Row]
  BY DEF LedgerInv, TypeOK
<1>4. CASE RecordSatisfied
  BY <1>2, <1>3, <1>4 DEF RecordSatisfied
<1>5. CASE RecordFailed
  <2> DEFINE failed == [row[cur.who] EXCEPT !.state = "failed"]
  <2>1. row' = [row EXCEPT ![cur.who] = failed]
    BY <1>5 DEF RecordFailed
  <2> HIDE DEF failed
  <2> QED
    BY <1>2, <1>3, <2>1
<1> QED
  BY <1>4, <1>5

\* A done intent is never reopened and never names another object: no request,
\* retry, failure or pass comes back to it.
THEOREM DoneStaysDone == Spec => SatisfiedIsFinal
<1>1. ASSUME LedgerInv, [Next]_vars, NEW i \in Intents, row[i].state = "satisfied"
      PROVE  row'[i] = row[i]
  <2>1. CASE Api
    BY <1>1, <2>1, ApiRows DEF LedgerInv, Kept
  <2>2. CASE RecordSatisfied \/ RecordFailed
    BY <1>1, <2>2, RecordsOutstanding DEF Outstanding
  <2>3. CASE People \/ UNCHANGED vars
    BY <2>3 DEF People, MakeByHand, Rename, Trash, dbVars, vars
  <2>4. CASE /\ Converge \/ Fault
             /\ ~(RecordSatisfied \/ RecordFailed)
    BY <2>4, PassSteps DEF LoadOutstanding, LoadEntityRefs, NoRoom, Refuse, Perform,
                           AnswerLost, SentTwice, Attempt, EndPass, dbVars
  <2> QED
    BY <1>1, <2>1, <2>2, <2>3, <2>4 DEF Next
<1>2. LedgerInv /\ [Next]_vars
        => [\A i \in Intents : row[i].state = "satisfied" => row'[i] = row[i]]_vars
  BY <1>1
<1> QED
  BY <1>2, Inductive, PTL DEF Spec, SatisfiedIsFinal

-----------------------------------------------------------------------------
(* ExactlyOnce. *)

\* What ExactlyOnce sees.
Asked == {i \in Keyed : row[i].state # "absent"}
MadeFor == [i \in Keyed |-> {x \in Objects : thing[x].by = i}]
Known == [i \in Keyed |-> row[i].ext]

\* Nothing is seen at first.
LEMMA OnceInit ==
  ASSUME Init
  PROVE  Once!Init
<1>1. ASSUME NEW i \in Keyed, NEW x \in Objects
      PROVE  thing[x].by # i
  BY DEF Init, Nothing, Keyed
<1>2. \A i \in Keyed : row[i].state = "absent" /\ row[i].ext = None
  BY DEF Init, NoRow, Keyed
<1>3. Asked = {} /\ MadeFor = [i \in Keyed |-> {}] /\ Known = [i \in Keyed |-> None]
  BY <1>1, <1>2 DEF Asked, MadeFor, Known
<1> QED
  BY <1>3 DEF Once!Init, Asked, MadeFor, Known

\* Handlers ask.
LEMMA ApiAsks ==
  ASSUME LedgerInv, Api
  PROVE  Once!Ask(Asked')
<1>1. \A i \in Intents : Kept(i)
  BY ApiRows DEF LedgerInv
<1>2. UNCHANGED thing
  BY ApiRefs DEF LedgerInv, Strong
<1>3. Asked' = Asked \cup Asked'
  BY <1>1 DEF Asked, Kept, Keyed
<1>4. MadeFor' = MadeFor /\ Known' = Known
  BY <1>1, <1>2 DEF MadeFor, Known, Kept, Keyed
<1> QED
  BY <1>3, <1>4 DEF Once!Ask, Asked, MadeFor, Known

\* An attempt makes its keyed intent's one object, or nothing that is seen.
LEMMA AttemptMakes ==
  ASSUME LedgerInv, NEW i \in Intents,
         \/ NoRoom(i)
         \/ Refuse(i)
         \/ \E x \in Objects : Perform(i, x) \/ AnswerLost(i, x) \/ SentTwice(i, x)
  PROVE  (\E x \in Objects : Once!Make(i, x) /\ i \in Keyed)
            \/ UNCHANGED <<Asked, MadeFor, Known>>
<1>1. TypeOK /\ OneEach /\ UNCHANGED row
  BY DEF LedgerInv, Strong, NoRoom, Refuse, Perform, AnswerLost, SentTwice, Attempt, dbVars
<1>2. Asked' = Asked /\ Known' = Known
  BY <1>1 DEF Asked, Known
<1>3. CASE UNCHANGED thing
  BY <1>2, <1>3 DEF MadeFor
<1>4. CASE i \notin Keyed /\ OnlyMakes(i)
  <2>1. ASSUME NEW j \in Keyed, NEW y \in Objects
        PROVE  thing'[y].by = j <=> thing[y].by = j
    <3>1. j \in Intents /\ j # i
      BY <1>4 DEF Keyed
    <3> QED
      BY <1>1, <1>4, <3>1, MadeIsThing DEF OnlyMakes, Nothing
  <2>2. MadeFor' = MadeFor
    BY <2>1 DEF MadeFor
  <2> QED
    BY <1>2, <2>2
<1>5. ASSUME NEW x \in Objects, Perform(i, x) \/ AnswerLost(i, x), thing' # thing,
             i \in Keyed
      PROVE  Once!Make(i, x)
  <2>1. /\ OnlyMakes(i)
        /\ thing' \in [Objects -> Thing]
        /\ thing'[x].by = i
        /\ \A y \in Objects : thing[y].by # i
        /\ \A y \in Objects \ {x} : thing'[y] = thing[y]
    BY <1>1, <1>5, EnsureHas DEF Perform, AnswerLost
  <2>2. thing[x] = Nothing
    BY <1>1, <2>1 DEF OnlyMakes, TypeOK
  <2>3. row[i].state # "absent"
    BY <1>5 DEF LedgerInv, Strong, ReadIsTrue, Perform, AnswerLost, IsNext, Runnable,
                Outstanding
  <2>4. i \in Asked
    BY <1>5, <2>3 DEF Asked
  <2>5. MadeFor[i] = {} /\ \A j \in Keyed : x \notin MadeFor[j]
    BY <1>5, <2>1, <2>2 DEF MadeFor, Nothing, Keyed
  <2>6. MadeFor' = [MadeFor EXCEPT ![i] = {x}]
    <3>1. ASSUME NEW j \in Keyed
          PROVE  {y \in Objects : thing'[y].by = j} =
                    IF j = i THEN {x} ELSE {y \in Objects : thing[y].by = j}
      <4>1. j \in Intents /\ thing[x].by # j
        BY <2>2 DEF Nothing, Keyed
      <4> QED
        BY <2>1, <4>1
    <3> QED
      BY <1>5, <3>1 DEF MadeFor
  <2> QED
    BY <1>2, <2>4, <2>5, <2>6 DEF Once!Make, Asked, MadeFor, Known
<1>6. ASSUME NEW x \in Objects, Perform(i, x) \/ AnswerLost(i, x)
      PROVE  OnlyMakes(i)
  BY <1>1, <1>6, EnsureHas DEF Perform, AnswerLost
<1>7. ASSUME NEW x \in Objects, SentTwice(i, x)
      PROVE  OnlyMakes(i) /\ i \notin Keyed
  BY <1>1, <1>7, SentTwiceMakes
<1>8. NoRoom(i) \/ Refuse(i) => UNCHANGED thing
  BY DEF NoRoom, Refuse
<1> QED
  BY <1>3, <1>4, <1>5, <1>6, <1>7, <1>8

\* A record names the one object that was made, or changes nothing that is seen.
LEMMA RecordsKnow ==
  ASSUME LedgerInv, RecordSatisfied \/ RecordFailed
  PROVE  \/ \E i \in Keyed, x \in Objects : Once!Know(i, x)
         \/ UNCHANGED <<Asked, MadeFor, Known>>
<1> DEFINE i == cur.who
           x == cur.made
<1>1. /\ i \in Intents
      /\ x \in Objects \cup {None}
      /\ row[i].state # "absent"
      /\ row[i].ext = None
      /\ x # None /\ i \in Keyed => thing[x].by = i
  <2>1. cur.who # None
    BY DEF RecordSatisfied, RecordFailed, LedgerInv, Strong, AttemptIsOurs
  <2> QED
    BY <2>1, InHand DEF Outstanding
<1>2. row \in [Intents -> Row] /\ UNCHANGED thing
  BY DEF LedgerInv, TypeOK, RecordSatisfied, RecordFailed
<1>3. PICK r \in Row : /\ row' = [row EXCEPT ![i] = r]
                      /\ r.state # "absent"
                      /\ r.ext = (IF RecordSatisfied THEN x ELSE None)
  <2>1. row[i] \in Row
    BY <1>1, <1>2
  <2>2. CASE RecordSatisfied
    <3>1. row' = [row EXCEPT ![i] = Recorded(row[i], x)] /\ x # None
      BY <2>2 DEF RecordSatisfied
    <3>2. /\ Recorded(row[i], x) \in Row
          /\ Recorded(row[i], x).state # "absent"
          /\ Recorded(row[i], x).ext = x
      BY <1>1, <2>1 DEF Recorded, Row, States
    <3> QED
      BY <2>2, <3>1, <3>2
  <2>3. CASE RecordFailed /\ ~RecordSatisfied
    <3> DEFINE failed == [row[i] EXCEPT !.state = "failed"]
    <3>1. row' = [row EXCEPT ![i] = failed]
      BY <2>3 DEF RecordFailed
    <3>2. failed \in Row /\ failed.state # "absent" /\ failed.ext = None
      BY <1>1, <2>1 DEF Row, States
    <3> HIDE DEF failed
    <3> QED
      BY <2>3, <3>1, <3>2
  <2> QED
    BY <2>2, <2>3
<1> HIDE DEF i, x
<1>4. MadeFor' = MadeFor
  BY <1>2 DEF MadeFor
<1>5. Asked' = Asked
  BY <1>1, <1>2, <1>3 DEF Asked, Keyed
<1>6. CASE i \in Keyed /\ RecordSatisfied
  <2>1. x \in Objects /\ thing[x].by = i
    BY <1>1, <1>6 DEF RecordSatisfied, x
  <2>2. MadeFor[i] = {x}
    BY <1>6, <2>1 DEF MadeFor, LedgerInv, Strong, OneEach
  <2>3. Known[i] = None
    BY <1>1, <1>6 DEF Known
  <2>4. Known' = [Known EXCEPT ![i] = x]
    BY <1>2, <1>3, <1>6 DEF Known, Keyed
  <2>5. Once!Know(i, x)
    BY <1>4, <1>5, <2>2, <2>3, <2>4 DEF Once!Know, Asked, MadeFor, Known
  <2> QED
    BY <1>6, <2>1, <2>5 DEF Once!Know
<1>7. CASE ~(i \in Keyed /\ RecordSatisfied)
  <2>1. Known' = Known
    BY <1>1, <1>2, <1>3, <1>7 DEF Known, Keyed
  <2> QED
    BY <1>4, <1>5, <2>1
<1> QED
  BY <1>6, <1>7

\* Each step asks, makes or names, or does none of it.
LEMMA OnceStep ==
  ASSUME LedgerInv, [Next]_vars
  PROVE  Once!Next \/ UNCHANGED <<Asked, MadeFor, Known>>
<1>1. CASE Api
  <2>1. Asked' \in SUBSET Keyed
    BY DEF Asked, Keyed
  <2> QED
    BY <1>1, <2>1, ApiAsks DEF Once!Next, Once!Ask
<1>2. ASSUME NEW i \in Intents,
             \/ NoRoom(i)
             \/ Refuse(i)
             \/ \E x \in Objects : Perform(i, x) \/ AnswerLost(i, x) \/ SentTwice(i, x)
      PROVE  Once!Next \/ UNCHANGED <<Asked, MadeFor, Known>>
  BY <1>2, AttemptMakes DEF Once!Next
<1>3. CASE RecordSatisfied \/ RecordFailed
  BY <1>3, RecordsKnow DEF Once!Next
<1>4. CASE People
  <2>1. UNCHANGED row
    BY <1>4 DEF People, MakeByHand, Rename, Trash, dbVars
  <2>2. \A x \in Objects : thing'[x].by = thing[x].by
    BY <1>4, PeopleThings DEF LedgerInv
  <2> QED
    BY <2>1, <2>2 DEF Asked, MadeFor, Known
<1>5. CASE \/ LoadOutstanding
           \/ \E S \in SUBSET EntityKinds : LoadEntityRefs(S)
           \/ EndPass
           \/ UNCHANGED vars
  <2>1. UNCHANGED <<row, thing>>
    BY <1>5 DEF LoadOutstanding, LoadEntityRefs, EndPass, dbVars, vars
  <2> QED
    BY <2>1 DEF Asked, MadeFor, Known
<1> QED
  BY <1>1, <1>2, <1>3, <1>4, <1>5, PassSteps DEF Next

\* The ledger implements ExactlyOnce: for each intent of the task tool one object
\* at most, made after it was asked for, and it is the one the ledger names,
\* through lost answers, failures, crashes and passes that begin again.
THEOREM MadeOnce == Spec => OnceSpec
<1>1. Init => Once!Init
  BY OnceInit
<1>2. LedgerInv /\ [Next]_vars => [Once!Next]_(Once!once)
  BY OnceStep DEF Once!once, Asked, MadeFor, Known
<1> QED
  BY <1>1, <1>2, Inductive, PTL DEF Spec, OnceSpec, Once!Spec

=============================================================================
