--------------------------- MODULE Objectives_proofs ---------------------------
(****************************************************************************)
(* Type correctness of Objectives, that a pass never takes back a judgement,*)
(* that every conflict it finds on a page is a hand edit, a write of its    *)
(* own that was not recorded or a column chosen since its last write, and   *)
(* that a pass which nothing disturbed settles everything: for any          *)
(* objectives, pages, periods, columns and figures, and any number of       *)
(* passes, edits and failures.                                              *)
(****************************************************************************)
EXTENDS QuietObjectives, TLAPS

Rows == [status : Statuses, period : Periods \cup {Unwritten},
         page : Pages \cup {None}, figure : Figures \cup {None}]

Entries == [held : {"store", "trash", "elsewhere"}, dates : [DateColumns -> Dates],
            success : [SuccessColumns -> Figures \cup {None}]]

StepSeqs == {<<"draft">>, <<"missed">>, <<"active">>, <<"active", "missed">>}

StepItems == [id : Objectives, from : Open, steps : StepSeqs]
Actions == [id : Objectives, page : Pages, column : DateColumns, dates : Periods,
            conflict : BOOLEAN]

\* What a pass carries at each of its stages.
CarriedOK ==
    /\ pass.at = "success" => /\ pass.column \in SuccessColumns
                              /\ \A o \in DOMAIN pass.linked : pass.linked[o] \in Pages
    /\ pass.at = "record" =>
          \A o \in DOMAIN pass.figures : pass.figures[o] \in Figures \cup {None}
    /\ pass.at = "step" => pass.todo \subseteq StepItems
    /\ pass.at = "entries" => pass.todo = {} /\ pass.column \in DateColumns
    /\ pass.at = "entries" =>
          \A o \in DOMAIN pass.linked :
             /\ o \in Objectives /\ pass.linked[o].page \in Pages
             /\ pass.linked[o].period \in Periods \cup {Unwritten}
    /\ pass.at \in {"write", "note", "ledger"} => pass.todo \subseteq Actions

\* An objective has one action in a plan.
OneActionEach ==
    pass.at \in {"write", "note", "ledger"} =>
       \A a, b \in pass.todo : a.id = b.id => a = b

\* What was written last and recorded stands in the column it was written into,
\* but for a hand edit.
AppliedStands ==
    \A g \in Pages : lastApplied[g] # None /\ g \notin unrecorded =>
       /\ written[g] \in DateColumns
       /\ <<g, written[g]>> \notin edited => page[g].dates[written[g]] = lastApplied[g]

\* The write that is about to be recorded stands, but for a hand edit.
NotedStands ==
    pass.at = "note" =>
       \A a \in First :
          /\ written[a.page] = a.column
          /\ <<a.page, a.column>> \notin edited => page[a.page].dates[a.column] = a.dates

Inv == TypeOK /\ CarriedOK /\ OneActionEach /\ AppliedStands /\ NotedStands

USE DEF Stages, Statuses, Open, Dates

-----------------------------------------------------------------------------

\* The step a window asks for leads to a status that exists.
LEMMA StepsAreKnown ==
    ASSUME NEW status \in Statuses, NEW period \in Periods \cup {Unwritten}
    PROVE  /\ WindowSteps(status, period) \in StepSeqs \cup {<<>>}
           /\ WindowSteps(status, period) # <<>> => status \in Open
BY DEF WindowSteps, StepSeqs

\* The invariant holds at the start.
LEMMA InitInv == Init => Inv
<1> SUFFICES ASSUME Init PROVE Inv
    OBVIOUS
<1>1. TypeOK
    BY WindowsAssumption DEF Init, TypeOK, Idle
<1> QED
    BY <1>1 DEF Init, Inv, CarriedOK, OneActionEach, AppliedStands, NotedStands, Idle

\* The record of a pass is built from that of an idle one, so its stage is known.
LEMMA StageOf ==
    ASSUME NEW stage, NEW todo, NEW column
    PROVE  /\ [Idle EXCEPT !.at = stage].at = stage
           /\ [Idle EXCEPT !.at = stage, !.todo = todo].at = stage
           /\ [Idle EXCEPT !.at = stage, !.todo = todo].todo = todo
           /\ [Idle EXCEPT !.at = stage, !.linked = todo].at = stage
           /\ [Idle EXCEPT !.at = stage, !.linked = todo].linked = todo
           /\ [Idle EXCEPT !.at = stage, !.figures = todo].at = stage
           /\ [Idle EXCEPT !.at = stage, !.figures = todo].figures = todo
           /\ [Idle EXCEPT !.at = stage, !.column = column, !.linked = todo].at = stage
           /\ [Idle EXCEPT !.at = stage, !.column = column, !.linked = todo].column = column
           /\ [Idle EXCEPT !.at = stage, !.column = column, !.linked = todo].linked = todo
           /\ [Idle EXCEPT !.at = stage, !.column = column, !.linked = todo].todo = {}
           /\ Idle.at = "rest"
BY DEF Idle

\* The store with dates put in one column of a page.
Put(g, column, dates) == [page EXCEPT ![g].dates[column] = dates]

\* Dates put in one column of a page leave the rest of the store.
LEMMA DatesPut ==
    ASSUME TypeOK, NEW g \in Pages, NEW column \in DateColumns, NEW dates \in Dates
    PROVE  /\ Put(g, column, dates) \in [Pages -> Entries]
           /\ \A h \in Pages :
                 /\ Put(g, column, dates)[h].held = page[h].held
                 /\ Put(g, column, dates)[h].success = page[h].success
                 /\ h # g => Put(g, column, dates)[h] = page[h]
           /\ \A h \in Pages, c \in DateColumns :
                 Put(g, column, dates)[h].dates[c] =
                    IF h = g /\ c = column THEN dates ELSE page[h].dates[c]
<1> DEFINE new == [page[g].dates EXCEPT ![column] = dates]
           entry == [page[g] EXCEPT !.dates = new]
           put == Put(g, column, dates)
<1>1. page \in [Pages -> Entries] /\ page[g] \in Entries
      BY DEF TypeOK, Entries
<1>2. /\ new \in [DateColumns -> Dates]
      /\ \A c \in DateColumns : new[c] = IF c = column THEN dates ELSE page[g].dates[c]
      BY <1>1 DEF Entries
<1> HIDE DEF new
<1>3. /\ entry \in Entries /\ entry.dates = new
      /\ entry.held = page[g].held /\ entry.success = page[g].success
      BY <1>1, <1>2 DEF Entries
<1>4. put = [page EXCEPT ![g] = entry]
      BY DEF new, Put
<1> HIDE DEF entry, put
<1>5. put \in [Pages -> Entries] /\ \A h \in Pages : put[h] = IF h = g THEN entry ELSE page[h]
      BY <1>1, <1>3, <1>4
<1>6. /\ \A h \in Pages : /\ put[h].held = page[h].held /\ put[h].success = page[h].success
                          /\ h # g => put[h] = page[h]
      /\ \A h \in Pages, c \in DateColumns :
            put[h].dates[c] = IF h = g /\ c = column THEN dates ELSE page[h].dates[c]
      BY <1>2, <1>3, <1>5
<1> QED
    BY <1>5, <1>6 DEF put

\* What follows an action: the next one, or nothing.
LEMMA AfterOK ==
    ASSUME Inv, pass.at \in {"write", "note", "ledger"}, NEW action \in First,
           pass' = After(action)
    PROVE  pass'.at \in {"rest", "write"} /\ (pass'.at = "write" => pass'.todo \subseteq pass.todo)
BY StageOf DEF After

\* A step that leaves the pass alone.
LEMMA PassAlone ==
    ASSUME Inv, UNCHANGED pass
    PROVE  CarriedOK' /\ OneActionEach'
BY DEF Inv, CarriedOK, OneActionEach

\* What people and the API do between the steps keeps it, and so do the end of
\* a move and of a day.
LEMMA PersonInv == Inv /\ (Person \/ Finish \/ NextDay) => Inv'
<1> SUFFICES ASSUME Inv, Person \/ Finish \/ NextDay PROVE Inv'
    OBVIOUS
<1> USE DEF Inv
<1>1. CASE \E o \in Objectives, s \in Statuses : Judge(o, s)
  <2>1. TypeOK' /\ UNCHANGED <<pass, page, lastApplied, edited, written, unrecorded>>
    <3> PICK o \in Objectives, s \in Statuses : Judge(o, s)
        BY <1>1
    <3>1. UNCHANGED <<today, page, chosen, lastApplied, moving, pass, edited, written, unrecorded>>
          BY DEF Judge
    <3>2. [objective[o] EXCEPT !.status = s] \in Rows
      <4>1. objective[o] \in Rows
            BY DEF TypeOK, Rows
      <4> QED
          BY <4>1 DEF Rows
    <3>3. objective' \in [Objectives -> Rows]
          BY <3>2 DEF Judge, TypeOK, Rows
    <3> QED
        BY <3>1, <3>3 DEF TypeOK, Rows
  <2> QED
      BY <2>1, PassAlone DEF AppliedStands, NotedStands, First
<1>2. CASE \E o \in Objectives, p \in Periods, s \in Statuses \cup {None} : AskMove(o, p, s)
  <2>1. TypeOK' /\ UNCHANGED <<pass, page, lastApplied, edited, written, unrecorded>>
        BY <1>2 DEF AskMove, TypeOK, people
  <2> QED
      BY <2>1, PassAlone DEF AppliedStands, NotedStands, First
<1>3. CASE \E o \in Objectives, g \in Pages \cup {None} : Relink(o, g)
  <2>1. TypeOK' /\ UNCHANGED <<pass, page, lastApplied, edited, written, unrecorded>>
    <3> PICK o \in Objectives, g \in Pages \cup {None} : Relink(o, g)
        BY <1>3
    <3>1. UNCHANGED <<today, page, chosen, lastApplied, moving, pass, edited, written, unrecorded>>
          BY DEF Relink
    <3>2. [objective[o] EXCEPT !.page = g, !.figure = None] \in Rows
      <4>1. objective[o] \in Rows
            BY DEF TypeOK, Rows
      <4> QED
          BY <4>1 DEF Rows
    <3>3. objective' \in [Objectives -> Rows]
          BY <3>2 DEF Relink, TypeOK, Rows
    <3> QED
        BY <3>1, <3>3 DEF TypeOK, Rows
  <2> QED
      BY <2>1, PassAlone DEF AppliedStands, NotedStands, First
<1>4. CASE \E g \in Pages, c \in DateColumns, d \in Dates : EditDates(g, c, d)
  <2> PICK g \in Pages, c \in DateColumns, d \in Dates : EditDates(g, c, d)
      BY <1>4
  <2>0. /\ UNCHANGED <<today, objective, chosen, lastApplied, moving, pass, written, unrecorded>>
        /\ edited' = edited \cup {<<g, c>>}
        BY DEF EditDates
  <2>1. /\ page' \in [Pages -> Entries]
        /\ \A h \in Pages, k \in DateColumns :
              page'[h].dates[k] = IF h = g /\ k = c THEN d ELSE page[h].dates[k]
    <3> HIDE DEF Dates
    <3>1. page' = Put(g, c, d)
          BY DEF EditDates, Put
    <3> QED
        BY <3>1, DatesPut
  <2>2. TypeOK'
        BY <2>0, <2>1 DEF TypeOK, Entries
  <2>3. \A h \in Pages, k \in DateColumns : <<h, k>> \notin edited' =>
           page'[h].dates[k] = page[h].dates[k] /\ <<h, k>> \notin edited
        BY <2>0, <2>1
  <2>4. AppliedStands'
        BY <2>0, <2>3 DEF AppliedStands
  <2>5. NotedStands'
    <3> SUFFICES ASSUME pass.at = "note", NEW a \in First
                 PROVE  /\ written[a.page] = a.column
                        /\ <<a.page, a.column>> \notin edited' =>
                              page'[a.page].dates[a.column] = a.dates
        BY <2>0 DEF NotedStands, First
    <3>1. a.page \in Pages /\ a.column \in DateColumns
          BY DEF CarriedOK, Actions, First
    <3> QED
        BY <2>3, <3>1 DEF NotedStands
  <2> QED
      BY <2>0, <2>2, <2>4, <2>5, PassAlone
<1>5. CASE \E g \in Pages, c \in SuccessColumns, f \in Figures \cup {None} : EditSuccess(g, c, f)
  <2> PICK g \in Pages, c \in SuccessColumns, f \in Figures \cup {None} : EditSuccess(g, c, f)
      BY <1>5
  <2> DEFINE new == [page[g].success EXCEPT ![c] = f]
             entry == [page[g] EXCEPT !.success = new]
  <2>1. UNCHANGED <<today, objective, chosen, lastApplied, moving, pass, edited, written, unrecorded>>
        BY DEF EditSuccess
  <2>2. page \in [Pages -> Entries] /\ page[g] \in Entries
        BY DEF TypeOK, Entries
  <2>3. new \in [SuccessColumns -> Figures \cup {None}] /\ page' = [page EXCEPT ![g] = entry]
        BY <2>2 DEF EditSuccess, Entries
  <2>4. entry \in Entries /\ entry.dates = page[g].dates
    <3> HIDE DEF new
    <3> QED
        BY <2>2, <2>3 DEF Entries
  <2> HIDE DEF entry
  <2>5. page' \in [Pages -> Entries] /\ \A h \in Pages : page'[h].dates = page[h].dates
        BY <2>2, <2>3, <2>4
  <2>6. TypeOK'
        BY <2>1, <2>5 DEF TypeOK, Entries
  <2>7. pass.at = "note" => \A a \in First : a.page \in Pages
        BY DEF CarriedOK, Actions, First
  <2> QED
      BY <2>1, <2>5, <2>6, <2>7, PassAlone DEF AppliedStands, NotedStands, First
<1>6. CASE \E g \in Pages, held \in {"store", "trash", "elsewhere"} : HoldPage(g, held)
  <2>1. TypeOK' /\ UNCHANGED <<pass, lastApplied, edited, written, unrecorded>>
        /\ \A h \in Pages : page'[h].dates = page[h].dates
    <3> PICK g \in Pages, held \in {"store", "trash", "elsewhere"} : HoldPage(g, held)
        BY <1>6
    <3> DEFINE entry == [page[g] EXCEPT !.held = held]
    <3>1. /\ UNCHANGED <<today, objective, chosen, lastApplied, moving, pass, edited, written, unrecorded>>
          /\ page' = [page EXCEPT ![g] = entry]
          BY DEF HoldPage
    <3>2. page \in [Pages -> Entries] /\ page[g] \in Entries
          BY DEF TypeOK, Entries
    <3>3. entry \in Entries /\ entry.dates = page[g].dates
          BY <3>2 DEF Entries
    <3> HIDE DEF entry
    <3>4. page' \in [Pages -> Entries] /\ \A h \in Pages : page'[h].dates = page[h].dates
          BY <3>1, <3>2, <3>3
    <3> QED
        BY <3>1, <3>4 DEF TypeOK, Entries
  <2>2. pass.at = "note" => \A a \in First : a.page \in Pages
        BY DEF CarriedOK, Actions, First
  <2> QED
      BY <2>1, <2>2, PassAlone DEF AppliedStands, NotedStands, First
<1>7. CASE \/ \E column \in DateColumns \cup {None} : ChooseDates(column)
           \/ \E column \in SuccessColumns \cup {None} : ChooseSuccess(column)
  <2>1. TypeOK' /\ UNCHANGED <<pass, page, lastApplied, edited, written, unrecorded>>
        BY <1>7 DEF ChooseDates, ChooseSuccess, Choices, TypeOK
  <2> QED
      BY <2>1, PassAlone DEF AppliedStands, NotedStands, First
<1>8. CASE Finish
  <2>1. TypeOK' /\ UNCHANGED <<pass, page, lastApplied, edited, written, unrecorded>>
    <3> PICK m \in moving : Move(m)
        BY <1>8 DEF Finish
    <3> DEFINE status == IF m.status = None THEN objective[m.id].status ELSE m.status
    <3>1. /\ UNCHANGED <<today, page, chosen, lastApplied, pass, edited, written, unrecorded>>
          /\ moving' \subseteq moving
          BY DEF Move
    <3>2. [objective[m.id] EXCEPT !.period = m.period, !.status = status] \in Rows
      <4>1. objective[m.id] \in Rows /\ m.period \in Periods /\ status \in Statuses
            BY DEF TypeOK, Rows
      <4> HIDE DEF status
      <4> QED
          BY <4>1 DEF Rows
    <3>3. objective' \in [Objectives -> Rows]
          BY <3>2 DEF Move, TypeOK, Rows
    <3> QED
        BY <3>1, <3>3 DEF TypeOK, Rows
  <2> QED
      BY <2>1, PassAlone DEF AppliedStands, NotedStands, First
<1>9. CASE NextDay
  <2>1. TypeOK' /\ UNCHANGED <<pass, page, lastApplied, edited, written, unrecorded>>
    <3>1. today' \in 0 .. LastDay
      <4>1. today \in 0 .. LastDay /\ today < LastDay /\ today' = today + 1
            BY <1>9 DEF NextDay, TypeOK
      <4> QED
          BY <4>1, WindowsAssumption DEF WindowsAssumption
    <3> QED
        BY <1>9, <3>1 DEF NextDay, TypeOK, people
  <2> QED
      BY <2>1, PassAlone DEF AppliedStands, NotedStands, First
<1> QED
    BY <1>1, <1>2, <1>3, <1>4, <1>5, <1>6, <1>7, <1>8, <1>9 DEF Person

-----------------------------------------------------------------------------
(* The steps of a pass. *)

\* What is linked is objectives, to pages.
LEMMA LinkedOK ==
    ASSUME TypeOK
    PROVE  \A o \in DOMAIN Linked : o \in Objectives /\ Linked[o] \in Pages
BY DEF Linked, TypeOK

\* Stages at which nothing is carried, and those of the reads.
LEMMA Light ==
    ASSUME pass'.at \in {"rest", "windows", "pages", "success", "record", "step", "entries"}
    PROVE  OneActionEach' /\ NotedStands'
BY DEF OneActionEach, NotedStands

\* At rest and before a read a pass carries nothing.
LEMMA Empty ==
    ASSUME pass'.at \in {"rest", "windows", "pages"}
    PROVE  CarriedOK'
BY DEF CarriedOK

\* While no page and no record changes, the records say what they said.
LEMMA Standing ==
    ASSUME Inv, UNCHANGED <<page, lastApplied, edited, written, unrecorded>>
    PROVE  AppliedStands'
BY DEF Inv, AppliedStands

\* A pass starts with nothing in hand.
LEMMA StartPassInv == Inv /\ StartPass => Inv'
<1> SUFFICES ASSUME Inv, StartPass PROVE Inv'
    OBVIOUS
<1>1. UNCHANGED <<today, page, chosen, lastApplied, moving, edited, written, unrecorded>>
      BY DEF StartPass
<1>2. objective' \in [Objectives -> Rows]
  <2>1. \A o \in Objectives : objective[o] \in Rows /\ [objective[o] EXCEPT !.figure = None] \in Rows
        BY DEF Inv, TypeOK, Rows
  <2> QED
      BY <2>1 DEF StartPass, Inv, TypeOK, Rows
<1>3. \/ pass'.at = "windows"
      \/ /\ pass'.at = "success" /\ pass'.linked = Linked
         /\ pass'.column = chosen.success /\ chosen.success # None
  <2>1. CASE chosen.success # None /\ Linked = <<>>
    <3>1. pass' = [Idle EXCEPT !.at = "windows"]
          BY <2>1 DEF StartPass
    <3> QED
        BY <3>1, StageOf
  <2>2. CASE chosen.success # None /\ Linked # <<>>
    <3>1. pass' = [Idle EXCEPT !.at = "success", !.column = chosen.success, !.linked = Linked]
          BY <2>2 DEF StartPass
    <3> QED
        BY <2>2, <3>1, StageOf
  <2>3. CASE chosen.success = None
    <3>1. pass' = [Idle EXCEPT !.at = "windows"]
          BY <2>3 DEF StartPass
    <3> QED
        BY <3>1, StageOf
  <2> QED
      BY <2>1, <2>2, <2>3
<1>4. CarriedOK'
      BY <1>3, LinkedOK DEF CarriedOK, Inv, TypeOK, Choices
<1>5. TypeOK'
      BY <1>1, <1>2, <1>3 DEF Inv, TypeOK, Rows
<1> QED
    BY <1>1, <1>3, <1>4, <1>5, Light, Standing DEF Inv

\* So does the reading of the pages' figures, and the recording of each.
LEMMA FiguresInv == Inv /\ (ReadFigures \/ RecordFigures) => Inv'
<1> SUFFICES ASSUME Inv, ReadFigures \/ RecordFigures PROVE Inv'
    OBVIOUS
<1>1. CASE ReadFigures
  <2>1. UNCHANGED <<today, people, lastApplied, moving, edited, written, unrecorded>>
        BY <1>1 DEF ReadFigures
  <2>2. pass'.at = "record" /\ pass'.figures = [o \in DOMAIN pass.linked |-> Figure(o)]
        BY <1>1, StageOf DEF ReadFigures
  <2>3. \A o \in DOMAIN pass.linked : Figure(o) \in Figures \cup {None}
        BY <1>1 DEF ReadFigures, Figure, Inv, CarriedOK, TypeOK
  <2>4. CarriedOK'
        BY <2>2, <2>3 DEF CarriedOK
  <2>5. TypeOK'
        BY <2>1, <2>2 DEF Inv, TypeOK, people
  <2> QED
      BY <2>1, <2>2, <2>4, <2>5, Light, Standing DEF Inv, people
<1>2. CASE RecordFigures
  <2>1. UNCHANGED <<today, page, chosen, lastApplied, moving, edited, written, unrecorded>>
        BY <1>2 DEF RecordFigures
  <2>2. pass'.at = "windows"
        BY <1>2, StageOf DEF RecordFigures
  <2>3. objective' \in [Objectives -> Rows]
    <3>1. \A o \in Objectives : objective[o] \in Rows
          BY DEF Inv, TypeOK, Rows
    <3>2. \A o \in DOMAIN pass.figures : pass.figures[o] \in Figures \cup {None}
          BY <1>2 DEF RecordFigures, Inv, CarriedOK
    <3>3. \A o \in Objectives : o \in DOMAIN pass.figures =>
             [objective[o] EXCEPT !.figure = pass.figures[o]] \in Rows
          BY <3>1, <3>2 DEF Rows
    <3> QED
        BY <1>2, <3>1, <3>3 DEF RecordFigures
  <2>4. TypeOK'
        BY <2>1, <2>2, <2>3 DEF Inv, TypeOK, Rows
  <2> QED
      BY <2>1, <2>2, <2>4, Light, Empty, Standing DEF Inv
<1> QED
    BY <1>1, <1>2

\* So does the read of the open objectives.
LEMMA ReadOpenInv == Inv /\ ReadOpen => Inv'
<1> SUFFICES ASSUME Inv, ReadOpen PROVE Inv'
    OBVIOUS
<1> DEFINE todo == {item \in {Todo(o) : o \in Objectives} : item.steps # <<>>}
<1>1. UNCHANGED <<today, people, lastApplied, moving, edited, written, unrecorded>>
      BY DEF ReadOpen
<1>2. todo \subseteq StepItems
  <2> SUFFICES ASSUME NEW o \in Objectives, Todo(o).steps # <<>> PROVE Todo(o) \in StepItems
      OBVIOUS
  <2>1. objective[o].status \in Statuses /\ objective[o].period \in Periods \cup {Unwritten}
        BY DEF Inv, TypeOK
  <2> QED
      BY <2>1, StepsAreKnown DEF Todo, StepItems
<1>3. pass'.at = "pages" \/ (pass'.at = "step" /\ pass'.todo = todo)
      BY StageOf DEF ReadOpen
<1>4. CarriedOK'
      BY <1>2, <1>3 DEF CarriedOK
<1>5. TypeOK'
      BY <1>1, <1>3 DEF Inv, TypeOK, people
<1> QED
    BY <1>1, <1>3, <1>4, <1>5, Light, Standing DEF Inv, people

\* What is left of an item after one of its steps.
LEMMA ItemStep ==
    ASSUME NEW item \in StepItems
    PROVE  LET rest == [item EXCEPT !.from = Head(item.steps), !.steps = Tail(item.steps)]
           IN  /\ Head(item.steps) \in Statuses
               /\ rest.steps # <<>> => rest \in StepItems
<1>1. item.id \in Objectives /\ item.steps \in StepSeqs /\ item.from \in Open
      BY DEF StepItems
<1>2. Head(item.steps) \in Statuses
      BY <1>1 DEF StepSeqs
<1>3. \/ Tail(item.steps) = <<>>
      \/ Tail(item.steps) = <<"missed">> /\ Head(item.steps) = "active"
  <2>1. Tail(<<"draft">>) = <<>> /\ Tail(<<"missed">>) = <<>> /\ Tail(<<"active">>) = <<>>
        OBVIOUS
  <2>2. Tail(<<"active", "missed">>) = <<"missed">> /\ Head(<<"active", "missed">>) = "active"
        OBVIOUS
  <2>3. \/ item.steps = <<"draft">> \/ item.steps = <<"missed">>
        \/ item.steps = <<"active">> \/ item.steps = <<"active", "missed">>
        BY <1>1 DEF StepSeqs
  <2> QED
      BY <2>1, <2>2, <2>3, Zenon
<1>4. CASE Tail(item.steps) = <<>>
      BY <1>2, <1>4 DEF StepItems
<1>5. CASE Tail(item.steps) = <<"missed">> /\ Head(item.steps) = "active"
  <2>1. [item EXCEPT !.from = "active", !.steps = <<"missed">>] \in StepItems
        BY <1>1 DEF StepItems, StepSeqs
  <2> QED
      BY <1>2, <1>5, <2>1
<1> QED
    BY <1>3, <1>4, <1>5

\* So does a step applied over the status that was read.
LEMMA ApplyStepInv == Inv /\ ApplyStep => Inv'
<1> SUFFICES ASSUME Inv, ApplyStep PROVE Inv'
    OBVIOUS
<1>1. UNCHANGED <<today, page, chosen, lastApplied, moving, edited, written, unrecorded>>
      BY DEF ApplyStep
<1>2. pass.todo \subseteq StepItems /\ First \subseteq pass.todo
      BY DEF Inv, CarriedOK, ApplyStep, First
<1>3. PICK item \in First, left \in SUBSET StepItems :
         /\ \/ objective' = objective
            \/ objective' = [objective EXCEPT ![item.id].status = Head(item.steps)]
         /\ pass' = IF left = {} THEN [Idle EXCEPT !.at = "pages"]
                    ELSE [Idle EXCEPT !.at = "step", !.todo = left]
  <2>1. PICK item \in First :
           LET rest == [item EXCEPT !.from = Head(item.steps), !.steps = Tail(item.steps)]
               left == (pass.todo \ {item})
                         \cup (IF Moves(item) /\ rest.steps # <<>> THEN {rest} ELSE {})
           IN  /\ objective' = IF Moves(item)
                               THEN [objective EXCEPT ![item.id].status = Head(item.steps)]
                               ELSE objective
               /\ pass' = IF left = {} THEN [Idle EXCEPT !.at = "pages"]
                          ELSE [Idle EXCEPT !.at = "step", !.todo = left]
        BY DEF ApplyStep
  <2> DEFINE rest == [item EXCEPT !.from = Head(item.steps), !.steps = Tail(item.steps)]
             left == (pass.todo \ {item})
                       \cup (IF Moves(item) /\ rest.steps # <<>> THEN {rest} ELSE {})
  <2>2. left \subseteq StepItems
    <3>1. rest.steps # <<>> => rest \in StepItems
          BY <1>2, ItemStep
    <3> HIDE DEF rest
    <3> QED
        BY <1>2, <3>1
  <2>3. /\ objective' = objective \/ objective' = [objective EXCEPT ![item.id].status = Head(item.steps)]
        /\ pass' = IF left = {} THEN [Idle EXCEPT !.at = "pages"]
                   ELSE [Idle EXCEPT !.at = "step", !.todo = left]
        BY <2>1
  <2> HIDE DEF left
  <2> QED
      BY <2>2, <2>3
<1>4. pass'.at = "pages" \/ (pass'.at = "step" /\ pass'.todo \subseteq StepItems)
      BY <1>3, StageOf
<1>5. objective' \in [Objectives -> Rows]
  <2>1. item.id \in Objectives /\ Head(item.steps) \in Statuses
        BY <1>2, ItemStep DEF StepItems
  <2>2. objective \in [Objectives -> Rows]
        BY DEF Inv, TypeOK, Rows
  <2>3. [objective[item.id] EXCEPT !.status = Head(item.steps)] \in Rows
    <3>1. objective[item.id] \in Rows
          BY <2>1, <2>2
    <3> QED
        BY <2>1, <3>1 DEF Rows
  <2> QED
      BY <1>3, <2>1, <2>2, <2>3
<1>6. TypeOK'
      BY <1>1, <1>4, <1>5 DEF Inv, TypeOK, Rows
<1>7. CarriedOK'
      BY <1>4 DEF CarriedOK
<1> QED
    BY <1>1, <1>4, <1>6, <1>7, Light, Standing DEF Inv

\* So does the read of the links.
LEMMA ReadLinksInv == Inv /\ ReadLinks => Inv'
<1> SUFFICES ASSUME Inv, ReadLinks PROVE Inv'
    OBVIOUS
<1> DEFINE links == [o \in DOMAIN Linked |-> [page |-> Linked[o], period |-> objective[o].period]]
<1>1. UNCHANGED <<today, people, lastApplied, moving, edited, written, unrecorded>>
      BY DEF ReadLinks
<1>2. \/ pass'.at = "rest"
      \/ /\ pass'.at = "entries" /\ pass'.linked = links /\ pass'.todo = {}
         /\ pass'.column = chosen.dates /\ chosen.dates # None
  <2>1. CASE chosen.dates # None /\ Linked # <<>>
    <3>1. pass' = [Idle EXCEPT !.at = "entries", !.column = chosen.dates, !.linked = links]
          BY <2>1, Zenon DEF ReadLinks
    <3> HIDE DEF links
    <3> QED
        BY <2>1, <3>1, StageOf
  <2>2. CASE ~(chosen.dates # None /\ Linked # <<>>)
    <3>1. pass' = Idle
          BY <2>2, Zenon DEF ReadLinks
    <3> QED
        BY <3>1, StageOf
  <2> QED
      BY <2>1, <2>2
<1>3. \A o \in DOMAIN links : /\ o \in Objectives /\ links[o].page \in Pages
                             /\ links[o].period \in Periods \cup {Unwritten}
      BY LinkedOK DEF Inv, TypeOK
<1>4. CarriedOK'
  <2>1. chosen.dates # None => chosen.dates \in DateColumns
        BY DEF Inv, TypeOK, Choices
  <2> HIDE DEF links
  <2> QED
      BY <1>2, <1>3, <2>1 DEF CarriedOK
<1>5. TypeOK'
      BY <1>1, <1>2 DEF Inv, TypeOK, people
<1> QED
    BY <1>1, <1>2, <1>4, <1>5, Light, Standing DEF Inv, people

\* So does the plan of the pages: what it takes for edited was edited.
LEMMA PlanPagesInv == Inv /\ PlanPages => Inv'
<1> SUFFICES ASSUME Inv, PlanPages PROVE Inv'
    OBVIOUS
<1> DEFINE action(o) == [id |-> o, page |-> pass.linked[o].page, column |-> pass.column,
                         dates |-> pass.linked[o].period,
                         conflict |-> Conflicts(pass.linked[o].page, pass.column,
                                                pass.linked[o].period)]
           todo == {action(o) : o \in {o \in DOMAIN pass.linked : ToWrite(o)}}
<1>1. UNCHANGED <<today, people, lastApplied, moving, edited, written, unrecorded>> /\ pass.at = "entries"
      BY DEF PlanPages
<1>2. pass' = IF todo = {} THEN Idle ELSE [Idle EXCEPT !.at = "write", !.todo = todo]
      BY DEF PlanPages
<1>3. todo \subseteq Actions /\ \A a, b \in todo : a.id = b.id => a = b
  <2>1. \A o \in DOMAIN pass.linked : ToWrite(o) => action(o) \in Actions /\ action(o).id = o
    <3> SUFFICES ASSUME NEW o \in DOMAIN pass.linked, ToWrite(o)
                 PROVE  action(o) \in Actions /\ action(o).id = o
        OBVIOUS
    <3>1. /\ o \in Objectives /\ pass.linked[o].page \in Pages
          /\ pass.linked[o].period \in Periods /\ pass.column \in DateColumns
          BY <1>1 DEF Inv, CarriedOK, ToWrite
    <3>2. Conflicts(pass.linked[o].page, pass.column, pass.linked[o].period) \in BOOLEAN
          BY DEF Conflicts
    <3> QED
        BY <3>1, <3>2 DEF Actions
  <2> HIDE DEF action
  <2> QED
      BY <2>1
<1>4. pass'.at = "rest" \/ (pass'.at = "write" /\ pass'.todo = todo)
  <2> HIDE DEF todo
  <2> QED
      BY <1>2 DEF Idle
<1>5. CarriedOK' /\ OneActionEach' /\ NotedStands'
  <2> HIDE DEF todo
  <2> QED
      BY <1>3, <1>4 DEF CarriedOK, OneActionEach, NotedStands
<1>6. TypeOK'
      BY <1>1, <1>4 DEF Inv, TypeOK, people
<1> QED
    BY <1>1, <1>5, <1>6, Standing DEF Inv, people

\* Objectives are numbered, so the plan has one first action.
LEMMA OneFirst ==
    ASSUME Inv, pass.at \in {"write", "note", "ledger"}
    PROVE  /\ First \subseteq Actions
           /\ \A a, b \in First : a = b
<1>1. pass.todo \subseteq Actions /\ First \subseteq pass.todo
      BY DEF Inv, CarriedOK, First
<1>2. \A a, b \in First : a.id <= b.id /\ b.id <= a.id /\ a.id \in Nat /\ b.id \in Nat
      BY <1>1, WindowsAssumption DEF WindowsAssumption, First, Actions
<1>3. \A a, b \in First : a.id = b.id
      BY <1>2
<1> QED
    BY <1>1, <1>3 DEF Inv, OneActionEach

\* The pass after an action keeps what it still carries.
LEMMA AfterInv ==
    ASSUME Inv, pass.at \in {"write", "note", "ledger"}, NEW action \in First,
           pass' = After(action)
    PROVE  CarriedOK' /\ OneActionEach' /\ NotedStands' /\ pass'.at \in Stages
BY AfterOK DEF Inv, CarriedOK, OneActionEach, NotedStands

\* So does a write of dates, whether taken, lost or refused.
LEMMA WriteDatesInv ==
    ASSUME Inv, NEW taken \in BOOLEAN, NEW answered \in BOOLEAN, WriteDates(taken, answered)
    PROVE  Inv'
<1> PICK action \in First :
       /\ IF taken
          THEN /\ page' = [page EXCEPT ![action.page].dates[action.column] = action.dates]
               /\ edited' = edited \ {<<action.page, action.column>>}
               /\ written' = [written EXCEPT ![action.page] = action.column]
               /\ unrecorded' = unrecorded \cup {action.page}
          ELSE UNCHANGED <<page, edited, written, unrecorded>>
       /\ pass' = IF answered THEN [Idle EXCEPT !.at = "note", !.todo = pass.todo]
                  ELSE After(action)
    BY DEF WriteDates
<1>1. /\ UNCHANGED <<today, objective, chosen, lastApplied, moving>>
      /\ pass.at = "write" /\ (answered => taken)
      BY DEF WriteDates
<1>2. /\ action \in Actions /\ \A a \in First : a = action
      /\ action.page \in Pages /\ action.column \in DateColumns /\ action.dates \in Dates
      BY <1>1, OneFirst DEF Actions
<1>3. /\ page' \in [Pages -> Entries] /\ edited' \subseteq Pages \X DateColumns
      /\ written' \in [Pages -> DateColumns \cup {None}] /\ unrecorded' \subseteq Pages
      /\ \A g \in Pages : g # action.page => page'[g] = page[g] /\ written'[g] = written[g]
  <2>1. CASE taken
    <3> HIDE DEF Dates
    <3>0. page' = Put(action.page, action.column, action.dates)
          BY <2>1 DEF Put
    <3>1. /\ page' \in [Pages -> Entries]
          /\ \A g \in Pages : g # action.page => page'[g] = page[g]
          BY <1>2, <3>0, DatesPut DEF Inv
    <3>2. /\ edited' \subseteq Pages \X DateColumns /\ unrecorded' \subseteq Pages
          /\ written' \in [Pages -> DateColumns \cup {None}]
          /\ \A g \in Pages : g # action.page => written'[g] = written[g]
          BY <1>2, <2>1 DEF Inv, TypeOK
    <3> QED
        BY <3>1, <3>2
  <2>2. CASE ~taken
        BY <2>2 DEF Inv, TypeOK, Entries
  <2> QED
      BY <2>1, <2>2
<1>5. AppliedStands'
  <2>1. CASE taken
    <3>1. \A g \in Pages : g # action.page => \A c : <<g, c>> \notin edited' => <<g, c>> \notin edited
          BY <2>1
    <3>2. action.page \in unrecorded' /\ unrecorded \subseteq unrecorded'
          BY <2>1
    <3> QED
        BY <1>1, <1>3, <3>1, <3>2 DEF Inv, AppliedStands
  <2>2. CASE ~taken
        BY <1>1, <2>2, Standing
  <2> QED
      BY <2>1, <2>2
<1>6. CarriedOK' /\ OneActionEach' /\ NotedStands' /\ pass'.at \in Stages
  <2>1. CASE answered
    <3>1. pass'.at = "note" /\ pass'.todo = pass.todo
          BY <2>1, StageOf
    <3>2. First' = First
          BY <3>1 DEF First
    <3>3. /\ page'[action.page].dates[action.column] = action.dates
          /\ written'[action.page] = action.column
          BY <1>1, <1>2, <2>1, DatesPut DEF Inv, TypeOK
    <3> QED
        BY <1>1, <1>2, <3>1, <3>2, <3>3 DEF Inv, CarriedOK, OneActionEach, NotedStands
  <2>2. CASE ~answered
        BY <1>1, <2>2, AfterInv
  <2> QED
      BY <2>1, <2>2
<1>7. TypeOK'
      BY <1>1, <1>3, <1>6 DEF Inv, TypeOK, Entries
<1> QED
    BY <1>5, <1>6, <1>7 DEF Inv

\* So does the record of a write.
LEMMA NoteAppliedInv == Inv /\ NoteApplied => Inv'
<1> SUFFICES ASSUME Inv, NoteApplied PROVE Inv'
    OBVIOUS
<1> PICK action \in First :
       /\ lastApplied' = [lastApplied EXCEPT ![action.page] = action.dates]
       /\ unrecorded' = unrecorded \ {action.page}
       /\ pass' = IF action.conflict THEN [Idle EXCEPT !.at = "ledger", !.todo = pass.todo]
                  ELSE After(action)
    BY DEF NoteApplied
<1>1. UNCHANGED <<today, people, moving, edited, written>> /\ pass.at = "note"
      BY DEF NoteApplied
<1>2. action \in Actions
      BY <1>1, OneFirst
<1>3. lastApplied' \in [Pages -> Dates] /\ unrecorded' \subseteq Pages
      BY <1>2 DEF Inv, TypeOK, Actions
<1>4. AppliedStands'
  <2> SUFFICES ASSUME NEW g \in Pages, lastApplied'[g] # None, g \notin unrecorded'
               PROVE  /\ written[g] \in DateColumns
                      /\ <<g, written[g]>> \notin edited =>
                            page[g].dates[written[g]] = lastApplied'[g]
      BY <1>1 DEF AppliedStands, people
  <2>1. CASE g = action.page
        BY <1>1, <1>2, <2>1 DEF Inv, TypeOK, NotedStands, Actions
  <2>2. CASE g # action.page
        BY <2>2 DEF Inv, TypeOK, AppliedStands
  <2> QED
      BY <2>1, <2>2
<1>5. CarriedOK' /\ OneActionEach' /\ NotedStands' /\ pass'.at \in Stages
  <2>1. CASE action.conflict
    <3>1. pass'.at = "ledger" /\ pass'.todo = pass.todo
          BY <2>1, StageOf
    <3> QED
        BY <1>1, <3>1 DEF Inv, CarriedOK, OneActionEach, NotedStands
  <2>2. CASE ~action.conflict
        BY <1>1, <2>2, AfterInv
  <2> QED
      BY <2>1, <2>2
<1>6. TypeOK'
      BY <1>1, <1>3, <1>5 DEF Inv, TypeOK, people
<1> QED
    BY <1>4, <1>5, <1>6 DEF Inv

\* So does the entry of a conflict.
LEMMA RecordConflictInv == Inv /\ RecordConflict => Inv'
<1> SUFFICES ASSUME Inv, RecordConflict PROVE Inv'
    OBVIOUS
<1>1. UNCHANGED <<today, people, lastApplied, moving, edited, written, unrecorded>> /\ pass.at = "ledger"
      BY DEF RecordConflict
<1>2. PICK action \in First : pass' = After(action)
      BY DEF RecordConflict
<1>3. CarriedOK' /\ OneActionEach' /\ NotedStands' /\ pass'.at \in Stages
      BY <1>1, <1>2, AfterInv
<1> QED
    BY <1>1, <1>3, Standing DEF Inv, TypeOK, people

\* So does a failure, and the end of the process.
LEMMA FaultInv == Inv /\ (Fails \/ Dies) => Inv'
<1> SUFFICES ASSUME Inv, Fails \/ Dies PROVE Inv'
    OBVIOUS
<1>1. UNCHANGED <<today, people, lastApplied, moving, edited, written, unrecorded>>
      BY DEF Fails, Dies
<1>2. CarriedOK' /\ OneActionEach' /\ NotedStands' /\ pass'.at \in Stages
  <2>1. CASE pass' = Idle \/ \E stage \in {"windows", "pages"} : pass' = [Idle EXCEPT !.at = stage]
    <3>1. pass'.at \in {"rest", "windows", "pages"}
          BY <2>1 DEF Idle
    <3> QED
        BY <3>1, Light, Empty
  <2>2. CASE pass.at \in {"note", "ledger"} /\ \E action \in First : pass' = After(action)
        BY <2>2, AfterInv
  <2> QED
      BY <2>1, <2>2 DEF Fails, Dies
<1> QED
    BY <1>1, <1>2, Standing DEF Inv, TypeOK, people

-----------------------------------------------------------------------------
(* The theorems. *)

\* So does every step.
LEMMA NextInv == Inv /\ [Next]_vars => Inv'
<1>1. ASSUME Inv, UNCHANGED vars PROVE Inv'
      BY <1>1, PassAlone, Standing DEF vars, people, Inv, TypeOK, NotedStands, First
<1>2. ASSUME Inv, Step PROVE Inv'
      BY <1>2, FiguresInv, ReadOpenInv, ApplyStepInv, ReadLinksInv, PlanPagesInv,
         WriteDatesInv, NoteAppliedInv, RecordConflictInv DEF Step
<1>3. ASSUME Inv, Fault PROVE Inv'
      BY <1>3, FaultInv, WriteDatesInv DEF Fault
<1> QED
    BY <1>1, <1>2, <1>3, PersonInv, StartPassInv DEF Next

\* Inv holds of every behaviour.
LEMMA Invariant == Spec => []Inv
<1>1. Init => Inv
      BY InitInv
<1>2. Inv /\ [Next]_vars => Inv'
      BY NextInv
<1> QED
    BY <1>1, <1>2, PTL DEF Spec

\* The tables, the store and what a pass carries have their types.
THEOREM TypeCorrect == Spec => []TypeOK
<1>1. Inv => TypeOK
      BY DEF Inv
<1> QED
    BY <1>1, Invariant, PTL

\* A pass never takes back a judgement: it sets a status only if the objective
\* still has the one it was read with, and only of an open one.
THEOREM Judgements == Spec => JudgementStands
<1>1. Inv /\ [Next]_vars =>
         [\A o \in Objectives : objective[o].status \notin Open /\ pass' # pass
                               => objective'[o].status = objective[o].status]_vars
  <2> SUFFICES ASSUME Inv, Next, NEW o \in Objectives,
                      objective[o].status \notin Open, pass' # pass
               PROVE  objective'[o].status = objective[o].status
      BY DEF vars
  <2>1. objective \in [Objectives -> Rows]
        BY DEF Inv, TypeOK, Rows
  <2>2. CASE Person \/ Finish \/ NextDay
        BY <2>2 DEF Person, Finish, NextDay, Judge, AskMove, Move, Relink, EditDates, EditSuccess,
                    HoldPage, ChooseDates, ChooseSuccess
  <2>3. CASE StartPass \/ RecordFigures
        BY <2>1, <2>3 DEF StartPass, RecordFigures, Rows
  <2>4. CASE ApplyStep
    <3>1. PICK item \in First :
             objective' = IF Moves(item) THEN [objective EXCEPT ![item.id].status = Head(item.steps)]
                          ELSE objective
          BY <2>4 DEF ApplyStep
    <3>2. item.from \in Open
          BY <2>4 DEF ApplyStep, First, Inv, CarriedOK, StepItems
    <3> QED
        BY <2>1, <3>1, <3>2 DEF Moves
  <2>5. CASE ReadFigures \/ ReadOpen \/ ReadLinks \/ PlanPages \/ NoteApplied \/ RecordConflict
             \/ Fails \/ Dies \/ \E taken, answered \in BOOLEAN : WriteDates(taken, answered)
        BY <2>5 DEF ReadFigures, ReadOpen, ReadLinks, PlanPages, NoteApplied, RecordConflict,
                    Fails, Dies, WriteDates, people
  <2> QED
      BY <2>2, <2>3, <2>4, <2>5 DEF Next, Step, Fault
<1> QED
    BY <1>1, Invariant, PTL DEF Spec, JudgementStands

\* A conflict a pass finds is a hand edit, follows a write of prisme's own that was
\* not recorded, or is of another column than the one written last: what was
\* written last and recorded stands where it was written (objective-pages/plan.ts).
THEOREM Conflicting == Spec => ConflictHasACause
<1>1. Inv /\ [Next]_vars =>
         [pass.at = "entries" =>
             \A action \in pass'.todo : action.conflict =>
                \/ <<action.page, action.column>> \in edited
                \/ action.page \in unrecorded
                \/ written[action.page] # action.column]_vars
  <2> SUFFICES ASSUME Inv, Next, pass.at = "entries", NEW action \in pass'.todo, action.conflict
               PROVE  \/ <<action.page, action.column>> \in edited
                      \/ action.page \in unrecorded
                      \/ written[action.page] # action.column
      OBVIOUS
  <2>1. CASE UNCHANGED pass
        BY <2>1 DEF Inv, CarriedOK
  <2>2. CASE PlanPages
    <3>1. PICK o \in DOMAIN pass.linked :
             /\ action.page = pass.linked[o].page /\ action.column = pass.column
             /\ action.conflict = Conflicts(pass.linked[o].page, pass.column,
                                            pass.linked[o].period)
      <4> DEFINE act(o) == [id |-> o, page |-> pass.linked[o].page, column |-> pass.column,
                            dates |-> pass.linked[o].period,
                            conflict |-> Conflicts(pass.linked[o].page, pass.column,
                                                   pass.linked[o].period)]
                 todo == {act(o) : o \in {o \in DOMAIN pass.linked : ToWrite(o)}}
      <4>1. pass' = IF todo = {} THEN Idle ELSE [Idle EXCEPT !.at = "write", !.todo = todo]
            BY <2>2 DEF PlanPages
      <4>2. pass'.todo \subseteq todo
        <5> HIDE DEF todo
        <5> QED
            BY <4>1 DEF Idle
      <4>3. PICK o \in DOMAIN pass.linked : action = act(o)
            BY <4>2
      <4> QED
          BY <4>3
    <3>2. action.page \in Pages
          BY <3>1 DEF Inv, CarriedOK
    <3> QED
        BY <3>1, <3>2 DEF Conflicts, Inv, AppliedStands
  <2>3. CASE Fails \/ Dies
        BY <2>3 DEF Fails, Dies, Idle
  <2>4. CASE Person \/ Finish \/ NextDay
    <3> UNCHANGED pass
        BY <2>4 DEF Person, Finish, NextDay, Judge, AskMove, Move, Relink, EditDates, EditSuccess,
                    HoldPage, ChooseDates, ChooseSuccess
    <3> QED
        BY <2>1
  <2> QED
      BY <2>2, <2>3, <2>4 DEF Next, Step, Fault, StartPass, ReadFigures, RecordFigures, ReadOpen,
         ApplyStep, ReadLinks, WriteDates, NoteApplied, RecordConflict
<1> QED
    BY <1>1, Invariant, PTL DEF Spec, ConflictHasACause

-----------------------------------------------------------------------------
(* A quiet pass. *)

\* The links are the objectives' own.
LEMMA LinkedIs ==
    /\ DOMAIN Linked = {o \in Objectives : objective[o].page # None}
    /\ \A o \in DOMAIN Linked : Linked[o] = objective[o].page
    /\ Linked = <<>> => DOMAIN Linked = {}
<1>1. DOMAIN <<>> = {}
      OBVIOUS
<1>2. Linked = <<>> => DOMAIN Linked = {}
      BY <1>1, Zenon
<1> QED
    BY <1>2 DEF Linked

\* While no objective is linked elsewhere the links stand.
LEMMA LinkedStands ==
    ASSUME \A o \in Objectives : objective'[o].page = objective[o].page
    PROVE  Linked' = Linked
BY DEF Linked

\* A record of a pass that carries nothing but its stage, or one thing.
LEMMA CarriedBy ==
    ASSUME NEW stage, NEW thing
    PROVE  /\ [Idle EXCEPT !.at = stage, !.linked = thing].linked = thing
           /\ [Idle EXCEPT !.at = stage, !.figures = thing].figures = thing
           /\ [Idle EXCEPT !.at = stage, !.todo = thing].todo = thing
BY DEF Idle

\* The phases are the days they are named for.
LEMMA PhaseIs ==
    ASSUME TypeOK, NEW period \in Periods
    PROVE  /\ Phase(period) \in {"upcoming", "running", "closing", "ended"}
           /\ Phase(period) = "upcoming" <=> today < StartsOn[period]
           /\ Phase(period) = "ended" <=> JudgeBy[period] < today
<1>1. /\ today \in Int /\ StartsOn[period] \in Int /\ EndsOn[period] \in Int
      /\ JudgeBy[period] \in Int
      /\ StartsOn[period] <= EndsOn[period] /\ EndsOn[period] <= JudgeBy[period]
      BY WindowsAssumption DEF WindowsAssumption, TypeOK
<1> QED
    BY <1>1 DEF Phase

\* An objective whose window asks for no step has the status the window gives it.
LEMMA NoStepsLeft ==
    TypeOK /\ (\A o \in Objectives : Todo(o).steps = <<>>) => StatusFollowsItsWindow
<1> SUFFICES ASSUME TypeOK, \A o \in Objectives : Todo(o).steps = <<>>,
                    NEW o \in Objectives, objective[o].period # Unwritten
             PROVE  /\ objective[o].status = "draft" => today < StartsOn[objective[o].period]
                    /\ objective[o].status = "active" =>
                          today \in StartsOn[objective[o].period] .. JudgeBy[objective[o].period]
    BY DEF StatusFollowsItsWindow
<1> DEFINE p == objective[o].period
<1>1. p \in Periods
      BY DEF TypeOK
<1>2. /\ today \in Int /\ StartsOn[p] \in Int /\ JudgeBy[p] \in Int
      BY <1>1, WindowsAssumption DEF WindowsAssumption, TypeOK
<1>3. WindowSteps(objective[o].status, p) = <<>>
      BY DEF Todo
<1>4. <<"draft">> # <<>> /\ <<"missed">> # <<>> /\ <<"active">> # <<>> /\ <<"active", "missed">> # <<>>
      OBVIOUS
<1>5. /\ objective[o].status = "draft" => Phase(p) = "upcoming"
      /\ objective[o].status = "active" => Phase(p) \notin {"upcoming", "ended"}
  <2>1. Phase(p) \in {"upcoming", "running", "closing", "ended"}
        BY <1>1, PhaseIs
  <2> HIDE DEF p
  <2> QED
      BY <1>1, <1>3, <1>4, <2>1, WindowsAssumption DEF WindowSteps, WindowsAssumption
<1> QED
    BY <1>1, <1>2, <1>5, PhaseIs

\* The same of the next state.
LEMMA NoStepsLeftNext ==
    (TypeOK /\ (\A o \in Objectives : Todo(o).steps = <<>>) => StatusFollowsItsWindow)'
BY NoStepsLeft, PTL

\* Each step of a window leaves the objective where the next begins.
LEMMA StepsGoOn ==
    ASSUME NEW status, NEW period \in Periods \cup {Unwritten}, WindowSteps(status, period) # <<>>
    PROVE  WindowSteps(Head(WindowSteps(status, period)), period) = Tail(WindowSteps(status, period))
<1> DEFINE steps == WindowSteps(status, period)
<1>1. /\ Head(<<"draft">>) = "draft" /\ Tail(<<"draft">>) = <<>>
      /\ Head(<<"missed">>) = "missed" /\ Tail(<<"missed">>) = <<>>
      /\ Head(<<"active">>) = "active" /\ Tail(<<"active">>) = <<>>
      /\ Head(<<"active", "missed">>) = "active" /\ Tail(<<"active", "missed">>) = <<"missed">>
      OBVIOUS
<1>2. /\ period # Unwritten
      /\ \/ Phase(period) = "upcoming" /\ steps = <<"draft">>
         \/ Phase(period) = "ended" /\ steps = <<"missed">>
         \/ Phase(period) \in {"running", "closing"} /\ steps = <<"active">>
         \/ Phase(period) = "ended" /\ steps = <<"active", "missed">>
      BY DEF WindowSteps
<1>3. CASE Phase(period) = "upcoming" /\ steps = <<"draft">>
      BY <1>1, <1>2, <1>3 DEF WindowSteps
<1>4. CASE Phase(period) = "ended" /\ steps = <<"missed">>
      BY <1>1, <1>2, <1>4 DEF WindowSteps
<1>5. CASE Phase(period) \in {"running", "closing"} /\ steps = <<"active">>
      BY <1>1, <1>2, <1>5 DEF WindowSteps
<1>6. CASE Phase(period) = "ended" /\ steps = <<"active", "missed">>
      BY <1>1, <1>2, <1>6 DEF WindowSteps
<1> QED
    BY <1>2, <1>3, <1>4, <1>5, <1>6

\* What is settled is told by the tables and the day.
LEMMA AsItWas ==
    ASSUME UNCHANGED <<today, people>>
    PROVE  /\ Linked' = Linked
           /\ FigureIsItsPages' <=> FigureIsItsPages
           /\ StatusFollowsItsWindow' <=> StatusFollowsItsWindow
           /\ PageShowsItsPeriod' <=> PageShowsItsPeriod
           /\ \A o : Todo(o)' = Todo(o) /\ (DatesDue(o)' <=> DatesDue(o))
<1>1. UNCHANGED <<today, objective, page, chosen>>
      BY DEF people
<1>2. Linked' = Linked
      BY <1>1 DEF Linked
<1>3. \A o : (DatesDue(o)' <=> DatesDue(o))
      BY <1>1, <1>2 DEF DatesDue, Alone
<1>4. \A o : Todo(o)' = Todo(o)
      BY <1>1 DEF Todo, WindowSteps, Phase
<1> QED
    BY <1>1, <1>2, <1>3, <1>4 DEF FigureIsItsPages, StatusFollowsItsWindow, PageShowsItsPeriod

\* A quiet pass begins with the links as they are, or with every figure cleared.
LEMMA QuietBegins ==
    ASSUME Inv, StartPass
    PROVE  QuietInv'
<1>1. UNCHANGED <<page, chosen>>
      BY DEF StartPass
<1>2. CASE chosen.success # None /\ Linked # <<>>
  <2>0. /\ pass' = [Idle EXCEPT !.at = "success", !.column = chosen.success, !.linked = Linked]
        /\ UNCHANGED objective
        BY <1>2 DEF StartPass
  <2>1. /\ pass'.at = "success" /\ pass'.linked = Linked /\ pass'.column = chosen.success
        /\ UNCHANGED objective
        BY <2>0, StageOf
  <2>2. Linked' = Linked
        BY <2>1, LinkedStands
  <2> QED
      BY <1>1, <1>2, <2>1, <2>2
         DEF QuietInv, FiguresAreRead, StepsAreTodo, LinksAreRead, Writing
<1>3. CASE chosen.success # None /\ Linked = <<>>
  <2>0. pass' = [Idle EXCEPT !.at = "windows"] /\ UNCHANGED objective
        BY <1>3 DEF StartPass
  <2>1. pass'.at = "windows" /\ UNCHANGED objective
        BY <2>0, StageOf
  <2>2. Linked' = Linked /\ DOMAIN Linked = {}
        BY <1>3, <2>1, LinkedStands, LinkedIs
  <2>3. FigureIsItsPages'
        BY <2>2 DEF FigureIsItsPages
  <2> QED
      BY <2>1, <2>3 DEF QuietInv, FiguresAreRead, StepsAreTodo, LinksAreRead, Writing
<1>4. CASE chosen.success = None
  <2>0. pass' = [Idle EXCEPT !.at = "windows"]
        BY <1>4 DEF StartPass
  <2>1. pass'.at = "windows"
        BY <2>0, StageOf
  <2>2. objective' = [o \in Objectives |-> [objective[o] EXCEPT !.figure = None]]
        BY <1>4 DEF StartPass
  <2>3. \A o \in Objectives : objective'[o].figure = None /\ objective'[o].page = objective[o].page
    <3> SUFFICES ASSUME NEW o \in Objectives
                 PROVE  objective'[o].figure = None /\ objective'[o].page = objective[o].page
        OBVIOUS
    <3>1. objective[o] \in Rows
          BY DEF Inv, TypeOK, Rows
    <3> QED
        BY <2>2, <3>1 DEF Rows
  <2>4. Linked' = Linked
        BY <2>3, LinkedStands
  <2>5. FigureIsItsPages'
        BY <1>1, <1>4, <2>3, <2>4, LinkedIs DEF FigureIsItsPages
  <2> QED
      BY <2>1, <2>5 DEF QuietInv, FiguresAreRead, StepsAreTodo, LinksAreRead, Writing
<1> QED
    BY <1>2, <1>3, <1>4

\* The figures it records are those of the pages.
LEMMA QuietFigures ==
    ASSUME Inv, QuietInv, quiet, ReadFigures \/ RecordFigures
    PROVE  QuietInv'
<1>1. CASE ReadFigures
  <2>1. /\ UNCHANGED <<today, people>> /\ pass.at = "success"
        /\ pass'.at = "record"
        /\ pass'.figures = [o \in DOMAIN pass.linked |-> Figure(o)]
        BY <1>1, StageOf, CarriedBy DEF ReadFigures
  <2>2. chosen.success # None /\ pass.linked = Linked /\ pass.column = chosen.success
        BY <2>1 DEF QuietInv, FiguresAreRead
  <2>3. Linked' = Linked /\ UNCHANGED <<page, chosen>>
        BY <2>1, AsItWas DEF people
  <2>4. \A o \in DOMAIN Linked : Figure(o) = FigureOf(o) /\ FigureOf(o)' = FigureOf(o)
        BY <2>2, <2>3 DEF Figure, FigureOf
  <2>5. FiguresAreRead'
        BY <2>1, <2>2, <2>3, <2>4 DEF FiguresAreRead
  <2> QED
      BY <2>1, <2>5 DEF QuietInv, StepsAreTodo, LinksAreRead, Writing
<1>2. CASE RecordFigures
  <2>1. UNCHANGED <<page, chosen>> /\ pass.at = "record" /\ pass'.at = "windows"
        BY <1>2, StageOf DEF RecordFigures
  <2>2. \A o \in Objectives :
           /\ objective'[o].page = objective[o].page
           /\ o \in DOMAIN pass.figures => objective'[o].figure = pass.figures[o]
    <3> SUFFICES ASSUME NEW o \in Objectives
                 PROVE  /\ objective'[o].page = objective[o].page
                        /\ o \in DOMAIN pass.figures => objective'[o].figure = pass.figures[o]
        OBVIOUS
    <3>1. objective[o] \in Rows
          BY DEF Inv, TypeOK, Rows
    <3>2. objective'[o] = IF o \in DOMAIN pass.figures
                          THEN [objective[o] EXCEPT !.figure = pass.figures[o]] ELSE objective[o]
          BY <1>2 DEF RecordFigures
    <3> QED
        BY <3>1, <3>2 DEF Rows
  <2>3. Linked' = Linked
        BY <2>2, LinkedStands
  <2>4. /\ DOMAIN pass.figures = DOMAIN Linked
        /\ \A o \in DOMAIN Linked : pass.figures[o] = FigureOf(o)
        BY <2>1 DEF QuietInv, FiguresAreRead
  <2>5. \A o \in DOMAIN Linked : objective'[o].figure = FigureOf(o)
        BY <2>2, <2>4, LinkedIs
  <2>6. FigureIsItsPages'
        BY <2>1, <2>3, <2>5 DEF FigureIsItsPages, FigureOf
  <2> QED
      BY <2>1, <2>6 DEF QuietInv, FiguresAreRead, StepsAreTodo, LinksAreRead, Writing
<1> QED
    BY <1>1, <1>2

\* The steps it reads are all there are to take.
LEMMA QuietReadsOpen ==
    ASSUME Inv, QuietInv, quiet, ReadOpen
    PROVE  QuietInv'
<1> DEFINE todo == {item \in {Todo(o) : o \in Objectives} : item.steps # <<>>}
<1>1. UNCHANGED <<today, people>> /\ pass.at = "windows"
      BY DEF ReadOpen
<1>2. FigureIsItsPages'
      BY <1>1, AsItWas DEF QuietInv
<1>3. CASE todo = {}
  <2>1. pass'.at = "pages"
        BY <1>3, StageOf DEF ReadOpen
  <2>2. \A o \in Objectives : Todo(o).steps = <<>>
        BY <1>3
  <2>3. StatusFollowsItsWindow'
        BY <1>1, <2>2, NoStepsLeft, AsItWas DEF Inv
  <2> QED
      BY <1>2, <2>1, <2>3 DEF QuietInv, FiguresAreRead, StepsAreTodo, LinksAreRead, Writing
<1>4. CASE todo # {}
  <2>1. pass'.at = "step" /\ pass'.todo = todo
        BY <1>4, StageOf, CarriedBy DEF ReadOpen
  <2>2. \A o \in Objectives : Todo(o)' = Todo(o)
        BY <1>1, AsItWas
  <2>3. StepsAreTodo'
        BY <2>1, <2>2 DEF StepsAreTodo
  <2> QED
      BY <1>2, <2>1, <2>3 DEF QuietInv, FiguresAreRead, LinksAreRead, Writing
<1> QED
    BY <1>3, <1>4

\* An item with a step taken, field by field.
LEMMA ItemOf ==
    ASSUME NEW item \in StepItems, NEW to \in Statuses, NEW tail
    PROVE  [item EXCEPT !.from = to, !.steps = tail] = [id |-> item.id, from |-> to, steps |-> tail]
<1> DEFINE rest == [item EXCEPT !.from = to, !.steps = tail]
<1>1. rest \in [id : Objectives, from : Statuses, steps : {tail}]
      BY DEF StepItems
<1>2. rest.id = item.id /\ rest.from = to /\ rest.steps = tail
      BY DEF StepItems
<1> HIDE DEF rest
<1>3. rest = [id |-> item.id, from |-> to, steps |-> tail]
      BY <1>1, <1>2
<1> QED
    BY <1>3 DEF rest

\* A step it takes leaves to do what the window still asks of that objective, and
\* what it asks of the others.
LEMMA QuietApplies ==
    ASSUME Inv, QuietInv, quiet, ApplyStep
    PROVE  QuietInv'
<1> DEFINE asked == {item \in {Todo(o) : o \in Objectives} : item.steps # <<>>}
<1>1. /\ UNCHANGED <<today, page, chosen>> /\ pass.at = "step"
      /\ pass.todo = asked
      BY DEF ApplyStep, QuietInv, StepsAreTodo
<1>2. PICK item \in First :
         LET to == Head(item.steps)
             rest == [item EXCEPT !.from = to, !.steps = Tail(item.steps)]
             left == (pass.todo \ {item})
                       \cup (IF Moves(item) /\ rest.steps # <<>> THEN {rest} ELSE {})
         IN  /\ objective' = IF Moves(item) THEN [objective EXCEPT ![item.id].status = to]
                             ELSE objective
             /\ pass' = IF left = {} THEN [Idle EXCEPT !.at = "pages"]
                        ELSE [Idle EXCEPT !.at = "step", !.todo = left]
      BY DEF ApplyStep
<1>3. item \in pass.todo
      BY DEF First
<1>4. PICK mine \in Objectives : item = Todo(mine) /\ item.steps # <<>>
      BY <1>1, <1>3
<1> DEFINE to == Head(item.steps)
           rest == [item EXCEPT !.from = to, !.steps = Tail(item.steps)]
           left == (pass.todo \ {item}) \cup (IF rest.steps # <<>> THEN {rest} ELSE {})
<1>5. /\ item.id = mine /\ item.from = objective[mine].status
      /\ item.steps = WindowSteps(objective[mine].status, objective[mine].period)
      BY <1>4 DEF Todo
<1>6. /\ objective' = [objective EXCEPT ![mine].status = to]
      /\ pass' = IF left = {} THEN [Idle EXCEPT !.at = "pages"]
                 ELSE [Idle EXCEPT !.at = "step", !.todo = left]
  <2>1. Moves(item)
        BY <1>5 DEF Moves
  <2> QED
      BY <1>2, <1>5, <2>1
<1>7. /\ objective'[mine].status = to /\ objective'[mine].period = objective[mine].period
      /\ \A o \in Objectives : o # mine => objective'[o] = objective[o]
      /\ \A o \in Objectives : /\ objective'[o].page = objective[o].page
                               /\ objective'[o].figure = objective[o].figure
  <2>1. objective \in [Objectives -> Rows]
        BY DEF Inv, TypeOK, Rows
  <2>2. objective[mine] \in Rows
        BY <2>1
  <2>3. objective'[mine] = [objective[mine] EXCEPT !.status = to]
        BY <1>6, <2>1
  <2>4. \A o \in Objectives : o # mine => objective'[o] = objective[o]
        BY <1>6, <2>1
  <2> HIDE DEF to
  <2> QED
      BY <2>2, <2>3, <2>4 DEF Rows
<1>8. \A o \in Objectives : o # mine => Todo(o)' = Todo(o)
      BY <1>1, <1>7 DEF Todo, WindowSteps, Phase
<1>9. Todo(mine)' = rest
  <2>1. objective[mine].period \in Periods \cup {Unwritten}
        BY DEF Inv, TypeOK
  <2>2. WindowSteps(to, objective[mine].period) = Tail(item.steps)
        BY <1>4, <1>5, <2>1, StepsGoOn
  <2>3. rest = [id |-> mine, from |-> to, steps |-> Tail(item.steps)]
    <3>1. item \in StepItems /\ to \in Statuses
          BY <1>1, <1>3, ItemStep DEF Inv, CarriedOK
    <3> QED
        BY <1>5, <3>1, ItemOf
  <2>4. Todo(mine)' = [id |-> mine, from |-> to, steps |-> WindowSteps(to, objective[mine].period)]
    <3> HIDE DEF to
    <3> QED
        BY <1>1, <1>7 DEF Todo, WindowSteps, Phase
  <2> HIDE DEF to, rest
  <2> QED
      BY <2>2, <2>3, <2>4
<1>10. {t \in {Todo(o)' : o \in Objectives} : t.steps # <<>>} = left
  <2> SUFFICES ASSUME NEW t
               PROVE  t \in left <=> t.steps # <<>> /\ \E o \in Objectives : t = Todo(o)'
      OBVIOUS
  <2>1. \A o \in Objectives : Todo(o).id = o
        BY DEF Todo
  <2>2. \A o \in Objectives : o # mine => Todo(o) # item
        BY <1>4, <2>1
  <2>3. CASE \E o \in Objectives \ {mine} : t = Todo(o)'
    <3>1. PICK o \in Objectives \ {mine} : t = Todo(o)
          BY <1>8, <2>3
    <3>2. rest.id = mine /\ t.id = o
      <4>1. rest.id = item.id
        <5> HIDE DEF to
        <5> QED
            BY <1>4 DEF Todo
      <4> QED
          BY <1>5, <2>1, <3>1, <4>1
    <3>3. t \in left <=> t \in pass.todo
      <4> HIDE DEF rest
      <4> QED
          BY <2>2, <3>1, <3>2
    <3>4. t \in pass.todo <=> t.steps # <<>>
          BY <1>1, <3>1
    <3> QED
        BY <2>3, <3>3, <3>4
  <2>4. CASE t = Todo(mine)'
    <3>1. t = rest
          BY <1>9, <2>4
    <3>2. t \in pass.todo => t = item
      <4> SUFFICES ASSUME t \in pass.todo PROVE t = item
          OBVIOUS
      <4>1. PICK o \in Objectives : t = Todo(o)
            BY <1>1
      <4>2. t.id = mine
        <5>1. rest.id = item.id
          <6> HIDE DEF to
          <6> QED
              BY <1>4 DEF Todo
        <5> HIDE DEF rest
        <5> QED
            BY <1>5, <3>1, <5>1
      <4> QED
          BY <1>4, <2>1, <4>1, <4>2
    <3> HIDE DEF rest
    <3> QED
        BY <2>4, <3>1, <3>2
  <2>5. CASE \A o \in Objectives : t # Todo(o)'
    <3>1. t # rest
          BY <1>9, <2>5
    <3>2. t \notin pass.todo \ {item}
          BY <1>1, <1>4, <1>8, <2>5
    <3> HIDE DEF rest
    <3> QED
        BY <2>5, <3>1, <3>2
  <2> HIDE DEF left
  <2> QED
      BY <2>3, <2>4, <2>5
<1>11. Linked' = Linked /\ FigureIsItsPages'
  <2>1. Linked' = Linked
        BY <1>7, LinkedStands
  <2> QED
      BY <1>1, <1>7, <2>1, LinkedIs DEF QuietInv, FigureIsItsPages
<1>12. CASE left = {}
  <2>1. pass'.at = "pages"
    <3> HIDE DEF left
    <3> QED
        BY <1>6, <1>12, StageOf
  <2>2. \A o \in Objectives : Todo(o)'.steps = <<>>
        BY <1>10, <1>12
  <2>3. TypeOK'
        BY ApplyStepInv DEF Inv
  <2>4. StatusFollowsItsWindow'
        BY <2>2, <2>3, NoStepsLeftNext
  <2> QED
      BY <1>11, <2>1, <2>4 DEF QuietInv, FiguresAreRead, StepsAreTodo, LinksAreRead, Writing
<1>13. CASE left # {}
  <2>1. pass'.at = "step" /\ pass'.todo = left
    <3> HIDE DEF left
    <3> QED
        BY <1>6, <1>13, StageOf
  <2>2. StepsAreTodo'
    <3> HIDE DEF left
    <3> QED
        BY <1>10, <2>1 DEF StepsAreTodo
  <2> QED
      BY <1>11, <2>1, <2>2 DEF QuietInv, FiguresAreRead, LinksAreRead, Writing
<1> QED
    BY <1>12, <1>13

\* The links it reads are those the pages are written for, if any are.
LEMMA QuietReadsLinks ==
    ASSUME Inv, QuietInv, quiet, ReadLinks
    PROVE  QuietInv'
<1> DEFINE links == [o \in DOMAIN Linked |-> [page |-> Linked[o], period |-> objective[o].period]]
<1>1. UNCHANGED <<today, people>> /\ pass.at = "pages"
      BY DEF ReadLinks
<1>2. FigureIsItsPages' /\ StatusFollowsItsWindow'
      BY <1>1, AsItWas DEF QuietInv
<1>3. CASE chosen.dates # None /\ Linked # <<>>
  <2>1. pass' = [Idle EXCEPT !.at = "entries", !.column = chosen.dates, !.linked = links]
        BY <1>3, Zenon DEF ReadLinks
  <2>2. pass'.at = "entries" /\ pass'.linked = links /\ pass'.column = chosen.dates
    <3> HIDE DEF links
    <3> QED
        BY <2>1, StageOf
  <2>3. LinksAreRead'
    <3>1. UNCHANGED <<objective, chosen>> /\ Linked' = Linked
          BY <1>1, AsItWas DEF people
    <3> QED
        BY <1>3, <2>2, <3>1 DEF LinksAreRead
  <2> QED
      BY <1>2, <2>2, <2>3 DEF QuietInv, FiguresAreRead, StepsAreTodo, Writing
<1>4. CASE ~(chosen.dates # None /\ Linked # <<>>)
  <2>1. pass' = Idle
        BY <1>4, Zenon DEF ReadLinks
  <2>2. pass'.at = "rest"
        BY <2>1, StageOf
  <2>3. PageShowsItsPeriod
        BY <1>4, LinkedIs DEF PageShowsItsPeriod
  <2>4. PageShowsItsPeriod'
        BY <1>1, <2>3, AsItWas
  <2> QED
      BY <1>2, <2>2, <2>4 DEF QuietInv, FiguresAreRead, StepsAreTodo, LinksAreRead, Writing
<1> QED
    BY <1>3, <1>4

\* Nothing due on any page is all there is to show.
LEMMA NothingDue ==
    ASSUME \A o \in DOMAIN Linked : ~DatesDue(o)
    PROVE  PageShowsItsPeriod
BY DEF PageShowsItsPeriod, DatesDue, Alone

\* What it plans is what is due.
LEMMA QuietPlans ==
    ASSUME Inv, QuietInv, quiet, PlanPages
    PROVE  QuietInv'
<1> DEFINE action(o) == [id |-> o, page |-> pass.linked[o].page, column |-> pass.column,
                         dates |-> pass.linked[o].period,
                         conflict |-> Conflicts(pass.linked[o].page, pass.column,
                                                pass.linked[o].period)]
           todo == {action(o) : o \in {o \in DOMAIN pass.linked : ToWrite(o)}}
<1>1. UNCHANGED <<today, people>> /\ pass.at = "entries"
      BY DEF PlanPages
<1>2. pass' = IF todo = {} THEN Idle ELSE [Idle EXCEPT !.at = "write", !.todo = todo]
      BY DEF PlanPages
<1>3. FigureIsItsPages' /\ StatusFollowsItsWindow'
      BY <1>1, AsItWas DEF QuietInv
<1>4. /\ DOMAIN pass.linked = DOMAIN Linked
      /\ \A o \in DOMAIN Linked : /\ pass.linked[o].page = Linked[o]
                                  /\ pass.linked[o].period = objective[o].period
      /\ pass.column = chosen.dates
      BY <1>1 DEF QuietInv, LinksAreRead
<1>5. \A o \in DOMAIN Linked : ToWrite(o) <=> DatesDue(o)
      BY <1>4 DEF ToWrite, DatesDue, Alone
<1>6. /\ \A o \in DOMAIN Linked : DatesDue(o) => \E a \in todo : a.id = o
      /\ \A a \in todo : /\ a.id \in DOMAIN Linked /\ Alone(a.id)
                         /\ a.page = Linked[a.id] /\ a.column = chosen.dates
                         /\ a.dates = objective[a.id].period
  <2>1. \A o \in DOMAIN Linked : DatesDue(o) => action(o) \in todo /\ action(o).id = o
        BY <1>4, <1>5
  <2>2. ASSUME NEW a \in todo
        PROVE  /\ a.id \in DOMAIN Linked /\ Alone(a.id)
               /\ a.page = Linked[a.id] /\ a.column = chosen.dates
               /\ a.dates = objective[a.id].period
    <3>1. PICK o \in DOMAIN Linked : a = action(o) /\ ToWrite(o)
          BY <1>4
    <3>2. Alone(o)
          BY <1>5, <3>1 DEF DatesDue
    <3> QED
        BY <1>4, <3>1, <3>2
  <2> HIDE DEF todo, action
  <2> QED
      BY <2>1, <2>2
<1>7. CASE todo = {}
  <2>1. pass'.at = "rest"
        BY <1>2, <1>7, StageOf
  <2>2. PageShowsItsPeriod
        BY <1>6, <1>7, NothingDue
  <2>3. PageShowsItsPeriod'
        BY <1>1, <2>2, AsItWas
  <2> QED
      BY <1>3, <2>1, <2>3 DEF QuietInv, FiguresAreRead, StepsAreTodo, LinksAreRead, Writing
<1>8. CASE todo # {}
  <2> HIDE DEF todo
  <2>1. pass'.at = "write" /\ pass'.todo = todo
        BY <1>2, <1>8, StageOf, CarriedBy
  <2>2. UNCHANGED <<objective, chosen>> /\ Linked' = Linked
        /\ \A o : DatesDue(o)' <=> DatesDue(o)
        BY <1>1, AsItWas DEF people
  <2>3. DatesArePlanned'
        BY <1>6, <2>1, <2>2 DEF DatesArePlanned, Alone
  <2> QED
      BY <1>3, <2>1, <2>3 DEF QuietInv, FiguresAreRead, StepsAreTodo, LinksAreRead, Writing
<1> QED
    BY <1>7, <1>8

\* A write it makes leaves nothing due on that page, and no more on any other.
LEMMA QuietWrites ==
    ASSUME Inv, QuietInv, quiet, WriteDates(TRUE, TRUE)
    PROVE  QuietInv'
<1>1. PICK action \in First :
         /\ page' = [page EXCEPT ![action.page].dates[action.column] = action.dates]
         /\ pass' = [Idle EXCEPT !.at = "note", !.todo = pass.todo]
      BY DEF WriteDates
<1>2. UNCHANGED <<today, objective, chosen>> /\ pass.at = "write"
      BY DEF WriteDates
<1>3. /\ action \in Actions /\ action \in pass.todo
      /\ \A a \in First : a = action
      BY <1>2, OneFirst DEF First
<1>4. pass'.at = "note" /\ pass'.todo = pass.todo /\ First' = First
  <2>1. pass'.at = "note" /\ pass'.todo = pass.todo
        BY <1>1, StageOf, CarriedBy
  <2> QED
      BY <2>1 DEF First
<1>5. Linked' = Linked
      BY <1>2, LinkedStands
<1>6. /\ \A g \in Pages : page'[g].held = page[g].held /\ page'[g].success = page[g].success
      /\ \A g \in Pages, c \in DateColumns :
            page'[g].dates[c] = IF g = action.page /\ c = action.column THEN action.dates
                                ELSE page[g].dates[c]
  <2>1. action.page \in Pages /\ action.column \in DateColumns /\ action.dates \in Dates
        BY <1>3 DEF Actions
  <2> HIDE DEF Dates
  <2>2. page' = Put(action.page, action.column, action.dates)
        BY <1>1 DEF Put
  <2> QED
      BY <2>1, <2>2, DatesPut DEF Inv
<1>7. \A o \in DOMAIN Linked : Linked[o] \in Pages
      BY LinkedOK DEF Inv
<1>8. DatesArePlanned /\ action.column = chosen.dates /\ action.column \in DateColumns
      BY <1>2, <1>3 DEF QuietInv, Writing, DatesArePlanned, Actions
<1>9. \A o \in DOMAIN Linked : DatesDue(o)' => DatesDue(o)
  <2> SUFFICES ASSUME NEW o \in DOMAIN Linked, DatesDue(o)' PROVE DatesDue(o)
      OBVIOUS
  <2>1. /\ Alone(o) /\ objective[o].period # Unwritten
        /\ page'[Linked[o]].held = "store"
        /\ page'[Linked[o]].dates[chosen.dates] # objective[o].period
        BY <1>2, <1>5 DEF DatesDue, Alone
  <2>2. Linked[o] # action.page
    <3> SUFFICES ASSUME Linked[o] = action.page PROVE FALSE
        OBVIOUS
    <3>1. action.id = o /\ action.dates = objective[o].period
          BY <1>3, <1>8, <2>1 DEF DatesArePlanned, Alone
    <3> QED
        BY <1>6, <1>7, <1>8, <2>1, <3>1
  <2> QED
      BY <1>6, <1>7, <1>8, <2>1, <2>2 DEF DatesDue
<1>10. DatesArePlanned'
  <2>1. \A a \in First : page'[a.page].dates[a.column] = a.dates
        BY <1>3, <1>6 DEF Actions
  <2> QED
      BY <1>2, <1>4, <1>5, <1>8, <1>9, <2>1 DEF DatesArePlanned, Alone
<1>11. FigureIsItsPages'
      BY <1>2, <1>5, <1>6, <1>7 DEF QuietInv, FigureIsItsPages
<1>12. StatusFollowsItsWindow'
      BY <1>2 DEF QuietInv, StatusFollowsItsWindow, Writing
<1> QED
    BY <1>4, <1>10, <1>11, <1>12
       DEF QuietInv, FiguresAreRead, StepsAreTodo, LinksAreRead, Writing

\* The action it leaves behind has nothing due any more.
LEMMA QuietAfter ==
    ASSUME Inv, QuietInv, quiet, pass.at \in {"note", "ledger"}, UNCHANGED <<today, people>>,
           NEW action \in First, pass' = After(action)
    PROVE  QuietInv'
<1>1. FigureIsItsPages' /\ StatusFollowsItsWindow'
      BY AsItWas DEF QuietInv, Writing
<1>2. DatesArePlanned /\ action \in pass.todo
      BY DEF QuietInv, Writing, First
<1>3. /\ UNCHANGED <<objective, chosen>> /\ Linked' = Linked
      /\ \A o : DatesDue(o)' <=> DatesDue(o)
      BY AsItWas DEF people
<1>4. \A o \in DOMAIN Linked : DatesDue(o) => \E a \in pass.todo \ {action} : a.id = o
  <2> SUFFICES ASSUME NEW o \in DOMAIN Linked, DatesDue(o)
               PROVE  \E a \in pass.todo \ {action} : a.id = o
      OBVIOUS
  <2>1. PICK a \in pass.todo : a.id = o
        BY <1>2 DEF DatesArePlanned
  <2>2. a # action
        BY <1>2, <2>1 DEF DatesArePlanned, DatesDue
  <2> QED
      BY <2>1, <2>2
<1>5. CASE pass.todo = {action}
  <2>1. pass'.at = "rest"
        BY <1>5, StageOf DEF After
  <2>2. PageShowsItsPeriod
        BY <1>4, <1>5, NothingDue
  <2>3. PageShowsItsPeriod'
        BY <2>2, AsItWas
  <2> QED
      BY <1>1, <2>1, <2>3 DEF QuietInv, FiguresAreRead, StepsAreTodo, LinksAreRead, Writing
<1>6. CASE pass.todo # {action}
  <2>1. pass'.at = "write" /\ pass'.todo = pass.todo \ {action}
    <3>1. pass' = [Idle EXCEPT !.at = "write", !.todo = pass.todo \ {action}]
          BY <1>6 DEF After
    <3> QED
        BY <3>1, StageOf, CarriedBy
  <2>2. DatesArePlanned'
        BY <1>2, <1>3, <1>4, <2>1 DEF DatesArePlanned, Alone
  <2> QED
      BY <1>1, <2>1, <2>2 DEF QuietInv, FiguresAreRead, StepsAreTodo, LinksAreRead, Writing
<1> QED
    BY <1>5, <1>6

\* A write noted, and a conflict entered, go on to the next action, or from the
\* note to the ledger.
LEMMA QuietNotes ==
    ASSUME Inv, QuietInv, quiet, NoteApplied \/ RecordConflict
    PROVE  QuietInv'
<1>1. UNCHANGED <<today, people>> /\ pass.at \in {"note", "ledger"}
      BY DEF NoteApplied, RecordConflict
<1>2. CASE \E action \in First : pass' = After(action)
      BY <1>1, <1>2, QuietAfter
<1>3. CASE pass' = [Idle EXCEPT !.at = "ledger", !.todo = pass.todo]
  <2>1. pass'.at = "ledger" /\ pass'.todo = pass.todo
        BY <1>3, StageOf, CarriedBy
  <2>2. First' = First
        BY <2>1 DEF First
  <2>3. /\ UNCHANGED <<objective, page, chosen>> /\ Linked' = Linked
        /\ \A o : DatesDue(o)' <=> DatesDue(o)
        BY <1>1, AsItWas DEF people
  <2>4. DatesArePlanned
        BY <1>1 DEF QuietInv, Writing
  <2>5. DatesArePlanned'
        BY <1>1, <2>1, <2>2, <2>3, <2>4 DEF DatesArePlanned, Alone
  <2>6. FigureIsItsPages' /\ StatusFollowsItsWindow'
        BY <1>1, AsItWas DEF QuietInv, Writing
  <2> QED
      BY <2>1, <2>5, <2>6 DEF QuietInv, FiguresAreRead, StepsAreTodo, LinksAreRead, Writing
<1> QED
    BY <1>2, <1>3 DEF NoteApplied, RecordConflict

\* A step that touches neither the tables, the day nor the pass.
LEMMA QuietStands ==
    ASSUME QuietInv, UNCHANGED <<today, people, pass, quiet>>
    PROVE  QuietInv'
<1>1. /\ UNCHANGED <<objective, page, chosen>> /\ Linked' = Linked /\ First' = First
      /\ \A o : Todo(o)' = Todo(o) /\ (DatesDue(o)' <=> DatesDue(o))
      BY AsItWas DEF people, First
<1>2. FiguresAreRead' <=> FiguresAreRead
      BY <1>1 DEF FiguresAreRead, FigureOf
<1>3. StepsAreTodo' <=> StepsAreTodo
      BY <1>1 DEF StepsAreTodo
<1>4. LinksAreRead' <=> LinksAreRead
      BY <1>1 DEF LinksAreRead
<1>5. DatesArePlanned' <=> DatesArePlanned
      BY <1>1 DEF DatesArePlanned, Alone
<1> QED
    BY <1>2, <1>3, <1>4, <1>5, AsItWas DEF QuietInv

\* A quiet pass stays one: each of its steps leaves the next what it needs.
LEMMA QuietStep ==
    ASSUME Inv, QuietInv, [QuietNext]_quietVars
    PROVE  QuietInv'
<1>1. CASE Interferes
      BY <1>1 DEF Interferes, QuietInv
<1>2. CASE Begins
      BY <1>2, QuietBegins DEF Begins
<1>3. CASE Proceeds
  <2>1. CASE ~quiet
        BY <1>3, <2>1 DEF Proceeds, QuietInv
  <2>2. CASE quiet
        BY <1>3, <2>2, QuietFigures, QuietReadsOpen, QuietApplies, QuietReadsLinks, QuietPlans,
           QuietWrites, QuietNotes DEF Proceeds, Step
  <2> QED
      BY <2>1, <2>2
<1>4. CASE Asks \/ UNCHANGED quietVars
  <2>1. UNCHANGED <<today, people, pass, quiet>>
        BY <1>4 DEF Asks, AskMove, quietVars, vars
  <2> QED
      BY <2>1, QuietStands
<1> QED
    BY <1>1, <1>2, <1>3, <1>4 DEF QuietNext

\* The mark says nothing of what may happen.
LEMMA QuietIsObjectives == QuietSpec => Spec
<1>1. QuietInit => Init
      BY DEF QuietInit
<1>2. Asks => Person
      BY DEF Asks, Person
<1>3. [QuietNext]_quietVars => [Next]_vars
      BY <1>2 DEF QuietNext, Interferes, Begins, Proceeds, Next, quietVars
<1> QED
    BY <1>1, <1>3, PTL DEF QuietSpec, Spec

(* A pass that no edit, no new day and no failure met leaves every objective in  *)
(* the status its window gives it, every page with its period and every linked   *)
(* objective with its page's figure, whatever happened before it began.          *)
THEOREM QuietPassesSettle == QuietSpec => []NextPassSettles
<1>1. QuietInit => QuietInv
      BY DEF QuietInit, QuietInv
<1>2. Inv /\ QuietInv /\ [QuietNext]_quietVars => QuietInv'
      BY QuietStep
<1>3. QuietInv => NextPassSettles
      BY DEF QuietInv, NextPassSettles, Settled
<1>4. QuietSpec => []Inv
      BY QuietIsObjectives, Invariant, PTL
<1> QED
    BY <1>1, <1>2, <1>3, <1>4, PTL DEF QuietSpec

=============================================================================
