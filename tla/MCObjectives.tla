----------------------------- MODULE MCObjectives -----------------------------
(* Objectives with a bounded number of edits and failures.                      *)
EXTENDS QuietObjectives, TLC

CONSTANTS MaxEdits, MaxFaults   \* bounds

VARIABLE spent

mcVars == <<quietVars, spent>>

\* One period is the first day, the other the third; each is judged by the day after.
MCStartsOn == [p \in Periods |-> IF p = "early" THEN 0 ELSE 2]
MCEndsOn == MCStartsOn
MCJudgeBy == [p \in Periods |-> MCEndsOn[p] + 1]

Names == Permutations(Pages) \cup Permutations(DateColumns) \cup Permutations(SuccessColumns)

\* One objective is linked to an empty page, the other to none.
Start ==
    /\ chosen.dates # None /\ chosen.success # None
    /\ \A g \in Pages : /\ \A c \in DateColumns : page[g].dates[c] = None
                       /\ \A c \in SuccessColumns : page[g].success[c] = None
    /\ \E g \in Pages : objective[1].page = g
    /\ objective[1].period \in Periods
    /\ \A o \in Objectives \ {1} : objective[o].page = None /\ objective[o].period = Unwritten
                                  /\ objective[o].status = "draft"

MCInit == QuietInit /\ Start /\ spent = [edits |-> 0, faults |-> 0]

Spend(what, most) ==
    /\ spent[what] < most
    /\ spent' = [spent EXCEPT ![what] = @ + 1]

\* The steps of a pass are reads and writes by turns, and a person's change
\* commutes with those it does not touch: it is made where it tells, between what
\* a part of the pass reads and what it writes, or before the next part.
Telling == pass.at \in {"rest", "record", "step", "pages", "write"}

\* The closed statuses are told apart by nobody, but for the window's own.
Few ==
    \/ \E o \in Objectives :
          \/ \E s \in {"active", "met"} : Judge(o, s)
          \/ \E g \in Pages \cup {None} : Relink(o, g)
    \/ \E g \in Pages : \/ \E c \in DateColumns, d \in Dates : EditDates(g, c, d)
                        \/ \E c \in SuccessColumns, f \in Figures \cup {None} : EditSuccess(g, c, f)
                        \/ \E held \in {"store", "trash"} : HoldPage(g, held)
    \/ \E column \in DateColumns \cup {None} : ChooseDates(column)
    \/ \E column \in SuccessColumns \cup {None} : ChooseSuccess(column)

MCNext ==
    \/ (Begins \/ Proceeds) /\ UNCHANGED spent
    \/ NextDay /\ pass.at = "rest" /\ quiet' = FALSE /\ UNCHANGED spent
    \/ Finish /\ Telling /\ quiet' = FALSE /\ UNCHANGED spent
    \/ Few /\ people' # people /\ Telling /\ quiet' = FALSE /\ Spend("edits", MaxEdits)
    \/ (\E o \in Objectives, p \in Periods, s \in {None, "met"} :
            p # objective[o].period /\ AskMove(o, p, s))
         /\ pass.at = "rest" /\ Spend("edits", MaxEdits) /\ UNCHANGED quiet
    \/ Fault /\ quiet' = FALSE /\ Spend("faults", MaxFaults)

MCSpec == MCInit /\ [][MCNext]_mcVars

=============================================================================
