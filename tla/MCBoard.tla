------------------------------- MODULE MCBoard -------------------------------
(* Three initiatives in two areas over a week of two working days out of    *)
(* three.  Only one initiative's dates are edited, so that the boards stay  *)
(* few; every initiative's status and dependencies are.                     *)
EXTENDS Board

CONSTANT MaxEdits   \* edits of the board and completions

VARIABLES edits

MCAreas == ("craft" :> [kind |-> "area", active |-> TRUE])
           @@ ("home" :> [kind |-> "area", active |-> TRUE])
           @@ ("run" :> [kind |-> "run", active |-> TRUE])

\* Year 1 is decided anew, with nothing for craft; year 2 is never decided.
MCWeights == 0 :> (("craft" :> 60) @@ ("home" :> 40))
             @@ 1 :> (("craft" :> 0) @@ ("home" :> 100))

MCDuration == 1 :> 1 @@ 2 :> 2 @@ 3 :> 3

Row(a, status, v, tc, size, start, deadline, deps) ==
    [area |-> a, status |-> status, value |-> v, timeCriticality |-> tc, risk |-> 1,
     size |-> size, start |-> start, deadline |-> deadline, deps |-> deps,
     estimated |-> TRUE, project |-> NoDate]

MCInitial == {
    <<Row("craft", "later", 2, 1, 2, NoDate, 5, {}),
      Row("craft", "next", 3, 1, 1, NoDate, NoDate, {1}),
      [Row("home", "next", 2, 2, 2, NoDate, NoDate, {}) EXCEPT !.project = "p"]>>,
    <<Row("craft", "now", 1, 1, 2, NoDate, NoDate, {}),
      Row("craft", "next", 3, 2, 2, 1, 4, {}),
      [Row("craft", "later", 2, 2, 3, NoDate, 6, {1}) EXCEPT !.estimated = FALSE]>>}

MCClampMin == <<1, 2>>
MCClampMax == <<2, 1>>

MCInit == BoardInit /\ edits = 0

Within == \A i \in Ids \ {1} : board'[i].start = board[i].start
                              /\ board'[i].deadline = board[i].deadline

MCNext ==
    \/ /\ edits < MaxEdits
       /\ \/ Edit /\ Within
          \/ \E a \in DOMAIN Areas, m \in Minutes : Complete(a, m)
       /\ edits' = edits + 1
    \/ NextDay /\ UNCHANGED edits

MCSpec == MCInit /\ [][MCNext]_<<boardVars, edits>>
=============================================================================
