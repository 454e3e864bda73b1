------------------------------- MODULE Timeline ------------------------------
(***************************************************************************)
(* The Timeline's page over the board: a bar is dragged or nudged, the API *)
(* says what the move would do, and the person applies what is shown or    *)
(* not.  Meanwhile the board is edited elsewhere.  Neither the preview nor *)
(* the save carries a version of the plan it was made from.                *)
(*                                                                         *)
(* A preview and its answer are one step: an answer that comes late shows  *)
(* what a preview kept on the page would.                                  *)
(***************************************************************************)
EXTENDS Board

CONSTANT None

VARIABLES
    shown,   \* the preview on the page
    saving   \* the move being saved, whether it has been, and as history the
             \* plan's board and day then, if they were the preview's

pageVars == <<boardVars, shown, saving>>

PageInit == BoardInit /\ shown = None /\ saving = None

Dates(plan) == [i \in DOMAIN plan.at |-> <<plan.at[i].start, plan.at[i].end>>]

\* The answer of /timeline/replan; `on` is history, what it was computed from.
PreviewOf(i, day) ==
    LET r == Moved(i, day)
    IN [id |-> i, start |-> r.actual.start, shifted |-> r.shifted,
        dates |-> Dates(r.after), on |-> <<board, today>>]

\* A bar of work closed since the page was read is refused, and the page then
\* shows no preview.
Ask(i, day) ==
    /\ shown' = IF i \in Open(board) THEN PreviewOf(i, day) ELSE None
    /\ UNCHANGED <<boardVars, saving>>

\* Cancel, Escape, or a preview that could not be had.
Dismiss ==
    /\ shown # None
    /\ shown' = None
    /\ UNCHANGED <<boardVars, saving>>

\* The day the plan settled on is what is sent, not the one asked for.
Apply ==
    /\ shown # None
    /\ shown.shifted # {}
    /\ saving = None
    /\ saving' = [move |-> shown, saved |-> FALSE, left |-> None]
    /\ UNCHANGED <<boardVars, shown>>

\* PATCH /initiatives/{id}, with one field.
Save ==
    /\ saving # None
    /\ ~saving.saved
    /\ Update(saving.move.id, saving.move.start, board[saving.move.id].deadline)
    /\ saving' = [saving EXCEPT !.saved = TRUE,
                     !.left = IF saving.move.on = <<board, today>>
                              THEN <<board', today>> ELSE None]
    /\ UNCHANGED shown

\* The preview goes, even one asked for while the other was being saved.
Answered ==
    /\ saving # None
    /\ saving.saved
    /\ saving' = None
    /\ shown' = None
    /\ UNCHANGED boardVars

\* The request or its answer is lost: the preview stays, to be applied again.
SaveFails ==
    /\ saving # None
    /\ saving' = None
    /\ UNCHANGED <<boardVars, shown>>

Page ==
    \/ \E i \in Ids, day \in Starts \ {NoDate} : Ask(i, day)
    \/ Dismiss \/ Apply \/ Save \/ Answered \/ SaveFails

-----------------------------------------------------------------------------

\* "The commit matches the preview exactly": a move saved on the very board and
\* day its preview was computed from gives the plan the preview showed.
PreviewIsKept ==
    saving # None /\ saving.left = <<board, today>> => Dates(Plan) = saving.move.dates

=============================================================================
