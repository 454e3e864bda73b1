------------------------------ MODULE MCTimeline -----------------------------
(* MCBoard's boards and edits, and the Timeline's page over them. *)
EXTENDS MCBoard, Timeline

MCPageInit == MCInit /\ shown = None /\ saving = None

MCPageNext ==
    \/ MCNext /\ UNCHANGED <<shown, saving>>
    \/ Page /\ UNCHANGED edits

MCPageSpec == MCPageInit /\ [][MCPageNext]_<<pageVars, edits>>
=============================================================================
