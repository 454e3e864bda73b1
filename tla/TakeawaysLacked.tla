---------------------------- MODULE TakeawaysLacked ----------------------------
(***************************************************************************)
(* Adoption, with what the takeaways store was seen without since the scan  *)
(* under way began.                                                         *)
(***************************************************************************)
EXTENDS Adoption

VARIABLE lacked     \* history: the takeaways the store was without at some step of the scan

lackedVars == <<adoptionVars, lacked>>

LacksNow(now) ==
    {t.id : t \in takeaway} \ {p.id : p \in {q \in Snapshot[now].pages :
                                 q.role = "takeaways_db" /\ ~q.archived /\ q.type # Absent}}

NotesLacked ==
    lacked' = IF scan'.at = "rest" THEN {}
              ELSE (IF scan.at = "rest" THEN {} ELSE lacked) \cup LacksNow(tools)

LackedSpec == AdoptionInit /\ lacked = {} /\ [][AdoptionNext /\ NotesLacked]_lackedVars

-----------------------------------------------------------------------------
\* The mirror forgets a takeaway only when nothing was promoted from it and the
\* store, really read, was without it: neither a store that could not be read
\* nor a promotion in the middle of the scan loses one (adopt, mirrorTakeaways).
TakeawaysAreKept ==
    [][\A t \in takeaway : (\A u \in takeaway' : u.id # t.id) => ~t.promoted /\ t.id \in lacked]_lackedVars
=============================================================================
