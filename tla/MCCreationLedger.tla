--------------------------- MODULE MCCreationLedger --------------------------
(***************************************************************************)
(* CreationLedger on small instances: handlers and people make at most     *)
(* MaxEdits changes, and at most MaxFaults steps of converge fail.         *)
(***************************************************************************)
EXTENDS CreationLedger

CONSTANTS MaxEdits, MaxFaults,
          house, note, idea, plan,               \* entities
          project, section, page, task, ideaPage, planPage   \* their slots

VARIABLES edits, faults

mcVars == <<vars, edits, faults>>

\* A project with a section and a page, and a capture; two initiatives as well.
MCKindOf == [i \in Intents |->
    CASE i = project -> "project" [] i = section -> "section"
      [] i = task -> "task" [] OTHER -> "page"]
MCEntityOf == [i \in Intents |->
    CASE i \in {project, section, page} -> house [] i = task -> note
      [] i = ideaPage -> idea [] OTHER -> plan]
MCEntityKind == [e \in Entities |->
    CASE e = house -> "project" [] e = note -> "capture" [] OTHER -> "initiative"]
MCRank == [i \in Intents |->
    CASE i = project -> 0 [] i = section -> 1 [] i = task -> 2 [] i = page -> 3
      [] i = ideaPage -> 4 [] OTHER -> 5]

MCInit == Init /\ edits = 0 /\ faults = 0

Edit ==
    /\ edits < MaxEdits
    /\ Api \/ People
    /\ edits' = edits + 1
    /\ UNCHANGED faults

Step == Converge /\ UNCHANGED <<edits, faults>>

Fail ==
    /\ faults < MaxFaults
    /\ Fault
    /\ faults' = faults + 1
    /\ UNCHANGED edits

MCNext == Edit \/ Step \/ Fail

MCSpec == MCInit /\ [][MCNext]_mcVars

\* Passes are sequential programs, and the schedule starts the next one.
MCFairSpec == MCSpec /\ WF_mcVars(Step)

\* What the task tool can be asked for: a section needs a project to lie in,
\* linked or asked for.
CanBeMade(i) ==
    /\ Outstanding(row[i])
    /\ KindOf[i] = "section" =>
          \/ column[EntityOf[i]]["project"] # None
          \/ \E j \in IntentsFor(EntityOf[i], "project") : row[j].state # "absent"

\* Somebody else bound an object before the ledger recorded it: each pass ends
\* there from then on.
Taken ==
    \E i \in Keyed, x \in Objects :
       /\ Outstanding(row[i])
       /\ thing[x].by = i
       /\ ref[x] \notin {None, EntityOf[i]}

\* The ledger is drained of everything the task tool can make, whatever failed,
\* in whatever order the project, the section and the link came.
Drained ==
    \A i \in Keyed : CanBeMade(i) ~> (row[i].state = "satisfied" \/ Taken)

=============================================================================
