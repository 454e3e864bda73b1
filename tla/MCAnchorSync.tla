----------------------------- MODULE MCAnchorSync ----------------------------
(***************************************************************************)
(* AnchorSync on a small instance: the API and the people make at most     *)
(* MaxEdits changes, and at most MaxFaults steps of a pass fail.           *)
(***************************************************************************)
EXTENDS AnchorSync

CONSTANTS MaxEdits, MaxFaults

VARIABLES edits, faults

mcVars == <<vars, edits, faults>>

\* One title, two values, an area with two places and a project elsewhere.
MCScalars == {"title"}
MCValues == {"lowest", "high"}
MCPlaces == {"home", "near", "away"}
MCAreaOf == [p \in MCPlaces |-> IF p = "away" THEN "work" ELSE "house"]

\* prisme wants the high value at home.  An adopted task has another title,
\* no label and lies in another area; its priority, the same for its subtasks,
\* is open.
MCInit ==
    /\ Init
    /\ want = [f \in Wanted |-> IF f = "location" THEN "home" ELSE "high"]
    /\ status \in {"later", "now"}
    /\ last["title"] = None =>
          /\ tool["title"] = "lowest"
          /\ tool["location"] = "away"
          /\ tool["label"] = {"other"}
    /\ \A c \in Children : tool[c] = tool["priority"]
    /\ edits = 0
    /\ faults = 0

Edit ==
    /\ edits < MaxEdits
    /\ Api \/ People
    /\ edits' = edits + 1
    /\ UNCHANGED faults

Step == Reconcile /\ UNCHANGED <<edits, faults>>

Fail ==
    /\ faults < MaxFaults
    /\ Fault
    /\ faults' = faults + 1
    /\ UNCHANGED edits

MCNext == Edit \/ Step \/ Fail

MCSpec == MCInit /\ [][MCNext]_mcVars

\* A pass is a sequential program, and the schedule starts the next one; no
\* person and no request has to act.
MCFairSpec == MCSpec /\ WF_mcVars(Step)

\* Everything prisme owns is as it wants it, nothing asked for is left, and a
\* subtask that is prisme's to lower or raise has the anchor's priority.
Kept ==
    /\ \A f \in Scalars : tool[f] = want[f]
    /\ status # "later" => tool["priority"] = want["priority"]
    /\ "prisme" \in tool["label"]
    /\ tool["label"] \cap Requests = {}
    /\ "anchor" \in completed => status = "review"
    /\ want["location"] \notin {None, tool["location"]} =>
          /\ want["location"] \notin Claimed
          /\ AreaOf[tool["location"]] = AreaOf[want["location"]]

Inherited(excused) ==
    \A c \in Children \ (completed \cup touched \cup excused) :
       tool[c] \in ours[c] => tool[c] = want["priority"]

\* Once the edits stop, passes bring the task to what prisme wants and it stays
\* there, whatever failed on the way (16-sync section 6).
Converges == <>[](Kept /\ Inherited(slipped))

=============================================================================
