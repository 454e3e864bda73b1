------------------------------- MODULE MCHistory -------------------------------
(* History with a task, a habit, and a bounded number of runs, failures and     *)
(* changes to the mapping.                                                      *)
EXTENDS History

CONSTANTS MaxRuns, MaxFaults, MaxMaps   \* bounds

VARIABLES spent

mcVars == <<vars, spent>>

\* What was done before the first day of prisme's.
Past == Cardinality(made) <= 1 /\ \A c \in made : c.task \in Habits /\ c.at = 0

MCInit == Init /\ Past /\ mapped = Tasks /\ spent = [runs |-> 0, faults |-> 0, maps |-> 0]

Spend(what, most) ==
    /\ spent[what] < most
    /\ spent' = [spent EXCEPT ![what] = @ + 1]

\* Only the two fetches read the tool and the clock, and only the load reads the
\* mapping: a change at any other step of a run commutes with that step, and one
\* after the last run has nobody to read it.  What is re-mapped was read before.
Between == run.at = "rest" /\ spent.runs < MaxRuns
Fetches == Between \/ run.at \in {"history", "log"}
Placed(t) == (Between \/ run.at = "replace") /\ \E c \in history : c.task = t

MCNext ==
    \/ Step /\ UNCHANGED spent
    \/ Tick /\ Fetches /\ UNCHANGED spent
    \/ \E t \in Tasks :
          \/ (\E at \in -Skew .. LastDay : Complete(t, at)) /\ Fetches /\ UNCHANGED spent
          \/ TakeBack(t) /\ Fetches /\ UNCHANGED spent
          \/ MapPlace(t) /\ Placed(t) /\ Spend("maps", MaxMaps)
    \/ Start /\ Spend("runs", MaxRuns)
    \/ (Fails \/ Dies) /\ Spend("faults", MaxFaults)

MCSpec == MCInit /\ [][MCNext]_mcVars

=============================================================================
