----------------------------- MODULE ExactlyOnce -----------------------------
(***************************************************************************)
(* What the creation ledger promises of the task tool (0007_creation.sql): *)
(* an object is made for an intent only once it was asked for, once at     *)
(* most, and the ledger ends up naming that object and no other.           *)
(***************************************************************************)
CONSTANTS Intents, Objects, None

VARIABLES
    asked,  \* the intents that were committed
    made,   \* intent: the objects made for it
    known   \* intent: the object the ledger names, or None

once == <<asked, made, known>>

Init ==
    /\ asked = {}
    /\ made = [i \in Intents |-> {}]
    /\ known = [i \in Intents |-> None]

\* Several intents are asked for at once: a project and its sections.
Ask(S) ==
    /\ asked' = asked \cup S
    /\ UNCHANGED <<made, known>>

Make(i, x) ==
    /\ i \in asked
    /\ made[i] = {}
    /\ \A j \in Intents : x \notin made[j]
    /\ made' = [made EXCEPT ![i] = {x}]
    /\ UNCHANGED <<asked, known>>

Know(i, x) ==
    /\ made[i] = {x}
    /\ known[i] = None
    /\ known' = [known EXCEPT ![i] = x]
    /\ UNCHANGED <<asked, made>>

Next ==
    \/ \E S \in SUBSET Intents : Ask(S)
    \/ \E i \in Intents, x \in Objects : Make(i, x) \/ Know(i, x)

Spec == Init /\ [][Next]_once

=============================================================================
