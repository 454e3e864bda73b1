------------------------------ MODULE MCBinding ------------------------------
(***************************************************************************)
(* Binding on a small instance: people and handlers make at most MaxEdits  *)
(* changes, and at most MaxFaults steps of a pass fail.                    *)
(***************************************************************************)
EXTENDS QuietPass, TLC

CONSTANTS MaxEdits, MaxFaults

VARIABLES edits, faults

mcVars == <<quietVars, edits, faults>>

\* The instance has no row left to capture into, or no task left to make.
NoRoom ==
    \E op \in todo :
       \/ /\ op.kind = "capture"
          /\ \A i \in Initiatives : Exists(i)
          /\ ActionFails(op)
       \/ /\ op.kind = "create"
          /\ \A t \in Tasks : task[t] # "unborn"
          /\ CreateRefused(op)

MCInit == QuietInit /\ edits = 0 /\ faults = 0

Edit ==
    /\ edits < MaxEdits
    /\ Handlers \/ Others \/ People
    /\ edits' = edits + 1
    /\ quiet' = FALSE
    /\ UNCHANGED faults

Step == Proceeds /\ UNCHANGED <<edits, faults>>

Giving == Gives /\ UNCHANGED <<edits, faults>>

Stuck == NoRoom /\ quiet' = FALSE /\ UNCHANGED <<edits, faults>>

Fail ==
    /\ faults < MaxFaults
    /\ Fault
    /\ faults' = faults + 1
    /\ quiet' = FALSE
    /\ UNCHANGED edits

MCNext == Edit \/ Step \/ Giving \/ Stuck \/ Fail

MCSpec == MCInit /\ [][MCNext]_mcVars

\* The reconciler is a sequential program started on a schedule; nothing makes
\* a person or a request act.
MCFairSpec == MCSpec /\ WF_mcVars(Step \/ Stuck)

Rows == Permutations(Initiatives)

\* A decided link that could be bound does not stay unbound for ever: passes
\* bind it, after any number of failures, unless its task is taken or deleted
\* or an earlier link of the initiative comes first.
Honourable(i, t) ==
    /\ Exists(i)
    /\ row[i].anchor = None
    /\ t \in Unbound(i)
    /\ \A u \in Unbound(i) : t <= u
    /\ Live(t)
    /\ t \notin BoundElsewhere
    /\ t \notin BoundIds(row)

LinkHonoured ==
    \A i \in Initiatives, t \in Tasks : []<>~Honourable(i, t)

\* An initiative created in prisme and taken up does not stay without a task
\* for ever, when nothing links it, the instance has a task left to make and no
\* more initiatives wait than a pass may create for.
Waiting(i) ==
    /\ row[i].status = "active"
    /\ MayCreateExternally(row[i])
    /\ Unbound(i) = {}
    /\ i \notin Homeless
    /\ \E t \in Tasks : task[t] = "unborn"

ActiveIsAnchored ==
    \A i \in Initiatives :
       []<>~(Waiting(i) /\ Cardinality({j \in Initiatives : Waiting(j)}) <= CreateThreshold)

-----------------------------------------------------------------------------
(* What the documents say and the code does not keep. *)

\* "An external object bound to one prisme entity cannot be bound to another"
\* (13-migration, guard 1).  The unique index is on entity_external_ref; the
\* anchor the reconciler works from is initiative.external_anchor_id, and
\* bindExternalRef sets it whether or not its reference was inserted.
OneInitiativePerTask ==
    \A i, j \in Initiatives :
       row[i].anchor # None /\ row[i].anchor = row[j].anchor => i = j

=============================================================================
