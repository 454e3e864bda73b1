----------------------------- MODULE MCToolCalls -----------------------------
(* ToolCalls with two calls at a time and a bound on how many are submitted. *)
(* Only proposals read who is ranked, so that sessions and takeaways are      *)
(* left alone where not every initiative is.                                 *)
EXTENDS ToolCalls

CONSTANTS MaxSubmitted

VARIABLE submitted

Symmetry == Permutations(Calls) \cup Permutations(Callers) \cup Permutations(Keys)
            \cup Permutations(Initiatives)

AllRanked == ranked = Initiatives

MCInit ==
    /\ Init
    /\ AllRanked \/ \A v \in Reviews : review[v] = Absent
    /\ submitted = 0

Command(c) ==
    \/ \E i \in Initiatives, to \in Statuses : Submit(c, SetStatus(i, to))
    \/ \E desired \in SUBSET Initiatives : Submit(c, ProposeNowSet(desired))
    \/ /\ AllRanked
       /\ \/ Submit(c, StartReview)
          \/ \E v \in Reviews, d \in Decisions \cup {Absent}, complete \in BOOLEAN :
                Submit(c, RecordDecision(v, d, complete))
          \/ \E t \in Takeaways : Submit(c, Promote(t))

MCNext ==
    \/ /\ submitted < MaxSubmitted
       /\ submitted' = submitted + 1
       /\ \/ \E c \in Calls : Command(c)
          \/ \E scored \in SUBSET Initiatives : Reclassify(scored)
    \/ /\ UNCHANGED submitted
       /\ \/ \E c \in Calls : Step(c) \/ Fail(c)
          \/ \E v \in Reviews : Discard(v)
          \/ Tick

MCSpec == MCInit /\ [][MCNext]_<<vars, submitted>>
=============================================================================
