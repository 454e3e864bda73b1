------------------------------- MODULE ToolCalls ------------------------------
(***************************************************************************)
(* The write tools of the MCP server (apps/api/src/mcp): a call without a  *)
(* confirmation plans and is given one; a call with one plans again, spends *)
(* the confirmation if the plan is still the one that was shown, and runs.  *)
(* Beside them the browser writes the same rows through the REST routes,    *)
(* with no confirmation.                                                    *)
(*                                                                         *)
(* Every await of a call is a step boundary: the calls of several callers,  *)
(* the routes and the clock move in between, and a call may end anywhere    *)
(* (an error, a lost connection, a restarted process).                      *)
(***************************************************************************)
EXTENDS Integers, Sequences, FiniteSets, SequencesExt

CONSTANTS
    Calls,              \* calls under way at the same time
    Callers,
    Initiatives, Statuses,
    Reviews, Decisions,
    Takeaways,
    Keys,               \* identifiers of confirmations
    Absent,
    Ttl,                \* CONFIRMATION_TTL_SECONDS
    LastTick            \* the bound of the clock

ASSUME StatusAssumption == {"now", "next"} \subseteq Statuses

\* review_session; a closed one carries the capacity it was closed on.
Sessions ==
    [decisions : Seq(Decisions), closedAt : Nat \cup {Absent}, snapshot : Nat \cup {Absent}]

ASSUME TimesAssumption ==
    /\ {Ttl, LastTick} \subseteq Nat
    /\ Absent \notin Nat
    /\ Absent \notin Sessions

VARIABLES
    clock,
    status,             \* initiative.status
    ranked,             \* the initiatives of an active area, which alone are scored
    review,             \* review_session
    promoted,           \* takeaway.promoted_to, and what was made for it
    confirmation,       \* confirmation_token
    call                \* the calls under way

vars == <<clock, status, ranked, review, promoted, confirmation, call>>

Idle == [phase |-> "idle", cmd |-> Absent, caller |-> Absent, key |-> Absent,
         plan |-> {}, seen |-> Absent, closing |-> FALSE, alone |-> TRUE]

Opened == [decisions |-> <<>>, closedAt |-> Absent, snapshot |-> Absent]

IsOpen(v) == review[v] # Absent /\ review[v].closedAt = Absent

Open == {v \in Reviews : IsOpen(v)}

Phases == {"idle", "planned", "executing", "reviewing", "writing", "promoting", "made"}

\* A session is measured when it is closed, and a takeaway is linked to an
\* initiative that was made for it.
TypeOK ==
    /\ clock \in 0 .. LastTick
    /\ status \in [Initiatives -> Statuses]
    /\ ranked \subseteq Initiatives
    /\ review \in [Reviews -> Sessions \cup {Absent}]
    /\ \A v \in Reviews : review[v] # Absent =>
          (review[v].snapshot = Absent <=> review[v].closedAt = Absent)
    /\ promoted \in [Takeaways -> [to : Nat, made : Nat]]
    /\ \A t \in Takeaways : promoted[t].to <= promoted[t].made
    /\ DOMAIN confirmation = Keys
    /\ DOMAIN call = Calls
    /\ \A c \in Calls : call[c].phase \in Phases

Init ==
    /\ clock = 0
    /\ status \in [Initiatives -> Statuses]
    /\ ranked \in SUBSET Initiatives
    /\ review \in [Reviews -> {Absent, Opened}]
    /\ promoted = [t \in Takeaways |-> [to |-> 0, made |-> 0]]
    /\ confirmation = [k \in Keys |-> Absent]
    /\ call = [c \in Calls |-> Idle]

-----------------------------------------------------------------------------
(* The commands (a tool and its arguments), and the plan each derives from   *)
(* the state: its changes, or a refusal.                                    *)

SetStatus(i, to) == [tool |-> "set_status", on |-> i, to |-> to]
ProposeNowSet(desired) == [tool |-> "propose_now_set", on |-> desired]
StartReview == [tool |-> "start_review"]
RecordDecision(v, decision, complete) ==
    [tool |-> "record_review_decision", on |-> v, decision |-> decision,
     complete |-> complete]
Promote(t) == [tool |-> "promote_takeaway", on |-> t]

Commands ==
    {SetStatus(i, to) : i \in Initiatives, to \in Statuses}
    \cup {ProposeNowSet(desired) : desired \in SUBSET Initiatives}
    \cup {StartReview}
    \cup {RecordDecision(v, d, complete) :
             v \in Reviews, d \in Decisions \cup {Absent}, complete \in BOOLEAN}
    \cup {Promote(t) : t \in Takeaways}

Change(on, before, after) == [on |-> on, before |-> before, after |-> after]

\* Appended to what is there, when a decision came with the call.
Appended(decisions, decision) ==
    IF decision = Absent THEN decisions ELSE Append(decisions, decision)

\* Mutation of NowSetMoves: what is not proposed stays where it is.
NowSetAdditions(desired) ==
    {Change(i, status[i], "now") : i \in {j \in desired : status[j] # "now"}}

\* Whatever is named and not `now` is promoted; what is demoted is read from the
\* focus, whose `now` is the scored work in flight.
NowSetMoves(desired) ==
    {Change(i, status[i], "now") : i \in {j \in desired : status[j] # "now"}}
    \cup {Change(i, "now", "next") : i \in {j \in ranked \ desired : status[j] = "now"}}

Refuses(cmd) ==
    CASE cmd.tool = "record_review_decision" ->
           review[cmd.on] = Absent \/ (cmd.complete /\ ~IsOpen(cmd.on))
      [] cmd.tool = "promote_takeaway" -> promoted[cmd.on].to # 0
      [] OTHER -> FALSE

PlanOf(cmd) ==
    CASE cmd.tool = "set_status" ->
           IF status[cmd.on] = cmd.to THEN {} ELSE {Change(cmd.on, status[cmd.on], cmd.to)}
      [] cmd.tool = "propose_now_set" -> NowSetMoves(cmd.on)
      [] cmd.tool = "start_review" -> {Change("created", Open, Open)}
      [] cmd.tool = "record_review_decision" ->
           {Change(f, review[cmd.on].decisions, Appended(review[cmd.on].decisions, cmd.decision)) :
               f \in {x \in {"decisions"} : cmd.decision # Absent}}
           \cup {Change(f, <<>>, <<>>) : f \in {x \in {"completedAt"} : cmd.complete}}
      [] cmd.tool = "promote_takeaway" -> {Change("promotedTo", 0, 1)}

\* Mutation of Digest: what the plan read is left out.
DigestOfCommand(cmd, plan) == <<cmd, {}>>

\* What a confirmation is bound to: the tool, the arguments and the diff.
Digest(cmd, plan) == <<cmd, plan>>

-----------------------------------------------------------------------------
(* The cycle. *)

End(c) == call' = [call EXCEPT ![c] = Idle]

\* Without a confirmation: the plan is shown, and one is issued for it unless
\* it would change nothing.
DryRun(c, caller, cmd) ==
    /\ call[c].phase = "idle"
    /\ ~Refuses(cmd)
    /\ PlanOf(cmd) # {}
    /\ \E k \in Keys :
          /\ confirmation[k] = Absent
          /\ confirmation' = [confirmation EXCEPT ![k] =
                [digest |-> Digest(cmd, PlanOf(cmd)), caller |-> caller,
                 expires |-> clock + Ttl, consumed |-> FALSE,
                 cmd |-> cmd, shown |-> PlanOf(cmd), runs |-> 0]]
    /\ UNCHANGED <<clock, status, ranked, review, promoted, call>>

\* With one: the plan is derived anew. For the properties: over whom a proposal
\* had the focus to read.
Confirm(c, caller, cmd, k) ==
    /\ call[c].phase = "idle"
    /\ ~Refuses(cmd)
    /\ call' = [call EXCEPT ![c] = [Idle EXCEPT
          !.phase = "planned", !.cmd = cmd, !.caller = caller, !.key = k,
          !.plan = PlanOf(cmd),
          !.seen = IF cmd.tool = "propose_now_set" THEN ranked ELSE Absent]]
    /\ UNCHANGED <<clock, status, ranked, review, promoted, confirmation>>

Verified(c) ==
    LET k == call[c].key
    IN /\ confirmation[k] # Absent
       /\ ~confirmation[k].consumed
       /\ confirmation[k].expires > clock
       /\ confirmation[k].caller = call[c].caller
       /\ confirmation[k].digest = Digest(call[c].cmd, call[c].plan)

\* Spent first, in one statement, whatever the rest of the check then says.
Verify(c) ==
    /\ call[c].phase = "planned"
    /\ confirmation' = [k \in Keys |->
          IF k # call[c].key \/ confirmation[k] = Absent THEN confirmation[k]
          ELSE [confirmation[k] EXCEPT !.consumed = TRUE,
                                       !.runs = @ + (IF Verified(c) THEN 1 ELSE 0)]]
    /\ IF Verified(c) THEN call' = [call EXCEPT ![c].phase = "executing"] ELSE End(c)
    /\ UNCHANGED <<clock, status, ranked, review, promoted>>

-----------------------------------------------------------------------------
(* What the tools do once confirmed. *)

\* For the properties: who else is under way is no longer the only one to move
\* an initiative.
Disturbed(c) ==
    [d \in Calls |-> IF d = c \/ call[d].phase = "idle" THEN call[d]
                     ELSE [call[d] EXCEPT !.alone = FALSE]]

\* One transition of the plan; the next may never come.
Move(c) ==
    /\ call[c].phase = "executing"
    /\ call[c].cmd.tool \in {"set_status", "propose_now_set"}
    /\ IF call[c].plan = {} THEN End(c) /\ UNCHANGED status
       ELSE \E m \in call[c].plan :
              /\ status' = [status EXCEPT ![m.on] = m.after]
              /\ call' = [Disturbed(c) EXCEPT ![c].plan = @ \ {m}]
    /\ UNCHANGED <<clock, ranked, review, promoted, confirmation>>

OpenReview(v) ==
    /\ review[v] = Absent
    /\ review' = [review EXCEPT ![v] = Opened]

StartsReview(c) ==
    /\ call[c].phase = "executing"
    /\ call[c].cmd.tool = "start_review"
    /\ \E v \in Reviews : OpenReview(v)
    /\ End(c)
    /\ UNCHANGED <<clock, status, ranked, promoted, confirmation>>

\* The session is read again, for the decisions the new one is appended to.
ReadsReview(c) ==
    /\ call[c].phase = "executing"
    /\ call[c].cmd.tool = "record_review_decision"
    /\ IF review[call[c].cmd.on] = Absent THEN End(c)
       ELSE call' = [call EXCEPT ![c].phase = "reviewing",
                                 ![c].seen = review[call[c].cmd.on].decisions]
    /\ UNCHANGED <<clock, status, ranked, review, promoted, confirmation>>

\* The update reads it once more, to know whether it is the one that closes it
\* and has to measure capacity.
ReadsOpenness(c) ==
    /\ call[c].phase = "reviewing"
    /\ IF review[call[c].cmd.on] = Absent THEN End(c)
       ELSE call' = [call EXCEPT ![c].phase = "writing",
                                 ![c].closing = call[c].cmd.complete /\ IsOpen(call[c].cmd.on)]
    /\ UNCHANGED <<clock, status, ranked, review, promoted, confirmation>>

\* What is given replaces what is there; what is not given stays.
Written(row, new, closing) ==
    [row EXCEPT !.decisions = new,
                !.closedAt = IF closing THEN clock ELSE @,
                !.snapshot = IF closing THEN clock ELSE @]

WritesReview(c) ==
    LET v == call[c].cmd.on
        given == call[c].cmd.decision # Absent
        new == IF given THEN Appended(call[c].seen, call[c].cmd.decision)
               ELSE review[v].decisions
    IN /\ call[c].phase = "writing"
       /\ review' = IF review[v] = Absent THEN review
                    ELSE [review EXCEPT ![v] = Written(review[v], new, call[c].closing)]
       /\ End(c)
       /\ UNCHANGED <<clock, status, ranked, promoted, confirmation>>

ReadsTakeaway(c) ==
    /\ call[c].phase = "executing"
    /\ call[c].cmd.tool = "promote_takeaway"
    /\ IF promoted[call[c].cmd.on].to # 0 THEN End(c)
       ELSE call' = [call EXCEPT ![c].phase = "promoting"]
    /\ UNCHANGED <<clock, status, ranked, review, promoted, confirmation>>

\* The initiative is created, and only then is the takeaway linked to it.
MakesInitiative(c) ==
    /\ call[c].phase = "promoting"
    /\ promoted' = [promoted EXCEPT ![call[c].cmd.on].made = @ + 1]
    /\ call' = [call EXCEPT ![c].phase = "made", ![c].seen = promoted[call[c].cmd.on].made + 1]
    /\ UNCHANGED <<clock, status, ranked, review, confirmation>>

LinksTakeaway(c) ==
    /\ call[c].phase = "made"
    /\ promoted' = [promoted EXCEPT ![call[c].cmd.on].to = call[c].seen]
    /\ End(c)
    /\ UNCHANGED <<clock, status, ranked, review, confirmation>>

-----------------------------------------------------------------------------
(* The routes: the same services, at once. *)

Route(c, cmd) ==
    /\ call[c].phase = "idle"
    /\ call' = [call EXCEPT ![c] = [Idle EXCEPT
          !.phase = "executing", !.cmd = cmd,
          !.plan = IF cmd.tool = "set_status" THEN PlanOf(cmd) ELSE {}]]
    /\ UNCHANGED <<clock, status, ranked, review, promoted, confirmation>>

\* Mutation of Discard: the session was open when the page showed it.
DiscardShown(v) ==
    /\ review[v] # Absent
    /\ review' = [review EXCEPT ![v] = Absent]
    /\ UNCHANGED <<clock, status, ranked, promoted, confirmation, call>>

\* Deleted where it is open, in one statement.
Discard(v) ==
    /\ IsOpen(v)
    /\ review' = [review EXCEPT ![v] = Absent]
    /\ UNCHANGED <<clock, status, ranked, promoted, confirmation, call>>

\* An initiative is filed under another area, or an area is made a lane, set
\* inactive or active again.
Reclassify(scored) ==
    /\ scored # ranked
    /\ ranked' = scored
    /\ UNCHANGED <<clock, status, review, promoted, confirmation, call>>

-----------------------------------------------------------------------------

\* An error, a lost connection or a restart, between any two steps.
Fail(c) ==
    /\ call[c].phase # "idle"
    /\ End(c)
    /\ UNCHANGED <<clock, status, ranked, review, promoted, confirmation>>

Tick ==
    /\ clock < LastTick
    /\ clock' = clock + 1
    /\ UNCHANGED <<status, ranked, review, promoted, confirmation, call>>

Step(c) ==
    \/ Verify(c) \/ Move(c) \/ StartsReview(c)
    \/ ReadsReview(c) \/ ReadsOpenness(c) \/ WritesReview(c)
    \/ ReadsTakeaway(c) \/ MakesInitiative(c) \/ LinksTakeaway(c)

Submit(c, cmd) ==
    \/ \E a \in Callers : DryRun(c, a, cmd) \/ \E k \in Keys : Confirm(c, a, cmd, k)
    \/ cmd.tool # "propose_now_set" /\ Route(c, cmd)

Next ==
    \/ \E c \in Calls :
          \/ \E i \in Initiatives, to \in Statuses : Submit(c, SetStatus(i, to))
          \/ \E desired \in SUBSET Initiatives : Submit(c, ProposeNowSet(desired))
          \/ Submit(c, StartReview)
          \/ \E v \in Reviews, d \in Decisions \cup {Absent}, complete \in BOOLEAN :
                Submit(c, RecordDecision(v, d, complete))
          \/ \E t \in Takeaways : Submit(c, Promote(t))
          \/ Step(c)
          \/ Fail(c)
    \/ \E v \in Reviews : Discard(v)
    \/ \E scored \in SUBSET Initiatives : Reclassify(scored)
    \/ Tick

Spec == Init /\ [][Next]_vars

-----------------------------------------------------------------------------

\* No tool runs but on a confirmation its own caller was given for this very
\* command, in time, whose plan is still the plan, and none runs twice on one:
\* however many calls present it at once, and whatever moved in between.
ExecutesWhatWasShown ==
    [][\A c \in Calls :
         call[c].phase = "planned" /\ call'[c].phase = "executing" =>
            LET k == call[c].key
            IN /\ confirmation[k].cmd = call[c].cmd
               /\ confirmation[k].shown = call[c].plan
               /\ confirmation[k].caller = call[c].caller
               /\ clock < confirmation[k].expires
               /\ confirmation'[k].runs = 1]_vars

\* A proposal answers for what its plan could see, the scored initiatives and
\* those it names: when the last of its transitions is made and nobody else moved
\* an initiative since the plan, the ones of them that are `now` are just those
\* proposed, whatever was filed elsewhere in between (propose_now_set).
ProposalIsExact ==
    [][\A c \in Calls :
         /\ call[c].phase = "executing" /\ call[c].cmd.tool = "propose_now_set"
         /\ call[c].alone /\ call[c].plan # {} /\ call'[c].plan = {}
         /\ status' # status
         => {i \in call[c].seen \cup call[c].cmd.on : status'[i] = "now"} = call[c].cmd.on]_vars

\* A closed session is history: it is never deleted nor opened again, whatever
\* was under way on it, and it is measured anew only by a call that had found it
\* open (services/ops.ts updateReview, discardReview).
ClosedIsHistory ==
    [][\A v \in Reviews : review[v] # Absent /\ ~IsOpen(v) =>
         /\ review'[v] # Absent
         /\ review'[v].closedAt # Absent
         /\ review'[v].snapshot # review[v].snapshot =>
               \E c \in Calls : call[c].phase = "writing" /\ call[c].closing]_vars

=============================================================================
